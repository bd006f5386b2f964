------------------------- MODULE ValidationEngineProofs -------------------------
(***************************************************************************)
(* The engine keeps its stacks in order on every schema and every input:   *)
(* the program's own stack is bounded by the depth limit, strictness and   *)
(* profiles reach every call, scopes and active references are those of    *)
(* the calls that are open, and no reference that is declared around its   *)
(* schema is ever missed.  And what a successful validation returns        *)
(* mirrors its input along the schema.                                     *)
(***************************************************************************)
EXTENDS ValidationResult, SequenceTheorems, WellFoundedInduction, TLAPS

-----------------------------------------------------------------------------
(* Values and input nodes have no type here: a sequence is one of its own  *)
(* elements, and a record is a record of its own fields.                   *)
IsSequence(s) == s \in Seq({s[i] : i \in 1 .. Len(s)})

IsCall(x) ==
  x = [schema |-> x.schema, input |-> x.input, depth |-> x.depth, home |-> x.home,
       state |-> x.state, stage |-> x.stage, kids |-> x.kids, failure |-> x.failure,
       best |-> x.best]

IsState(x) ==
  x = [input |-> x.input, options |-> x.options, profile |-> x.profile, scopes |-> x.scopes,
       active |-> x.active, values |-> x.values]

KindOf(c) == graph.kind[calls[c].schema]

TypeOK ==
  /\ graph \in Graphs
  /\ IsSequence(calls) /\ IsSequence(states)
  /\ \A c \in 1 .. Len(calls) :
       /\ IsCall(calls[c])
       /\ calls[c].schema \in DOMAIN graph.kind
       /\ calls[c].depth \in Nat
       /\ calls[c].home \in Homes
       /\ calls[c].state \in 1 .. Len(states)
       /\ calls[c].stage \in Nat
  /\ \A k \in 1 .. Len(states) :
       /\ IsState(states[k])
       /\ IsSequence(states[k].scopes) /\ IsSequence(states[k].active)

(* Each call works in the state of its caller or in the next one, and the  *)
(* innermost call in the innermost state.                                  *)
Stacked ==
  /\ calls = << >> => states = << >>
  /\ calls # << >> => /\ calls[1].state = 1 /\ calls[1].home # "shared"
                      /\ calls[Len(calls)].state = Len(states)
  /\ \A c \in 1 .. Len(calls) - 1 :
       \/ calls[c + 1].home = "shared" /\ calls[c + 1].state = calls[c].state
       \/ calls[c + 1].home # "shared" /\ calls[c + 1].state = calls[c].state + 1
  /\ \A c, d \in 1 .. Len(calls) : c < d => calls[c].state <= calls[d].state

(* What a call validates: its options are those of its caller, but for an  *)
(* option that the caller is the first to set and for a strict model.      *)
AllOptions == [strict : BOOLEAN, override : {"none", "strict", "lax"}]

Handed(x, before, its) ==
  /\ its \in AllOptions
  /\ its.override = IF graph.kind[x.schema] = "field" /\ before.override = "none"
                    THEN graph.option[x.schema] ELSE before.override
  /\ its.strict <=>
       \/ before.strict
       \/ before.override = "none" /\ graph.kind[x.schema] = "model" /\ graph.flag[x.schema]

(* A kid is one level below, but for what definitions and fields enclose,  *)
(* and for a strict model, which is validated again in a strict branch.    *)
IsBelow(s, t) == \E j \in 1 .. Len(graph.kids[s]) : graph.kids[s][j] = t

Reaches(x, before, s, d, its) ==
  /\ Handed(x, before, its)
  /\ \/ IsBelow(x.schema, s) /\ d = x.depth + 1 /\ graph.kind[x.schema] \notin {"definitions", "field"}
     \/ graph.kind[x.schema] \in {"definitions", "field"} /\ s = graph.kids[x.schema][1] /\ d = x.depth
     \/ /\ graph.kind[x.schema] = "model" /\ s = x.schema /\ d = x.depth
        /\ graph.flag[x.schema] /\ before.override = "none" /\ ~before.strict

Path ==
  /\ \A c \in 1 .. Len(calls) :
       /\ Entered(c) => calls[c].depth <= MaxDepth
       /\ calls[c].depth <= MaxDepth + 1
  /\ \A c \in 1 .. Len(calls) - 1 :
       Reaches(calls[c], states[calls[c].state].options,
               calls[c + 1].schema, calls[c + 1].depth, states[calls[c + 1].state].options)

(* A model whose fields are being validated has one for each of the input. *)
Fitting ==
  \A c \in 1 .. Len(calls) :
    LET state == states[calls[c].state]
        its == state.options
        again == its.override = "none" /\ ~its.strict /\ graph.flag[calls[c].schema]
    IN  (Entered(c) /\ KindOf(c) = "model" /\ ~again) =>
          Len(graph.kids[calls[c].schema]) = Len(state.input.nodes[calls[c].input].kids)

(* What verify_references has found below definitions, and outside them.   *)
EnclosedBy(g, s, inside) ==
  /\ g.kids[s][1] \in inside
  /\ \A t \in inside :
       /\ g.kind[t] # "definitions"
       /\ g.kind[t] = "reference" => g.kids[t][1] \in g.declares[s]
       /\ \A j \in 1 .. Len(g.kids[t]) : g.kids[t][j] \in inside

Inside(g, s) == CHOOSE inside \in SUBSET DOMAIN g.kind : EnclosedBy(g, s, inside)

OutsideOf(g, outside) ==
  /\ g.root \in outside
  /\ \A s \in outside :
       /\ g.kind[s] # "reference"
       /\ g.kind[s] # "definitions" =>
            \A j \in 1 .. Len(g.kids[s]) : g.kids[s][j] \in outside

Outside(g) == CHOOSE outside \in SUBSET DOMAIN g.kind : OutsideOf(g, outside)

(* A call is inside the definitions open around it, or outside of all.     *)
PlacedAt(c) ==
  \/ \E d \in 1 .. c - 1 :
       KindOf(d) = "definitions" /\ calls[c].schema \in Inside(graph, calls[d].schema)
  \/ calls[c].schema \in Outside(graph) /\ \A d \in 1 .. c - 1 : KindOf(d) # "definitions"

Placed == ~graph.static /\ Enclosed(graph) => \A c \in 1 .. Len(calls) : PlacedAt(c)

(* No reference is followed again where it is being followed.              *)
Progressing ==
  \A c, d \in 1 .. Len(calls) :
    (/\ c < d /\ Entered(d)
     /\ KindOf(c) = "reference" /\ KindOf(d) = "reference"
     /\ \A e \in c + 1 .. d : calls[e].home # "input") => Followed(c) # Followed(d)

(* Errors that are kept or handed on are no errors of the schema.          *)
Sound(result) ==
  \/ result = Pending \/ result.outcome = "ok"
  \/ result.outcome = "error" /\ (Enclosed(graph) => result.code # "schema_invalid")

SchemaHolds ==
  /\ Sound(ret)
  /\ Enclosed(graph) => \A c \in 1 .. Len(calls) : calls[c].failure # "schema_invalid"

(* The options of the run are those of its first state, and each state has *)
(* the profile of its input.                                               *)
OptionsKept ==
  /\ calls # << >> => states[1].options = options
  /\ \A k \in 1 .. Len(states) :
       states[k].options \in AllOptions /\ states[k].profile = states[k].input.profile

IInv ==
  /\ TypeOK /\ Stacked /\ Path /\ Fitting /\ OptionsKept
  /\ BracketsMatch /\ Placed /\ Progressing /\ SchemaHolds
-----------------------------------------------------------------------------
(* Sequences of anything. *)
LEMMA IsSequenceOf ==
  ASSUME NEW S, NEW s \in Seq(S)
  PROVE  IsSequence(s)
  <1> DEFINE R == {s[i] : i \in 1 .. Len(s)}
  <1>1. Len(s) \in Nat /\ s \in [1 .. Len(s) -> S]
    BY LenProperties
  <1>2. s \in [1 .. Len(s) -> R]
    BY <1>1
  <1>3. s \in Seq(R)
    BY <1>1, <1>2, SeqDef
  <1> QED
    BY <1>3 DEF IsSequence

LEMMA LengthIs ==
  ASSUME NEW s, IsSequence(s)
  PROVE  Len(s) \in Nat /\ (s = << >> <=> Len(s) = 0)
  BY EmptySeq, LenProperties DEF IsSequence

LEMMA AppendIs ==
  ASSUME NEW s, IsSequence(s), NEW e
  PROVE  /\ IsSequence(Append(s, e))
         /\ Append(s, e) # << >>
         /\ Len(Append(s, e)) = Len(s) + 1
         /\ \A i \in 1 .. Len(s) : Append(s, e)[i] = s[i]
         /\ Append(s, e)[Len(s) + 1] = e
  <1> DEFINE R == {s[i] : i \in 1 .. Len(s)}
  <1>1. s \in Seq(R \cup {e})
    BY SeqMonotonic DEF IsSequence
  <1>2. e \in R \cup {e}
    OBVIOUS
  <1> HIDE DEF R
  <1>3. /\ Append(s, e) \in Seq(R \cup {e})
        /\ Append(s, e) # << >>
        /\ Len(Append(s, e)) = Len(s) + 1
        /\ \A i \in 1 .. Len(s) : Append(s, e)[i] = s[i]
        /\ Append(s, e)[Len(s) + 1] = e
    BY <1>1, <1>2, AppendProperties
  <1> QED
    BY <1>3, IsSequenceOf

LEMMA PopIs ==
  ASSUME NEW s, IsSequence(s), s # << >>
  PROVE  /\ IsSequence(Pop(s))
         /\ Len(s) \in Nat \ {0}
         /\ Len(Pop(s)) = Len(s) - 1
         /\ \A i \in 1 .. Len(s) - 1 : Pop(s)[i] = s[i]
  <1> DEFINE R == {s[i] : i \in 1 .. Len(s)}
  <1>1. Len(s) \in Nat \ {0}
    BY LengthIs
  <1>2. \A i \in 1 .. Len(s) - 1 : s[i] \in R
    BY <1>1
  <1> HIDE DEF R
  <1>3. /\ Pop(s) \in Seq(R)
        /\ Len(Pop(s)) = IF 1 <= Len(s) - 1 THEN Len(s) - 1 - 1 + 1 ELSE 0
        /\ \A i \in 1 .. Len(s) - 1 - 1 + 1 : Pop(s)[i] = s[1 + i - 1]
    BY <1>1, <1>2, SubSeqProperties DEF Pop
  <1>4. Len(Pop(s)) = Len(s) - 1
    <2>1. CASE Len(s) > 1
      BY <1>1, <1>3, <2>1
    <2>2. CASE Len(s) = 1
      BY <1>3, <2>2
    <2> QED
      BY <1>1, <2>1, <2>2
  <1>5. \A i \in 1 .. Len(s) - 1 : Pop(s)[i] = s[i]
    BY <1>1, <1>3
  <1> QED
    BY <1>1, <1>3, <1>4, <1>5, IsSequenceOf

LEMMA ReplaceIs ==
  ASSUME NEW s, IsSequence(s), s # << >>, NEW e
  PROVE  /\ IsSequence(Append(Pop(s), e))
         /\ Len(Append(Pop(s), e)) = Len(s)
         /\ \A i \in 1 .. Len(s) - 1 : Append(Pop(s), e)[i] = s[i]
         /\ Append(Pop(s), e)[Len(s)] = e
  <1>1. /\ IsSequence(Pop(s)) /\ Len(s) \in Nat \ {0} /\ Len(Pop(s)) = Len(s) - 1
        /\ \A i \in 1 .. Len(s) - 1 : Pop(s)[i] = s[i]
    BY PopIs
  <1>2. /\ IsSequence(Append(Pop(s), e))
        /\ Len(Append(Pop(s), e)) = Len(Pop(s)) + 1
        /\ \A i \in 1 .. Len(Pop(s)) : Append(Pop(s), e)[i] = Pop(s)[i]
        /\ Append(Pop(s), e)[Len(Pop(s)) + 1] = e
    BY <1>1, AppendIs
  <1> QED
    BY <1>1, <1>2

(* A list with one entry for each of some calls grows and shrinks with     *)
(* them: the entry of a new innermost call goes last, and comes off first. *)
LEMMA ListsNothing ==
  ASSUME NEW entry
  PROVE  Lists(<< >>, {}, entry)
  <1>1. Len(<< >>) = 0
    BY EmptySeq
  <1>2. [k \in 1 .. 0 |-> 0] \in [1 .. Len(<< >>) -> {}]
    BY <1>1
  <1> QED
    BY <1>1, <1>2 DEF Lists

LEMMA ListsOne ==
  ASSUME NEW s, IsSequence(s), NEW open \in SUBSET Int, NEW c \in Int, c \notin open,
         \A d \in open : d < c, NEW entry, NEW next, Lists(s, open, entry),
         \A d \in open : next[d] = entry[d]
  PROVE  Lists(Append(s, next[c]), open \cup {c}, next)
  <1> DEFINE t == Append(s, next[c])
  <1>1. /\ Len(s) \in Nat /\ Len(t) = Len(s) + 1
        /\ \A i \in 1 .. Len(s) : t[i] = s[i]
        /\ t[Len(s) + 1] = next[c]
    BY AppendIs, LengthIs
  <1>2. PICK at \in [1 .. Len(s) -> open] :
          /\ \A d \in open : \E k \in 1 .. Len(s) : at[k] = d
          /\ \A j, k \in 1 .. Len(s) : j < k => at[j] < at[k]
          /\ \A k \in 1 .. Len(s) : s[k] = entry[at[k]]
    BY DEF Lists
  <1> DEFINE to == [k \in 1 .. Len(t) |-> IF k = Len(t) THEN c ELSE at[k]]
  <1> HIDE DEF t
  <1>3. to \in [1 .. Len(t) -> open \cup {c}]
    BY <1>1, <1>2
  <1>4. \A k \in 1 .. Len(s) : to[k] = at[k] /\ at[k] \in open
    BY <1>1, <1>2
  <1>5. to[Len(t)] = c /\ Len(t) \in 1 .. Len(t)
    BY <1>1
  <1> HIDE DEF to
  <1>6. \A d \in open \cup {c} : \E k \in 1 .. Len(t) : to[k] = d
    BY <1>1, <1>2, <1>4, <1>5
  <1>7. \A j, k \in 1 .. Len(t) : j < k => to[j] < to[k]
    <2> SUFFICES ASSUME NEW j \in 1 .. Len(t), NEW k \in 1 .. Len(t), j < k
                 PROVE  to[j] < to[k]
      OBVIOUS
    <2>1. j \in 1 .. Len(s)
      BY <1>1
    <2>2. CASE k \in 1 .. Len(s)
      BY <1>2, <1>4, <2>1, <2>2
    <2>3. CASE k = Len(t)
      BY <1>4, <1>5, <2>1, <2>3
    <2> QED
      BY <1>1, <2>2, <2>3
  <1>8. \A k \in 1 .. Len(t) : t[k] = next[to[k]]
    <2> SUFFICES ASSUME NEW k \in 1 .. Len(t) PROVE t[k] = next[to[k]]
      OBVIOUS
    <2>1. CASE k \in 1 .. Len(s)
      <3>1. t[k] = s[k] /\ s[k] = entry[at[k]]
        BY <1>1, <1>2, <2>1
      <3>2. to[k] = at[k] /\ next[at[k]] = entry[at[k]]
        BY <1>4, <2>1
      <3> QED
        BY <3>1, <3>2
    <2>2. CASE k = Len(t)
      BY <1>1, <1>5, <2>2
    <2> QED
      BY <1>1, <2>1, <2>2
  <1> QED
    BY <1>3, <1>6, <1>7, <1>8 DEF Lists, t

LEMMA ListsLast ==
  ASSUME NEW s, IsSequence(s), NEW open \in SUBSET Int, NEW c \in open, \A d \in open : d <= c,
         NEW entry, Lists(s, open, entry)
  PROVE  s # << >> /\ s[Len(s)] = entry[c]
  <1>1. PICK at \in [1 .. Len(s) -> open] :
          /\ \A d \in open : \E k \in 1 .. Len(s) : at[k] = d
          /\ \A j, k \in 1 .. Len(s) : j < k => at[j] < at[k]
          /\ \A k \in 1 .. Len(s) : s[k] = entry[at[k]]
    BY DEF Lists
  <1>2. PICK last \in 1 .. Len(s) : at[last] = c
    BY <1>1
  <1>3. Len(s) \in Nat \ {0} /\ s # << >>
    BY <1>2, LengthIs
  <1>4. last = Len(s)
    <2> SUFFICES ASSUME last # Len(s) PROVE FALSE
      OBVIOUS
    <2>1. c < at[Len(s)] /\ at[Len(s)] \in open
      BY <1>1, <1>2, <1>3
    <2>2. c \in Int /\ at[Len(s)] \in Int /\ at[Len(s)] <= c
      BY <2>1
    <2> QED
      BY <2>1, <2>2
  <1> QED
    BY <1>1, <1>2, <1>3, <1>4

LEMMA ListsLess ==
  ASSUME NEW s, IsSequence(s), NEW open \in SUBSET Int, NEW c \in Int,
         NEW rest, rest = open \ {c}, c \in open, \A d \in rest : d < c,
         NEW entry, NEW next, Lists(s, open, entry),
         \A d \in rest : next[d] = entry[d]
  PROVE  Lists(Pop(s), rest, next)
  <1>1. PICK at \in [1 .. Len(s) -> open] :
          /\ \A d \in open : \E k \in 1 .. Len(s) : at[k] = d
          /\ \A j, k \in 1 .. Len(s) : j < k => at[j] < at[k]
          /\ \A k \in 1 .. Len(s) : s[k] = entry[at[k]]
    BY DEF Lists
  <1>2. PICK last \in 1 .. Len(s) : at[last] = c
    BY <1>1
  <1>3. Len(s) \in Nat \ {0} /\ s # << >>
    BY <1>2, LengthIs
  <1>4. last = Len(s)
    <2> SUFFICES ASSUME last # Len(s) PROVE FALSE
      OBVIOUS
    <2>1. at[last] < at[Len(s)] /\ at[Len(s)] \in open
      BY <1>1, <1>2, <1>3
    <2>2. c < at[Len(s)] /\ at[Len(s)] \in Int
      BY <1>2, <2>1
    <2>3. at[Len(s)] # c
      BY <2>2
    <2>4. at[Len(s)] < c
      BY <2>1, <2>3
    <2> QED
      BY <2>2, <2>4
  <1>5. /\ Len(Pop(s)) = Len(s) - 1
        /\ \A i \in 1 .. Len(s) - 1 : Pop(s)[i] = s[i]
    BY <1>3, PopIs
  <1>6. \A k \in 1 .. Len(s) - 1 : at[k] \in rest
    <2> SUFFICES ASSUME NEW k \in 1 .. Len(s) - 1 PROVE at[k] \in rest
      OBVIOUS
    <2>1. at[k] < at[Len(s)] /\ at[k] \in open
      BY <1>1, <1>3
    <2> QED
      BY <1>2, <1>4, <2>1
  <1> DEFINE t == Pop(s)
             to == [k \in 1 .. Len(t) |-> at[k]]
  <1> HIDE DEF t
  <1>7. Len(t) = Len(s) - 1 /\ \A k \in 1 .. Len(t) : t[k] = s[k]
    BY <1>5 DEF t
  <1>8. to \in [1 .. Len(t) -> rest] /\ \A k \in 1 .. Len(t) : to[k] = at[k]
    BY <1>6, <1>7
  <1> HIDE DEF to
  <1>9. \A d \in rest : \E k \in 1 .. Len(t) : to[k] = d
    <2> SUFFICES ASSUME NEW d \in rest PROVE \E k \in 1 .. Len(t) : to[k] = d
      OBVIOUS
    <2>1. PICK k \in 1 .. Len(s) : at[k] = d
      BY <1>1
    <2>2. k # Len(s)
      BY <1>2, <1>4, <2>1
    <2> QED
      BY <1>3, <1>7, <1>8, <2>1, <2>2
  <1>10. \A j, k \in 1 .. Len(t) : j < k => to[j] < to[k]
    BY <1>1, <1>3, <1>7, <1>8
  <1>11. \A k \in 1 .. Len(t) : t[k] = next[to[k]]
    <2> SUFFICES ASSUME NEW k \in 1 .. Len(t) PROVE t[k] = next[to[k]]
      OBVIOUS
    <2>1. k \in 1 .. Len(s) - 1 /\ k \in 1 .. Len(s)
      BY <1>3, <1>7
    <2>2. t[k] = s[k] /\ s[k] = entry[at[k]]
      BY <1>1, <1>7, <2>1
    <2>3. to[k] = at[k] /\ at[k] \in rest
      BY <1>6, <1>8, <2>1
    <2> QED
      BY <2>2, <2>3
  <1>12. Lists(t, rest, next)
    BY <1>8, <1>9, <1>10, <1>11 DEF Lists
  <1> QED
    BY <1>12 DEF t
-----------------------------------------------------------------------------
(* What opening and closing a call do to the stacks, entry by entry.       *)
SamePlace(x, y) ==
  /\ x.schema = y.schema /\ x.input = y.input /\ x.depth = y.depth
  /\ x.home = y.home /\ x.state = y.state

SameState(x, y) == x.input = y.input /\ x.options = y.options /\ x.profile = y.profile

SameMarks(x, y) == x.scopes = y.scopes /\ x.active = y.active

Continues(caller) ==
  /\ IsCall(caller) /\ SamePlace(caller, top) /\ caller.stage \in Nat
  /\ Enclosed(graph) => caller.failure # "schema_invalid"

Opening(s, d, home, its) ==
  LET n == Len(calls)
      m == Len(states)
      k == IF home = "shared" THEN m ELSE m + 1
  IN  /\ graph' = graph /\ options' = options /\ ret' = Pending
      /\ IsSequence(calls') /\ Len(calls') = n + 1
      /\ \A c \in 1 .. n :
           /\ IsCall(calls'[c]) /\ SamePlace(calls'[c], calls[c]) /\ calls'[c].stage \in Nat
           /\ Enclosed(graph) => calls'[c].failure # "schema_invalid"
      /\ IsCall(calls'[n + 1]) /\ calls'[n + 1].schema = s /\ calls'[n + 1].depth = d
      /\ calls'[n + 1].home = home /\ calls'[n + 1].state = k
      /\ calls'[n + 1].stage = 0 /\ calls'[n + 1].failure = "none"
      /\ IsSequence(states') /\ Len(states') = k
      /\ \A j \in 1 .. k : /\ IsState(states'[j])
                          /\ IsSequence(states'[j].scopes) /\ IsSequence(states'[j].active)
      /\ \A j \in 1 .. m : SameState(states'[j], states[j])
      /\ \A j \in 1 .. m - 1 : SameMarks(states'[j], states[j])
      /\ states'[k].options = its /\ states'[k].profile = states'[k].input.profile
      /\ home # "shared" => /\ SameMarks(states'[m], states[m])
                            /\ states'[k].scopes = states[m].scopes
      /\ home = "branch" => states'[k].active = states[m].active
      /\ home = "input" => states'[k].active = << >>

Closing ==
  LET n == Len(calls)
      m == Len(states)
      k == IF calls[n].home = "shared" THEN m ELSE m - 1
  IN  /\ graph' = graph /\ options' = options /\ ret' # Pending /\ Sound(ret)'
      /\ IsSequence(calls') /\ Len(calls') = n - 1
      /\ \A c \in 1 .. n - 1 : calls'[c] = calls[c]
      /\ IsSequence(states') /\ Len(states') = k
      /\ \A j \in 1 .. m - 1 : states'[j] = states[j]
      /\ calls[n].home = "shared" =>
           /\ IsState(states'[m]) /\ SameState(states'[m], states[m])
           /\ IsSequence(states'[m].scopes) /\ IsSequence(states'[m].active)

(* A call that has been entered and may open another one.                  *)
Ready ==
  /\ calls # << >> /\ top.depth <= MaxDepth
  /\ kind = "model" /\ ~NeedsStrict => Len(kids) = Len(node.kids)

MayOpen(s, d, home, its) ==
  /\ home \in Homes
  /\ home = "shared" => its = here.options
  /\ Reaches(top, here.options, s, d, its)

(* The schema of a call that may be opened is a node of the graph.         *)
LEMMA GraphIs ==
  ASSUME TypeOK, NEW s \in DOMAIN graph.kind
  PROVE  /\ graph.kids[s] \in Seq(DOMAIN graph.kind)
         /\ Arity(graph.kind[s], Len(graph.kids[s]))
         /\ graph.kind[s] = "definitions" => ~graph.static /\ Verified(graph, s)
         /\ graph.kind[s] = "field" => graph.option[s] \in {"strict", "lax"}
         /\ \A t : IsBelow(s, t) /\ graph.kind[t] = "field" => graph.kind[s] = "model"
  BY GraphsAssumption DEF TypeOK, IsGraph, IsBelow

LEMMA ReachesNode ==
  ASSUME TypeOK, NEW x, x.schema \in DOMAIN graph.kind, x.depth \in Nat, NEW before, NEW s, NEW d,
         NEW its, Reaches(x, before, s, d, its)
  PROVE  s \in DOMAIN graph.kind /\ d \in Nat /\ d <= x.depth + 1
  <1>1. /\ graph.kids[x.schema] \in Seq(DOMAIN graph.kind)
        /\ graph.kind[x.schema] \in {"definitions", "field"} => Len(graph.kids[x.schema]) = 1
    BY GraphIs DEF Arity
  <1>2. CASE IsBelow(x.schema, s) /\ d = x.depth + 1
    BY <1>1, <1>2, ElementOfSeq DEF IsBelow
  <1>3. CASE /\ graph.kind[x.schema] \in {"definitions", "field"}
             /\ s = graph.kids[x.schema][1] /\ d = x.depth
    BY <1>1, <1>3, ElementOfSeq
  <1>4. CASE s = x.schema /\ d = x.depth
    BY <1>4
  <1> QED
    BY <1>2, <1>3, <1>4 DEF Reaches

(* The stacks after a call has been opened. *)
LEMMA OpeningTypes ==
  ASSUME IInv, Ready, NEW s, NEW d, NEW home, NEW its,
         MayOpen(s, d, home, its), Opening(s, d, home, its)
  PROVE  TypeOK' /\ Stacked' /\ Path'
  <1> DEFINE n == Len(calls)
             m == Len(states)
             k == IF home = "shared" THEN m ELSE m + 1
  <1>1. /\ n \in Nat \ {0} /\ m \in Nat \ {0} /\ top = calls[n] /\ here = states[m]
        /\ calls[n].state = m
    BY LengthIs DEF IInv, TypeOK, Stacked, Ready, top, here, Last
  <1>2. /\ s \in DOMAIN graph.kind /\ d \in Nat /\ d <= top.depth + 1
        /\ top.depth \in Nat /\ top.depth <= MaxDepth
    BY <1>1, ReachesNode DEF IInv, TypeOK, MayOpen, Ready
  <1>3. /\ graph' = graph /\ options' = options /\ ret' = Pending
        /\ IsSequence(calls') /\ Len(calls') = n + 1
        /\ \A c \in 1 .. n : /\ IsCall(calls'[c]) /\ SamePlace(calls'[c], calls[c])
                              /\ calls'[c].stage \in Nat
        /\ IsCall(calls'[n + 1]) /\ calls'[n + 1].schema = s /\ calls'[n + 1].depth = d
        /\ calls'[n + 1].home = home /\ calls'[n + 1].state = k
        /\ calls'[n + 1].stage = 0
    BY DEF Opening
  <1>4. /\ IsSequence(states') /\ Len(states') = k
        /\ \A j \in 1 .. k : /\ IsState(states'[j])
                             /\ IsSequence(states'[j].scopes) /\ IsSequence(states'[j].active)
        /\ \A j \in 1 .. m : SameState(states'[j], states[j])
        /\ states'[k].options = its
    BY DEF Opening
  <1>5. k \in Nat /\ m <= k /\ (home = "shared" => k = m) /\ (home # "shared" => k = m + 1)
    BY <1>1
  <1>6. /\ home \in Homes /\ (home = "shared" => its = here.options)
        /\ Reaches(top, here.options, s, d, its)
    BY DEF MayOpen
  <1> HIDE DEF n, m, k
  <1>7. \A c \in 1 .. n : /\ calls'[c].schema = calls[c].schema /\ calls'[c].depth = calls[c].depth
                          /\ calls'[c].home = calls[c].home /\ calls'[c].state = calls[c].state
    BY <1>3 DEF SamePlace
  <1>8. \A c \in 1 .. n : /\ calls[c].schema \in DOMAIN graph.kind /\ calls[c].depth \in Nat
                          /\ calls[c].home \in Homes /\ calls[c].state \in 1 .. m
    BY DEF IInv, TypeOK, n, m
  <1>9. TypeOK'
    <2>1. \A c \in 1 .. n + 1 :
            /\ IsCall(calls'[c]) /\ calls'[c].schema \in DOMAIN graph.kind
            /\ calls'[c].depth \in Nat /\ calls'[c].home \in Homes
            /\ calls'[c].state \in 1 .. k /\ calls'[c].stage \in Nat
      <3> SUFFICES ASSUME NEW c \in 1 .. n + 1
                   PROVE  /\ IsCall(calls'[c]) /\ calls'[c].schema \in DOMAIN graph.kind
                          /\ calls'[c].depth \in Nat /\ calls'[c].home \in Homes
                          /\ calls'[c].state \in 1 .. k /\ calls'[c].stage \in Nat
        OBVIOUS
      <3>1. CASE c \in 1 .. n
        BY <1>1, <1>3, <1>5, <1>7, <1>8, <3>1
      <3>2. CASE c = n + 1
        BY <1>1, <1>2, <1>3, <1>5, <1>6, <3>2
      <3> QED
        BY <1>1, <3>1, <3>2
    <2>2. graph \in Graphs
      BY DEF IInv, TypeOK
    <2> QED
      BY <1>3, <1>4, <2>1, <2>2 DEF TypeOK
  <1>10. Stacked'
    <2>1. calls' # << >> /\ calls'[1].state = 1 /\ calls'[1].home # "shared"
          /\ calls'[Len(calls')].state = Len(states')
      <3>1. calls[1].state = 1 /\ calls[1].home # "shared"
        BY DEF IInv, Stacked, Ready
      <3> QED
        BY <1>1, <1>3, <1>4, <1>7, <3>1, LengthIs
    <2>2. \A c \in 1 .. n :
            \/ calls'[c + 1].home = "shared" /\ calls'[c + 1].state = calls'[c].state
            \/ calls'[c + 1].home # "shared" /\ calls'[c + 1].state = calls'[c].state + 1
      <3> SUFFICES ASSUME NEW c \in 1 .. n
                   PROVE  \/ calls'[c + 1].home = "shared" /\ calls'[c + 1].state = calls'[c].state
                          \/ calls'[c + 1].home # "shared" /\ calls'[c + 1].state = calls'[c].state + 1
        OBVIOUS
      <3>1. CASE c = n
        BY <1>1, <1>3, <1>5, <1>7, <3>1
      <3>2. CASE c \in 1 .. n - 1
        <4>1. \/ calls[c + 1].home = "shared" /\ calls[c + 1].state = calls[c].state
              \/ calls[c + 1].home # "shared" /\ calls[c + 1].state = calls[c].state + 1
          BY <3>2 DEF IInv, Stacked, n
        <4>2. c + 1 \in 1 .. n
          BY <1>1, <3>2
        <4> QED
          BY <1>7, <4>1, <4>2
      <3> QED
        BY <1>1, <3>1, <3>2
    <2>3. \A c, e \in 1 .. n + 1 : c < e => calls'[c].state <= calls'[e].state
      <3> SUFFICES ASSUME NEW c \in 1 .. n + 1, NEW e \in 1 .. n + 1, c < e
                   PROVE  calls'[c].state <= calls'[e].state
        OBVIOUS
      <3>1. c \in 1 .. n /\ calls'[c].state = calls[c].state /\ calls[c].state \in 1 .. m
        BY <1>1, <1>7, <1>8
      <3>2. CASE e \in 1 .. n
        BY <1>7, <3>1, <3>2 DEF IInv, Stacked, n
      <3>3. CASE e = n + 1
        BY <1>1, <1>3, <1>5, <3>1, <3>3
      <3> QED
        BY <1>1, <3>2, <3>3
    <2>4. Len(calls') - 1 = n
      BY <1>1, <1>3
    <2> QED
      BY <1>3, <2>1, <2>2, <2>3, <2>4 DEF Stacked
  <1>11. Path'
    <2>1. \A c \in 1 .. n + 1 : /\ Entered(c)' => calls'[c].depth <= MaxDepth
                               /\ calls'[c].depth <= MaxDepth + 1
      <3> SUFFICES ASSUME NEW c \in 1 .. n + 1
                   PROVE  /\ Entered(c)' => calls'[c].depth <= MaxDepth
                          /\ calls'[c].depth <= MaxDepth + 1
        OBVIOUS
      <3>1. CASE c \in 1 .. n - 1
        <4>1. calls[c].depth <= MaxDepth
          BY <1>1, <3>1 DEF IInv, Path, Entered, n
        <4> QED
          BY <1>1, <1>7, <1>8, <3>1, <4>1, DepthAssumption
      <3>2. CASE c = n
        BY <1>1, <1>2, <1>7, <3>2, DepthAssumption
      <3>3. CASE c = n + 1
        <4>1. ~Entered(c)'
          BY <1>1, <1>3, <3>3 DEF Entered
        <4> QED
          BY <1>2, <1>3, <3>3, <4>1, DepthAssumption
      <3> QED
        BY <1>1, <3>1, <3>2, <3>3
    <2>2. ASSUME NEW c \in 1 .. n
          PROVE  Reaches(calls[c], states[calls[c].state].options, calls[c + 1].schema,
                         calls[c + 1].depth, states[calls[c + 1].state].options)'
      <3>1. calls'[c].state = calls[c].state /\ states'[calls[c].state].options = states[calls[c].state].options
        BY <1>4, <1>7, <1>8 DEF SameState
      <3>2. CASE c = n
        <4>1. /\ calls'[c].schema = top.schema /\ calls'[c].depth = top.depth
              /\ states'[calls'[c].state].options = here.options
          BY <1>1, <1>7, <3>1, <3>2
        <4>2. /\ calls'[c + 1].schema = s /\ calls'[c + 1].depth = d
              /\ states'[calls'[c + 1].state].options = its
          BY <1>3, <1>4, <3>2
        <4> QED
          BY <1>3, <1>6, <4>1, <4>2 DEF Reaches, Handed, IsBelow
      <3>3. CASE c \in 1 .. n - 1
        <4>1. c + 1 \in 1 .. n
          BY <1>1, <3>3
        <4>2. /\ calls'[c].schema = calls[c].schema /\ calls'[c].depth = calls[c].depth
              /\ calls'[c + 1].schema = calls[c + 1].schema /\ calls'[c + 1].depth = calls[c + 1].depth
              /\ states'[calls'[c + 1].state].options = states[calls[c + 1].state].options
          BY <1>4, <1>7, <1>8, <4>1 DEF SameState
        <4>3. Reaches(calls[c], states[calls[c].state].options, calls[c + 1].schema,
                      calls[c + 1].depth, states[calls[c + 1].state].options)
          BY <3>3 DEF IInv, Path, n
        <4> QED
          BY <1>3, <3>1, <4>2, <4>3 DEF Reaches, Handed, IsBelow
      <3> QED
        BY <1>1, <3>2, <3>3
    <2>3. Len(calls') - 1 = n
      BY <1>1, <1>3
    <2> QED
      BY <1>3, <2>1, <2>2, <2>3 DEF Path
  <1> QED
    BY <1>9, <1>10, <1>11
(* Below definitions, and outside of them, kids stay where their parents   *)
(* are.                                                                    *)
LEMMA InsideIs ==
  ASSUME TypeOK, NEW s \in DOMAIN graph.kind, graph.kind[s] = "definitions"
  PROVE  EnclosedBy(graph, s, Inside(graph, s))
  <1>1. \E inside \in SUBSET DOMAIN graph.kind : EnclosedBy(graph, s, inside)
    BY GraphIs DEF Verified, EnclosedBy
  <1> QED
    BY <1>1 DEF Inside

LEMMA OutsideIs ==
  ASSUME ~graph.static, Enclosed(graph)
  PROVE  OutsideOf(graph, Outside(graph))
  <1>1. \E outside \in SUBSET DOMAIN graph.kind : OutsideOf(graph, outside)
    BY DEF Enclosed, OutsideOf
  <1> QED
    BY <1>1 DEF Outside

LEMMA OpeningPlaced ==
  ASSUME IInv, Ready, NEW s, NEW d, NEW home, NEW its,
         MayOpen(s, d, home, its), Opening(s, d, home, its)
  PROVE  Placed'
  <1> DEFINE n == Len(calls)
  <1>1. graph' = graph
    BY DEF Opening
  <1> SUFFICES ASSUME ~graph.static, Enclosed(graph), NEW c \in 1 .. Len(calls')
               PROVE  PlacedAt(c)'
    BY <1>1 DEF Placed
  <1>2. /\ n \in Nat \ {0} /\ top = calls[n] /\ Len(calls') = n + 1
        /\ \A b \in 1 .. n : calls'[b].schema = calls[b].schema
        /\ calls'[n + 1].schema = s
    BY LengthIs DEF IInv, TypeOK, Ready, Opening, SamePlace, top, Last
  <1>3. \A b \in 1 .. n : PlacedAt(b) /\ calls[b].schema \in DOMAIN graph.kind
    BY DEF IInv, TypeOK, Placed
  <1> HIDE DEF n
  <1>4. CASE c \in 1 .. n
    <2>1. \A b \in 1 .. c - 1 : b \in 1 .. n
      BY <1>2, <1>4
    <2> QED
      BY <1>1, <1>2, <1>3, <1>4, <2>1 DEF PlacedAt, KindOf
  <1>5. CASE c = n + 1
    <2>1. \/ graph.kind[top.schema] # "definitions" /\ IsBelow(top.schema, s)
          \/ graph.kind[top.schema] = "definitions" /\ s = graph.kids[top.schema][1]
          \/ graph.kind[top.schema] = "model" /\ s = top.schema
      <3>1. /\ top.schema \in DOMAIN graph.kind
            /\ graph.kind[top.schema] = "field" => Len(graph.kids[top.schema]) = 1
        BY <1>2, <1>3, GraphIs DEF IInv, Arity
      <3>2. graph.kind[top.schema] = "field" => IsBelow(top.schema, graph.kids[top.schema][1])
        BY <3>1 DEF IsBelow
      <3> QED
        BY <3>2 DEF MayOpen, Reaches
    <2>2. CASE graph.kind[top.schema] = "definitions"
      <3>1. s \in Inside(graph, top.schema)
        BY <1>2, <1>3, <2>1, <2>2, InsideIs DEF IInv, EnclosedBy
      <3>2. n \in 1 .. c - 1 /\ calls'[n].schema = top.schema
        BY <1>2, <1>5
      <3> QED
        BY <1>1, <1>2, <1>5, <2>2, <3>1, <3>2 DEF PlacedAt, KindOf
    <2>3. CASE graph.kind[top.schema] # "definitions"
      <3>1. CASE \E b \in 1 .. n - 1 : /\ KindOf(b) = "definitions"
                                      /\ top.schema \in Inside(graph, calls[b].schema)
        <4>1. PICK b \in 1 .. n - 1 : /\ KindOf(b) = "definitions"
                                      /\ top.schema \in Inside(graph, calls[b].schema)
          BY <3>1
        <4>2. b \in 1 .. n /\ b \in 1 .. c - 1
          BY <1>2, <1>5
        <4>3. s \in Inside(graph, calls[b].schema)
          BY <1>3, <2>1, <2>3, <4>1, <4>2, InsideIs DEF IInv, EnclosedBy, IsBelow, KindOf
        <4> QED
          BY <1>1, <1>2, <1>5, <4>1, <4>2, <4>3 DEF PlacedAt, KindOf
      <3>2. CASE top.schema \in Outside(graph) /\ \A b \in 1 .. n - 1 : KindOf(b) # "definitions"
        <4>1. s \in Outside(graph)
          BY <2>1, <2>3, <3>2, OutsideIs DEF OutsideOf, IsBelow
        <4>2. \A b \in 1 .. n : graph.kind[calls[b].schema] # "definitions"
          BY <1>2, <2>3, <3>2 DEF KindOf
        <4>3. \A b \in 1 .. c - 1 : b \in 1 .. n
          BY <1>2, <1>5
        <4> QED
          BY <1>1, <1>2, <1>5, <4>1, <4>2, <4>3 DEF PlacedAt, KindOf
      <3>3. n \in 1 .. n
        BY <1>2
      <3> QED
        BY <1>2, <1>3, <3>1, <3>2, <3>3 DEF PlacedAt
    <2> QED
      BY <2>2, <2>3
  <1> QED
    BY <1>2, <1>4, <1>5

LEMMA OpeningOptions ==
  ASSUME IInv, Ready, NEW s, NEW d, NEW home, NEW its,
         MayOpen(s, d, home, its), Opening(s, d, home, its)
  PROVE  Fitting' /\ OptionsKept' /\ SchemaHolds'
  <1> DEFINE n == Len(calls)
             m == Len(states)
             k == IF home = "shared" THEN m ELSE m + 1
  <1>1. /\ n \in Nat \ {0} /\ m \in Nat \ {0} /\ top = calls[n] /\ here = states[m]
        /\ calls[n].state = m
    BY LengthIs DEF IInv, TypeOK, Stacked, Ready, top, here, Last
  <1>2. /\ graph' = graph /\ options' = options /\ ret' = Pending
        /\ Len(calls') = n + 1 /\ calls'[n + 1].state = k /\ Len(states') = k
        /\ states'[k].options = its /\ states'[k].profile = states'[k].input.profile
    BY DEF Opening
  <1>3. \A c \in 1 .. n : /\ calls'[c].schema = calls[c].schema /\ calls'[c].input = calls[c].input
                          /\ calls'[c].state = calls[c].state
    BY DEF Opening, SamePlace
  <1>4. \A j \in 1 .. m : /\ states'[j].input = states[j].input
                          /\ states'[j].options = states[j].options
                          /\ states'[j].profile = states[j].profile
    BY DEF Opening, SameState
  <1>5. /\ k \in Nat /\ m <= k /\ (home = "shared" => k = m) /\ (home # "shared" => k = m + 1)
    BY <1>1
  <1>6. \A c \in 1 .. n : calls[c].state \in 1 .. m
    BY DEF IInv, TypeOK
  <1> HIDE DEF n, m, k
  <1>7. Fitting'
    <2> SUFFICES ASSUME NEW c \in 1 .. n + 1, Entered(c)',
                        graph.kind[calls'[c].schema] = "model",
                        ~(/\ states'[calls'[c].state].options.override = "none"
                          /\ ~states'[calls'[c].state].options.strict
                          /\ graph.flag[calls'[c].schema])
                 PROVE  Len(graph.kids[calls'[c].schema])
                          = Len(states'[calls'[c].state].input.nodes[calls'[c].input].kids)
      BY <1>2 DEF Fitting, KindOf
    <2>1. c \in 1 .. n
      BY <1>1, <1>2 DEF Entered
    <2>2. /\ calls'[c].schema = calls[c].schema /\ calls'[c].input = calls[c].input
          /\ states'[calls'[c].state].options = states[calls[c].state].options
          /\ states'[calls'[c].state].input = states[calls[c].state].input
      BY <1>3, <1>4, <1>6, <2>1
    <2>3. CASE c = n
      BY <1>1, <2>2, <2>3 DEF Ready, kind, kids, node, NeedsStrict
    <2>4. CASE c \in 1 .. n - 1
      <3>1. Entered(c)
        BY <1>1, <2>4 DEF Entered, n
      <3> QED
        BY <2>1, <2>2, <3>1 DEF IInv, Fitting, KindOf, n
    <2> QED
      BY <1>1, <2>1, <2>3, <2>4
  <1>8. OptionsKept'
    <2>1. states'[1].options = options
      <3>1. 1 \in 1 .. m /\ states[1].options = options
        BY <1>1 DEF IInv, OptionsKept, Ready
      <3> QED
        BY <1>4, <3>1
    <2>2. ASSUME NEW j \in 1 .. k
          PROVE  states'[j].options \in AllOptions /\ states'[j].profile = states'[j].input.profile
      <3>1. CASE j \in 1 .. m
        BY <1>4, <3>1 DEF IInv, OptionsKept, m
      <3>2. CASE j = k
        BY <1>2, <3>2 DEF MayOpen, Reaches, Handed
      <3> QED
        BY <1>1, <1>5, <3>1, <3>2
    <2> QED
      BY <1>2, <2>1, <2>2 DEF OptionsKept
  <1>9. SchemaHolds'
    <2>1. Sound(ret)'
      BY <1>2 DEF Sound, Pending
    <2>2. ASSUME Enclosed(graph), NEW c \in 1 .. n + 1 PROVE calls'[c].failure # "schema_invalid"
      <3>1. CASE c \in 1 .. n
        BY <2>2, <3>1 DEF Opening, n
      <3>2. CASE c = n + 1
        BY <3>2 DEF Opening, n
      <3> QED
        BY <1>1, <3>1, <3>2
    <2> QED
      BY <1>2, <2>1, <2>2 DEF SchemaHolds
  <1> QED
    BY <1>7, <1>8, <1>9
-----------------------------------------------------------------------------
(* The two parts of BracketsMatch. *)
Following(j) == {c \in OpenAround(j, "reference") : OnInputOf(c, j)}

ScopesMatch(j) ==
  LET open == OpenAround(j, "definitions")
  IN  Lists(states[j].scopes, open, [c \in open |-> calls[c].schema])

ActiveMatch(j) ==
  Lists(states[j].active, Following(j), [c \in Following(j) |-> Followed(c)])

LEMMA BracketsAre ==
  BracketsMatch <=> \A j \in 1 .. Len(states) : ScopesMatch(j) /\ ActiveMatch(j)
  BY DEF BracketsMatch, ScopesMatch, ActiveMatch, Following

LEMMA ListsSame ==
  ASSUME NEW s, NEW open, NEW entry, NEW next, Lists(s, open, entry),
         \A c \in open : next[c] = entry[c]
  PROVE  Lists(s, open, next)
  BY DEF Lists

(* The calls open around a state once a call has been opened: as before,   *)
(* and the one that opened it.                                             *)
SetsAfterOpening(home, kd, n, m) ==
  /\ \A j \in 1 .. m - 1 : OpenAround(j, kd)' = OpenAround(j, kd)
  /\ kind = kd => OpenAround(m, kd)' = OpenAround(m, kd) \cup {n}
  /\ kind # kd => OpenAround(m, kd)' = OpenAround(m, kd)
  /\ home # "shared" => OpenAround(m + 1, kd)' = OpenAround(m, kd)'
  /\ \A j \in 1 .. m : \A c \in 1 .. n : OnInputOf(c, j)' <=> OnInputOf(c, j)
  /\ home # "shared" =>
       \A c \in 1 .. n : OnInputOf(c, m + 1)' <=> (home = "branch" /\ OnInputOf(c, m))

LEMMA OpeningSets ==
  ASSUME IInv, Ready, NEW s, NEW d, NEW home, home \in Homes, NEW its,
         Opening(s, d, home, its), NEW kd,
         NEW n \in Nat, n = Len(calls), NEW m \in Nat, m = Len(states)
  PROVE  SetsAfterOpening(home, kd, n, m)
  <1> DEFINE k == IF home = "shared" THEN m ELSE m + 1
  <1>1. /\ n \in Nat \ {0} /\ m \in Nat \ {0} /\ top = calls[n] /\ calls[n].state = m
    BY LengthIs DEF IInv, TypeOK, Stacked, Ready, top, Last
  <1>2. /\ graph' = graph /\ ret' = Pending
        /\ Len(calls') = n + 1 /\ calls'[n + 1].state = k /\ calls'[n + 1].home = home
    BY DEF Opening
  <1>3. \A c \in 1 .. n : /\ calls'[c].schema = calls[c].schema
                          /\ calls'[c].state = calls[c].state /\ calls'[c].home = calls[c].home
    BY DEF Opening, SamePlace
  <1>4. \A c \in 1 .. n : calls[c].state \in 1 .. m
    BY DEF IInv, TypeOK
  <1>5. /\ k \in Nat /\ m <= k /\ (home = "shared" => k = m) /\ (home # "shared" => k = m + 1)
    BY <1>1
  <1>6. \A c : Entered(c) <=> c < n \/ ret # Pending
    BY DEF Entered
  <1>7. \A c \in Int : Entered(c)' <=> c < n + 1
    BY <1>2 DEF Entered
  <1> HIDE DEF k
  <1>8. \A j : OpenAround(j, kd) =
          {c \in 1 .. n : calls[c].state <= j /\ Entered(c) /\ graph.kind[calls[c].schema] = kd}
    BY DEF OpenAround
  <1>9. \A j : OpenAround(j, kd)' =
          {c \in 1 .. n + 1 : calls'[c].state <= j /\ Entered(c)' /\ graph.kind[calls'[c].schema] = kd}
    BY <1>2 DEF OpenAround
  <1>10. \A j : OpenAround(j, kd)' =
           {c \in 1 .. n : calls[c].state <= j /\ graph.kind[calls[c].schema] = kd}
    <2>1. \A c \in 1 .. n + 1 : c \in 1 .. n <=> Entered(c)'
      BY <1>1, <1>7
    <2>2. \A c \in 1 .. n : c \in 1 .. n + 1
      BY <1>1
    <2> QED
      BY <1>3, <1>9, <2>1, <2>2
  <1>11. ASSUME NEW j \in 1 .. m - 1 PROVE OpenAround(j, kd)' = OpenAround(j, kd)
    <2>1. \A c \in 1 .. n : calls[c].state <= j => Entered(c)
      BY <1>1, <1>6, <1>11
    <2> QED
      BY <1>8, <1>10, <2>1
  <1>12. kind = graph.kind[calls[n].schema] /\ n \in 1 .. n /\ calls[n].state <= m
    BY <1>1 DEF kind
  <1>13. \A c \in 1 .. n : c # n => Entered(c)
    BY <1>1, <1>6
  <1> DEFINE before == {c \in 1 .. n : /\ calls[c].state <= m /\ Entered(c)
                                       /\ graph.kind[calls[c].schema] = kd}
             after == {c \in 1 .. n : calls[c].state <= m /\ graph.kind[calls[c].schema] = kd}
  <1>14. OpenAround(m, kd) = before /\ OpenAround(m, kd)' = after
    BY <1>8, <1>10
  <1>15. \A c \in after : c # n => c \in before
    BY <1>13
  <1>16. before \subseteq after /\ (n \in after <=> kind = kd)
    BY <1>12
  <1> HIDE DEF before, after
  <1>17. ASSUME kind = kd PROVE OpenAround(m, kd)' = OpenAround(m, kd) \cup {n}
    BY <1>14, <1>15, <1>16, <1>17
  <1>18. ASSUME kind # kd PROVE OpenAround(m, kd)' = OpenAround(m, kd)
    BY <1>14, <1>15, <1>16, <1>18
  <1>19. OpenAround(m + 1, kd)' = OpenAround(m, kd)'
    <2>1. \A c \in 1 .. n : calls[c].state <= m + 1 /\ calls[c].state <= m
      BY <1>1, <1>4
    <2> QED
      BY <1>10, <2>1
  <1>20. \A c, j : OnInputOf(c, j) <=>
           \A e \in c + 1 .. n : calls[e].state <= j => calls[e].home # "input"
    BY DEF OnInputOf
  <1>21. \A c, j : OnInputOf(c, j)' <=>
           \A e \in c + 1 .. n + 1 : calls'[e].state <= j => calls'[e].home # "input"
    BY <1>2 DEF OnInputOf
  <1>22. ASSUME NEW j \in Nat, NEW c \in 1 .. n
         PROVE  OnInputOf(c, j)' <=> OnInputOf(c, j) /\ (k <= j => home # "input")
    <2>1. \A e \in c + 1 .. n + 1 : e \in c + 1 .. n \/ e = n + 1
      BY <1>1
    <2>2. n + 1 \in c + 1 .. n + 1 /\ \A e \in c + 1 .. n : e \in 1 .. n /\ e \in c + 1 .. n + 1
      BY <1>1
    <2> QED
      BY <1>2, <1>3, <1>20, <1>21, <2>1, <2>2
  <1>23. ASSUME NEW j \in 1 .. m, NEW c \in 1 .. n
         PROVE  OnInputOf(c, j)' <=> OnInputOf(c, j)
    <2>1. k <= j => home # "input"
      BY <1>1, <1>5
    <2> QED
      BY <1>1, <1>22, <2>1
  <1>24. ASSUME home # "shared", NEW c \in 1 .. n
         PROVE  OnInputOf(c, m + 1)' <=> (home = "branch" /\ OnInputOf(c, m))
    <2>1. OnInputOf(c, m + 1) <=> OnInputOf(c, m)
      <3>1. \A e \in c + 1 .. n : calls[e].state <= m + 1 /\ calls[e].state <= m
        BY <1>1, <1>4
      <3> QED
        BY <1>20, <3>1
    <2>2. OnInputOf(c, m + 1)' <=> OnInputOf(c, m + 1) /\ home # "input"
      BY <1>1, <1>5, <1>22, <1>24
    <2> QED
      BY <1>24, <2>1, <2>2 DEF Homes
  <1> QED
    BY <1>11, <1>17, <1>18, <1>19, <1>23, <1>24 DEF SetsAfterOpening

(* Marks that match stay so while the calls and the lists stay.            *)
LEMMA ScopesStay ==
  ASSUME NEW i, NEW j, ScopesMatch(i), states'[j].scopes = states[i].scopes,
         OpenAround(j, "definitions")' = OpenAround(i, "definitions"),
         \A c \in OpenAround(i, "definitions") : calls'[c].schema = calls[c].schema
  PROVE  ScopesMatch(j)'
  <1> DEFINE open == OpenAround(i, "definitions")
             entry == [c \in open |-> calls[c].schema]
             next == [c \in open |-> calls'[c].schema]
  <1>1. Lists(states[i].scopes, open, entry)
    BY DEF ScopesMatch
  <1>2. \A c \in open : next[c] = entry[c]
    OBVIOUS
  <1> HIDE DEF open, entry, next
  <1>3. Lists(states[i].scopes, open, next)
    BY <1>1, <1>2, ListsSame
  <1> QED
    BY <1>3 DEF ScopesMatch, open, next

LEMMA ActiveStays ==
  ASSUME NEW i, NEW j, ActiveMatch(i), states'[j].active = states[i].active,
         Following(j)' = Following(i), \A c \in Following(i) : Followed(c)' = Followed(c)
  PROVE  ActiveMatch(j)'
  <1> DEFINE open == Following(i)
             entry == [c \in open |-> Followed(c)]
             next == [c \in open |-> Followed(c)']
  <1>1. Lists(states[i].active, open, entry)
    BY DEF ActiveMatch
  <1>2. \A c \in open : next[c] = entry[c]
    OBVIOUS
  <1> HIDE DEF open, entry, next
  <1>3. Lists(states[i].active, open, next)
    BY <1>1, <1>2, ListsSame
  <1> QED
    BY <1>3 DEF ActiveMatch, open, next

(* The marks after an opening by a call that leaves none of its own.       *)
LEMMA OpeningMarks ==
  ASSUME IInv, Ready, NEW s, NEW d, NEW home, NEW its,
         MayOpen(s, d, home, its), Opening(s, d, home, its),
         kind \notin {"definitions", "reference"},
         home = "shared" => SameMarks(states'[Len(states)], states[Len(states)])
  PROVE  BracketsMatch'
  <1>0. Len(calls) \in Nat \ {0} /\ Len(states) \in Nat \ {0}
    BY LengthIs DEF IInv, TypeOK, Stacked, Ready
  <1> PICK n \in Nat : n = Len(calls)
    BY <1>0
  <1> PICK m \in Nat : m = Len(states)
    BY <1>0
  <1>1. /\ graph' = graph /\ Len(states') = IF home = "shared" THEN m ELSE m + 1
        /\ \A c \in 1 .. n : calls'[c].schema = calls[c].schema /\ calls'[c].input = calls[c].input
    BY DEF Opening, SamePlace
  <1>2. /\ \A j \in 1 .. m : SameMarks(states'[j], states[j])
        /\ home # "shared" => states'[m + 1].scopes = states[m].scopes
        /\ home = "branch" => states'[m + 1].active = states[m].active
        /\ home = "input" => states'[m + 1].active = << >>
    <2>1. \A j \in 1 .. m - 1 : SameMarks(states'[j], states[j])
      BY DEF Opening
    <2>2. SameMarks(states'[m], states[m])
      BY DEF Opening
    <2>3. \A j \in 1 .. m : j \in 1 .. m - 1 \/ j = m
      OBVIOUS
    <2> QED
      BY <2>1, <2>2, <2>3 DEF Opening
  <1>3. home \in Homes
    BY DEF MayOpen
  <1>4. ASSUME NEW kd \in {"definitions", "reference"}
        PROVE  /\ \A j \in 1 .. m : OpenAround(j, kd)' = OpenAround(j, kd)
               /\ home # "shared" => OpenAround(m + 1, kd)' = OpenAround(m, kd)
               /\ \A j : OpenAround(j, kd) \subseteq 1 .. n
    <2>1. kind # kd
      OBVIOUS
    <2>5. SetsAfterOpening(home, kd, n, m)
      BY <1>3, OpeningSets
    <2>2. /\ \A j \in 1 .. m - 1 : OpenAround(j, kd)' = OpenAround(j, kd)
          /\ OpenAround(m, kd)' = OpenAround(m, kd)
          /\ home # "shared" => OpenAround(m + 1, kd)' = OpenAround(m, kd)'
      BY <2>1, <2>5 DEF SetsAfterOpening
    <2>3. \A j \in 1 .. m : j \in 1 .. m - 1 \/ j = m
      OBVIOUS
    <2>4. \A j : OpenAround(j, kd) \subseteq 1 .. n
      BY DEF OpenAround
    <2> QED
      BY <2>2, <2>3, <2>4
  <1>5. /\ \A j \in 1 .. m : \A c \in 1 .. n : OnInputOf(c, j)' <=> OnInputOf(c, j)
        /\ home # "shared" =>
             \A c \in 1 .. n : OnInputOf(c, m + 1)' <=> (home = "branch" /\ OnInputOf(c, m))
    <2>1. SetsAfterOpening(home, "reference", n, m)
      BY <1>3, OpeningSets
    <2> QED
      BY <2>1 DEF SetsAfterOpening
  <1>6. \A c \in 1 .. n : Followed(c)' = Followed(c)
    BY <1>1 DEF Followed
  <1>7. ASSUME NEW j \in 1 .. m PROVE ScopesMatch(j)' /\ ActiveMatch(j)'
    <2>1. ScopesMatch(j) /\ ActiveMatch(j) /\ SameMarks(states'[j], states[j])
      BY <1>2, BracketsAre DEF IInv
    <2>2. ScopesMatch(j)'
      BY <1>1, <1>4, <2>1, ScopesStay DEF SameMarks
    <2>3. Following(j)' = Following(j) /\ Following(j) \subseteq 1 .. n
      BY <1>4, <1>5 DEF Following
    <2>4. ActiveMatch(j)'
      BY <1>6, <2>1, <2>3, ActiveStays DEF SameMarks
    <2> QED
      BY <2>2, <2>4
  <1>8. ASSUME home # "shared", NEW j, j = m + 1 PROVE ScopesMatch(j)' /\ ActiveMatch(j)'
    <2>1. ScopesMatch(m) /\ ActiveMatch(m)
      BY <1>0, BracketsAre DEF IInv
    <2>2. ScopesMatch(j)'
      BY <1>1, <1>2, <1>4, <1>8, <2>1, ScopesStay
    <2>3. CASE home = "branch"
      <3>1. Following(j)' = Following(m) /\ Following(m) \subseteq 1 .. n
        BY <1>4, <1>5, <1>8, <2>3 DEF Following
      <3> QED
        BY <1>2, <1>6, <1>8, <2>1, <2>2, <2>3, <3>1, ActiveStays
    <2>4. CASE home = "input"
      <3>1. Following(j)' = {}
        BY <1>4, <1>5, <1>8, <2>4 DEF Following
      <3>2. states'[j].active = << >>
        BY <1>2, <1>8, <2>4
      <3> QED
        BY <2>2, <3>1, <3>2, ListsNothing DEF ActiveMatch
    <2> QED
      BY <1>3, <1>8, <2>2, <2>3, <2>4 DEF Homes
  <1>9. \A j \in 1 .. Len(states') : ScopesMatch(j)' /\ ActiveMatch(j)'
    <2>1. CASE home = "shared"
      BY <1>1, <1>7, <2>1
    <2>2. CASE home # "shared"
      <3>1. Len(states') = m + 1
        BY <1>1, <2>2
      <3>2. \A j \in 1 .. m + 1 : j \in 1 .. m \/ j = m + 1
        OBVIOUS
      <3> QED
        BY <1>7, <1>8, <2>2, <3>1, <3>2
    <2> QED
      BY <2>1, <2>2
  <1>10. BracketsMatch' <=> \A j \in 1 .. Len(states') : ScopesMatch(j)' /\ ActiveMatch(j)'
    BY DEF BracketsMatch, ScopesMatch, ActiveMatch, Following
  <1> QED
    BY <1>9, <1>10
(* A reference that is followed is a new one on its input.                 *)
FollowsAnew ==
  kind = "reference" =>
    \A c \in 1 .. Len(calls) - 1 :
      (KindOf(c) = "reference" /\ \A e \in c + 1 .. Len(calls) : calls[e].home # "input") =>
        Followed(c) # Followed(Len(calls))

LEMMA OpeningProgress ==
  ASSUME IInv, Ready, NEW s, NEW d, NEW home, NEW its,
         Opening(s, d, home, its), FollowsAnew
  PROVE  Progressing'
  <1>0. Len(calls) \in Nat \ {0}
    BY LengthIs DEF IInv, TypeOK, Ready
  <1> PICK n \in Nat : n = Len(calls)
    BY <1>0
  <1>1. /\ graph' = graph /\ Len(calls') = n + 1 /\ ret' = Pending
        /\ \A c \in 1 .. n : /\ calls'[c].schema = calls[c].schema
                             /\ calls'[c].input = calls[c].input
                             /\ calls'[c].home = calls[c].home
    BY DEF Opening, SamePlace
  <1> SUFFICES ASSUME NEW c \in 1 .. n + 1, NEW e \in 1 .. n + 1, c < e, Entered(e)',
                      KindOf(c)' = "reference", KindOf(e)' = "reference",
                      \A b \in c + 1 .. e : calls'[b].home # "input"
               PROVE  Followed(c)' # Followed(e)'
    BY <1>1 DEF Progressing
  <1>2. c \in 1 .. n /\ e \in 1 .. n
    BY <1>1 DEF Entered
  <1>3. /\ Followed(c)' = Followed(c) /\ Followed(e)' = Followed(e)
        /\ KindOf(c) = "reference" /\ KindOf(e) = "reference"
        /\ \A b \in c + 1 .. e : calls[b].home # "input"
    <2>1. \A b \in c + 1 .. e : b \in 1 .. n
      BY <1>2
    <2> QED
      BY <1>1, <1>2, <2>1 DEF Followed, KindOf
  <1>4. CASE e \in 1 .. n - 1
    <2>1. Entered(e)
      BY <1>4 DEF Entered
    <2> QED
      BY <1>2, <1>3, <2>1 DEF IInv, Progressing
  <1>5. CASE e = n
    <2>1. kind = "reference"
      BY <1>3, <1>5 DEF kind, top, Last, KindOf
    <2>2. c \in 1 .. n - 1
      BY <1>2, <1>5
    <2> QED
      BY <1>3, <1>5, <2>1, <2>2 DEF FollowsAnew
  <1> QED
    BY <1>2, <1>4, <1>5

(* A call that leaves no marks opens another one. *)
LEMMA OpeningKeeps ==
  ASSUME IInv, Ready, NEW s, NEW d, NEW home, NEW its,
         MayOpen(s, d, home, its), Opening(s, d, home, its),
         kind \notin {"definitions", "reference"},
         home = "shared" => SameMarks(states'[Len(states)], states[Len(states)])
  PROVE  IInv'
  <1>1. FollowsAnew
    BY DEF FollowsAnew
  <1> QED
    BY <1>1, OpeningTypes, OpeningPlaced, OpeningOptions, OpeningMarks, OpeningProgress DEF IInv

(* A definitions call, and a reference call, leave a mark in their state.  *)
LEMMA OpeningMarked ==
  ASSUME IInv, Ready, NEW s, NEW d, NEW its,
         MayOpen(s, d, "shared", its), Opening(s, d, "shared", its),
         ret = Pending, kind \in {"definitions", "reference"}, FollowsAnew,
         states'[Len(states)].scopes =
           IF kind = "definitions" THEN Append(here.scopes, top.schema) ELSE here.scopes,
         states'[Len(states)].active =
           IF kind = "reference" THEN Append(here.active, Followed(Len(calls))) ELSE here.active
  PROVE  IInv'
  <1>0. /\ Len(calls) \in Nat \ {0} /\ Len(states) \in Nat \ {0}
        /\ top = calls[Len(calls)] /\ here = states[Len(states)]
        /\ calls[Len(calls)].state = Len(states)
    BY LengthIs DEF IInv, TypeOK, Stacked, Ready, top, here, Last
  <1> PICK n \in Nat : n = Len(calls)
    BY <1>0
  <1> PICK m \in Nat : m = Len(states)
    BY <1>0
  <1>1. /\ graph' = graph /\ Len(states') = m
        /\ \A c \in 1 .. n : calls'[c].schema = calls[c].schema /\ calls'[c].input = calls[c].input
        /\ \A j \in 1 .. m - 1 : SameMarks(states'[j], states[j])
    BY DEF Opening, SamePlace
  <1>2. \A c \in 1 .. n : Followed(c)' = Followed(c)
    BY <1>1 DEF Followed
  <1>3. ASSUME NEW kd \in {"definitions", "reference"}
        PROVE  /\ \A j \in 1 .. m - 1 : OpenAround(j, kd)' = OpenAround(j, kd)
               /\ kind = kd => OpenAround(m, kd)' = OpenAround(m, kd) \cup {n}
               /\ kind # kd => OpenAround(m, kd)' = OpenAround(m, kd)
               /\ \A j : OpenAround(j, kd) \in SUBSET (1 .. n - 1)
    <2>1. SetsAfterOpening("shared", kd, n, m)
      BY OpeningSets DEF Homes
    <2>2. \A c \in 1 .. n : Entered(c) => c \in 1 .. n - 1
      BY DEF Entered
    <2>3. \A j : OpenAround(j, kd) \in SUBSET (1 .. n - 1)
      BY <2>2 DEF OpenAround
    <2> QED
      BY <2>1, <2>3 DEF SetsAfterOpening
  <1>4. \A j \in 1 .. m : \A c \in 1 .. n : OnInputOf(c, j)' <=> OnInputOf(c, j)
    <2>1. SetsAfterOpening("shared", "reference", n, m)
      BY OpeningSets DEF Homes
    <2> QED
      BY <2>1 DEF SetsAfterOpening
  <1>5. m \in 1 .. m /\ n \in 1 .. n
    BY <1>0
  <1>6. ASSUME NEW j \in 1 .. m - 1 PROVE ScopesMatch(j)' /\ ActiveMatch(j)'
    <2>1. ScopesMatch(j) /\ ActiveMatch(j) /\ SameMarks(states'[j], states[j])
      BY <1>1, BracketsAre DEF IInv
    <2>2. ScopesMatch(j)'
      BY <1>1, <1>3, <2>1, ScopesStay DEF SameMarks
    <2>3. Following(j)' = Following(j) /\ Following(j) \subseteq 1 .. n
      BY <1>3, <1>4 DEF Following
    <2>4. ActiveMatch(j)'
      BY <1>2, <2>1, <2>3, ActiveStays DEF SameMarks
    <2> QED
      BY <2>2, <2>4
  <1>7. ScopesMatch(m) /\ ActiveMatch(m) /\ IsSequence(here.scopes) /\ IsSequence(here.active)
    BY <1>0, <1>5, BracketsAre DEF IInv, TypeOK
  <1>8. ASSUME NEW j, j = m PROVE ScopesMatch(j)'
    <2>1. CASE kind = "reference"
      BY <1>0, <1>1, <1>3, <1>7, <1>8, <2>1, ScopesStay
    <2>2. CASE kind = "definitions"
      <3> DEFINE open == OpenAround(m, "definitions")
                 entry == [c \in open |-> calls[c].schema]
                 next == [c \in open \cup {n} |-> calls'[c].schema]
      <3>1. Lists(here.scopes, open, entry)
        BY <1>0, <1>7 DEF ScopesMatch
      <3>2. open \in SUBSET (1 .. n - 1) /\ OpenAround(j, "definitions")' = open \cup {n}
        BY <1>3, <1>8, <2>2
      <3>3. /\ next[n] = top.schema
            /\ \A c \in open : next[c] = entry[c]
        BY <1>0, <1>1, <1>5, <3>2
      <3>4. states'[j].scopes = Append(here.scopes, next[n])
        BY <1>8, <2>2, <3>3
      <3> HIDE DEF open, entry, next
      <3>5. open \in SUBSET Int /\ n \in Int /\ n \notin open /\ \A c \in open : c < n
        BY <3>2
      <3>6. Lists(Append(here.scopes, next[n]), open \cup {n}, next)
        BY <1>7, <3>1, <3>3, <3>5, ListsOne
      <3> QED
        BY <3>2, <3>4, <3>6 DEF ScopesMatch, next
    <2> QED
      BY <2>1, <2>2
  <1>9. ASSUME NEW j, j = m PROVE ActiveMatch(j)'
    <2>1. CASE kind = "definitions"
      <3>1. Following(j)' = Following(m) /\ Following(m) \subseteq 1 .. n
        BY <1>3, <1>4, <1>5, <1>9, <2>1 DEF Following
      <3> QED
        BY <1>0, <1>2, <1>7, <1>9, <2>1, <3>1, ActiveStays
    <2>2. CASE kind = "reference"
      <3> DEFINE open == Following(m)
                 entry == [c \in open |-> Followed(c)]
                 next == [c \in open \cup {n} |-> Followed(c)']
      <3>1. Lists(here.active, open, entry)
        BY <1>0, <1>7 DEF ActiveMatch
      <3>2. OnInputOf(n, m)
        BY <1>0 DEF OnInputOf
      <3>3. open \in SUBSET (1 .. n - 1) /\ Following(j)' = open \cup {n}
        <4>1. /\ OpenAround(j, "reference")' = OpenAround(m, "reference") \cup {n}
              /\ OpenAround(m, "reference") \in SUBSET (1 .. n - 1)
          BY <1>3, <1>9, <2>2
        <4>2. \A c \in 1 .. n : OnInputOf(c, j)' <=> OnInputOf(c, m)
          BY <1>4, <1>5, <1>9
        <4> QED
          BY <1>5, <3>2, <4>1, <4>2 DEF Following
      <3>4. /\ next[n] = Followed(n)
            /\ \A c \in open : next[c] = entry[c]
        BY <1>2, <1>5, <3>3
      <3>5. states'[j].active = Append(here.active, next[n])
        BY <1>9, <2>2, <3>4
      <3> HIDE DEF open, entry, next
      <3>6. open \in SUBSET Int /\ n \in Int /\ n \notin open /\ \A c \in open : c < n
        BY <3>3
      <3>7. Lists(Append(here.active, next[n]), open \cup {n}, next)
        BY <1>7, <3>1, <3>4, <3>6, ListsOne
      <3> QED
        BY <3>3, <3>5, <3>7 DEF ActiveMatch, next
    <2> QED
      BY <2>1, <2>2
  <1>10. BracketsMatch'
    <2>1. \A j \in 1 .. m : j \in 1 .. m - 1 \/ j = m
      OBVIOUS
    <2>2. \A j \in 1 .. Len(states') : ScopesMatch(j)' /\ ActiveMatch(j)'
      BY <1>1, <1>6, <1>8, <1>9, <2>1
    <2> QED
      BY Zenon, <2>2 DEF BracketsMatch, ScopesMatch, ActiveMatch, Following
  <1> QED
    BY <1>10, OpeningTypes, OpeningPlaced, OpeningOptions, OpeningProgress DEF IInv
-----------------------------------------------------------------------------
(* The stacks after a call has returned: a call that is left on the stack  *)
(* had been entered before, and works in a state that is still there.      *)
LEMMA ClosingStacks ==
  ASSUME IInv, calls # << >>, Closing, NEW n \in Nat, n = Len(calls), NEW m \in Nat, m = Len(states)
  PROVE  /\ graph' = graph /\ options' = options /\ ret' # Pending
         /\ n \in 1 .. n /\ m \in 1 .. m /\ Len(calls') = n - 1 /\ top = calls[n] /\ here = states[m]
         /\ calls[n].state = m
         /\ Len(states') = (IF calls[n].home = "shared" THEN m ELSE m - 1)
         /\ \A c \in 1 .. n - 1 :
              /\ calls'[c] = calls[c] /\ Entered(c)
              /\ calls[c].state \in 1 .. Len(states')
              /\ SameState(states'[calls[c].state], states[calls[c].state])
         /\ n > 1 => calls[n - 1].state = Len(states')
         /\ n = 1 => states' = << >> /\ calls' = << >>
         /\ \A j \in 1 .. Len(states') : j \in 1 .. m /\ SameState(states'[j], states[j])
         /\ \A j \in 1 .. m - 1 : states'[j] = states[j]
  <1>1. /\ n \in Nat \ {0} /\ top = calls[n] /\ here = states[m] /\ calls[n].state = m
        /\ m \in Nat \ {0}
    BY LengthIs DEF IInv, TypeOK, Stacked, top, here, Last
  <1>2. /\ graph' = graph /\ options' = options /\ ret' # Pending /\ Len(calls') = n - 1
        /\ \A c \in 1 .. n - 1 : calls'[c] = calls[c]
        /\ Len(states') = (IF calls[n].home = "shared" THEN m ELSE m - 1)
        /\ \A j \in 1 .. m - 1 : states'[j] = states[j]
        /\ calls[n].home = "shared" => SameState(states'[m], states[m])
        /\ IsSequence(calls') /\ IsSequence(states')
    BY DEF Closing
  <1>3. \A j \in 1 .. Len(states') : j \in 1 .. m /\ SameState(states'[j], states[j])
    <2> SUFFICES ASSUME NEW j \in 1 .. Len(states')
                 PROVE  j \in 1 .. m /\ SameState(states'[j], states[j])
      OBVIOUS
    <2>1. CASE j \in 1 .. m - 1
      BY <1>1, <1>2, <2>1 DEF SameState
    <2>2. CASE j \notin 1 .. m - 1
      BY <1>1, <1>2, <2>2
    <2> QED
      BY <2>1, <2>2
  <1>4. n > 1 => calls[n - 1].state = Len(states')
    <2> SUFFICES ASSUME n > 1 PROVE calls[n - 1].state = Len(states')
      OBVIOUS
    <2>1. n - 1 \in 1 .. Len(calls) - 1 /\ n - 1 + 1 = n
      BY <1>1
    <2>2. n - 1 \in 1 .. Len(calls)
      BY <2>1
    <2>3. calls[n - 1].state \in 1 .. m
      BY <2>2 DEF IInv, TypeOK
    <2>4. \/ calls[n].home = "shared" /\ calls[n].state = calls[n - 1].state
          \/ calls[n].home # "shared" /\ calls[n].state = calls[n - 1].state + 1
      <3>1. \/ calls[n - 1 + 1].home = "shared" /\ calls[n - 1 + 1].state = calls[n - 1].state
            \/ calls[n - 1 + 1].home # "shared" /\ calls[n - 1 + 1].state = calls[n - 1].state + 1
        BY <2>1 DEF IInv, Stacked
      <3> QED
        BY <2>1, <3>1
    <2>5. CASE calls[n].home = "shared"
      BY <1>1, <1>2, <2>4, <2>5
    <2>6. CASE calls[n].home # "shared"
      BY <1>1, <1>2, <2>3, <2>4, <2>6
    <2> QED
      BY <2>5, <2>6
  <1>5. ASSUME NEW c \in 1 .. n - 1
        PROVE  /\ Entered(c) /\ calls[c].state \in 1 .. Len(states')
               /\ SameState(states'[calls[c].state], states[calls[c].state])
    <2>1. c \in 1 .. Len(calls) /\ n - 1 \in 1 .. Len(calls) /\ c < n
      BY <1>1, <1>5
    <2>2. calls[c].state \in 1 .. m /\ calls[n - 1].state = Len(states')
      BY <1>4, <1>5, <2>1 DEF IInv, TypeOK
    <2>3. calls[c].state <= calls[n - 1].state
      <3>1. CASE c < n - 1
        BY <2>1, <3>1 DEF IInv, Stacked
      <3>2. CASE c = n - 1
        BY <2>2, <3>2
      <3> QED
        BY <1>5, <3>1, <3>2
    <2>4. calls[c].state \in 1 .. Len(states')
      BY <1>1, <1>2, <2>2, <2>3
    <2> QED
      BY <1>3, <2>1, <2>4 DEF Entered
  <1>6. n = 1 => states' = << >> /\ calls' = << >>
    <2> SUFFICES ASSUME n = 1 PROVE states' = << >> /\ calls' = << >>
      OBVIOUS
    <2>1. calls[1].state = 1 /\ calls[1].home # "shared"
      BY DEF IInv, Stacked
    <2>2. Len(states') = 0 /\ Len(calls') = 0
      BY <1>1, <1>2, <2>1
    <2> QED
      BY <1>2, <2>2, LengthIs
  <1> QED
    BY <1>1, <1>2, <1>3, <1>4, <1>5, <1>6

LEMMA ClosingTypes ==
  ASSUME IInv, calls # << >>, Closing
  PROVE  TypeOK' /\ Stacked' /\ Path'
  <1>0. Len(calls) \in Nat /\ Len(states) \in Nat
    BY LengthIs DEF IInv, TypeOK
  <1> PICK n \in Nat : n = Len(calls)
    BY <1>0
  <1> PICK m \in Nat : m = Len(states)
    BY <1>0
  <1>1. /\ graph' = graph /\ options' = options /\ ret' # Pending
        /\ n \in 1 .. n /\ Len(calls') = n - 1
        /\ calls[n].state = m
        /\ Len(states') = (IF calls[n].home = "shared" THEN m ELSE m - 1)
        /\ n > 1 => calls[n - 1].state = Len(states')
        /\ n = 1 => states' = << >> /\ calls' = << >>
        /\ \A j \in 1 .. Len(states') : j \in 1 .. m /\ SameState(states'[j], states[j])
        /\ \A j \in 1 .. m - 1 : states'[j] = states[j]
    BY ZenonT(30), ClosingStacks
  <1>2. \A c \in 1 .. n - 1 :
          /\ calls'[c] = calls[c] /\ Entered(c)
          /\ calls[c].state \in 1 .. Len(states')
          /\ SameState(states'[calls[c].state], states[calls[c].state])
    BY ClosingStacks
  <1>3. /\ IsSequence(calls') /\ IsSequence(states')
        /\ calls[n].home = "shared" =>
             /\ IsState(states'[m])
             /\ IsSequence(states'[m].scopes) /\ IsSequence(states'[m].active)
    BY DEF Closing
  <1>4. \A c \in 1 .. n - 1 : c \in 1 .. n /\ c < n
    BY <1>1
  <1>5. TypeOK'
    <2>1. \A c \in 1 .. n - 1 :
            /\ IsCall(calls'[c]) /\ calls'[c].schema \in DOMAIN graph.kind
            /\ calls'[c].depth \in Nat /\ calls'[c].home \in Homes
            /\ calls'[c].state \in 1 .. Len(states') /\ calls'[c].stage \in Nat
      BY <1>2, <1>4 DEF IInv, TypeOK
    <2>2. \A j \in 1 .. Len(states') :
            /\ IsState(states'[j])
            /\ IsSequence(states'[j].scopes) /\ IsSequence(states'[j].active)
      <3> SUFFICES ASSUME NEW j \in 1 .. Len(states')
                   PROVE  /\ IsState(states'[j])
                          /\ IsSequence(states'[j].scopes) /\ IsSequence(states'[j].active)
        OBVIOUS
      <3>1. CASE j \in 1 .. m - 1
        <4>1. states'[j] = states[j] /\ j \in 1 .. Len(states)
          BY <1>1, <3>1
        <4> QED
          BY <4>1 DEF IInv, TypeOK
      <3>2. CASE j \notin 1 .. m - 1
        <4>1. calls[n].home = "shared" /\ j = m
          BY <1>1, <3>2
        <4> QED
          BY <1>3, <4>1
      <3> QED
        BY <3>1, <3>2
    <2>3. graph \in Graphs
      BY DEF IInv, TypeOK
    <2> QED
      BY <1>1, <1>3, <2>1, <2>2, <2>3 DEF TypeOK
  <1>6. Stacked'
    <2>1. n # 1 => /\ calls' # << >> /\ calls'[1].state = 1 /\ calls'[1].home # "shared"
                   /\ calls'[Len(calls')].state = Len(states')
      <3> SUFFICES ASSUME n # 1
                   PROVE  /\ calls' # << >> /\ calls'[1].state = 1 /\ calls'[1].home # "shared"
                          /\ calls'[Len(calls')].state = Len(states')
        OBVIOUS
      <3>1. n - 1 \in 1 .. n - 1 /\ 1 \in 1 .. n - 1 /\ Len(calls') # 0 /\ n > 1
        BY <1>1
      <3>2. calls' # << >>
        BY <1>3, <3>1, LengthIs
      <3>3. calls[1].state = 1 /\ calls[1].home # "shared"
        BY DEF IInv, Stacked
      <3> QED
        BY <1>1, <1>2, <3>1, <3>2, <3>3
    <2>2. \A c \in 1 .. Len(calls') - 1 :
            \/ calls'[c + 1].home = "shared" /\ calls'[c + 1].state = calls'[c].state
            \/ calls'[c + 1].home # "shared" /\ calls'[c + 1].state = calls'[c].state + 1
      <3>1. \A c \in 1 .. Len(calls') - 1 : /\ c \in 1 .. n - 1 /\ c + 1 \in 1 .. n - 1
                                           /\ c \in 1 .. Len(calls) - 1
        BY <1>1
      <3> QED
        BY <1>2, <3>1 DEF IInv, Stacked
    <2>3. \A c, e \in 1 .. n - 1 : c < e => calls'[c].state <= calls'[e].state
      BY <1>2, <1>4 DEF IInv, Stacked
    <2>4. n = 1 => /\ states' = << >> /\ calls' = << >>
      BY <1>1
    <2> QED
      BY <1>1, <2>1, <2>2, <2>3, <2>4 DEF Stacked
  <1>7. Path'
    <2>1. \A c \in 1 .. n - 1 : calls'[c].depth <= MaxDepth /\ calls'[c].depth <= MaxDepth + 1
      BY <1>2, <1>4 DEF IInv, Path
    <2>2. ASSUME NEW c \in 1 .. Len(calls') - 1
          PROVE  Reaches(calls[c], states[calls[c].state].options, calls[c + 1].schema,
                         calls[c + 1].depth, states[calls[c + 1].state].options)'
      <3>1. c \in 1 .. n - 1 /\ c + 1 \in 1 .. n - 1 /\ c \in 1 .. Len(calls) - 1
        BY <1>1
      <3>2. /\ calls'[c] = calls[c] /\ calls'[c + 1] = calls[c + 1]
            /\ states'[calls[c].state].options = states[calls[c].state].options
            /\ states'[calls[c + 1].state].options = states[calls[c + 1].state].options
        BY <1>2, <3>1 DEF SameState
      <3>3. Reaches(calls[c], states[calls[c].state].options, calls[c + 1].schema,
                    calls[c + 1].depth, states[calls[c + 1].state].options)
        BY <3>1 DEF IInv, Path
      <3> QED
        BY <1>1, <3>2, <3>3 DEF Reaches, Handed, IsBelow
    <2> QED
      BY <1>1, <2>1, <2>2 DEF Path
  <1> QED
    BY <1>5, <1>6, <1>7

LEMMA ClosingOptions ==
  ASSUME IInv, calls # << >>, Closing
  PROVE  Fitting' /\ OptionsKept' /\ Placed' /\ Progressing' /\ SchemaHolds'
  <1>0. Len(calls) \in Nat /\ Len(states) \in Nat
    BY LengthIs DEF IInv, TypeOK
  <1> PICK n \in Nat : n = Len(calls)
    BY <1>0
  <1> PICK m \in Nat : m = Len(states)
    BY <1>0
  <1>1. /\ graph' = graph /\ options' = options /\ Len(calls') = n - 1
        /\ \A j \in 1 .. Len(states') : j \in 1 .. m /\ SameState(states'[j], states[j])
    BY ClosingStacks
  <1>2. \A c \in 1 .. n - 1 :
          /\ calls'[c] = calls[c] /\ Entered(c)
          /\ SameState(states'[calls[c].state], states[calls[c].state])
    BY ClosingStacks
  <1>3. \A c \in 1 .. n - 1 : c \in 1 .. n
    OBVIOUS
  <1>4. Fitting'
    <2> SUFFICES ASSUME NEW c \in 1 .. n - 1,
                        graph.kind[calls'[c].schema] = "model",
                        ~(/\ states'[calls'[c].state].options.override = "none"
                          /\ ~states'[calls'[c].state].options.strict
                          /\ graph.flag[calls'[c].schema])
                 PROVE  Len(graph.kids[calls'[c].schema])
                          = Len(states'[calls'[c].state].input.nodes[calls'[c].input].kids)
      BY <1>1 DEF Fitting, KindOf
    <2>1. /\ calls'[c] = calls[c] /\ Entered(c) /\ c \in 1 .. n
          /\ states'[calls'[c].state].options = states[calls[c].state].options
          /\ states'[calls'[c].state].input = states[calls[c].state].input
      BY <1>2, <1>3 DEF SameState
    <2> QED
      BY <2>1 DEF IInv, Fitting, KindOf
  <1>5. OptionsKept'
    <2>1. ASSUME calls' # << >> PROVE states'[1].options = options
      <3>1. 1 \in 1 .. n - 1 /\ calls[1].state = 1 /\ states[1].options = options
        BY <1>1, <2>1, ClosingStacks DEF IInv, Stacked, OptionsKept
      <3> QED
        BY <1>2, <3>1 DEF SameState
    <2>2. ASSUME NEW j \in 1 .. Len(states')
          PROVE  states'[j].options \in AllOptions /\ states'[j].profile = states'[j].input.profile
      <3>1. /\ j \in 1 .. m /\ states'[j].profile = states[j].profile
            /\ states'[j].options = states[j].options /\ states'[j].input = states[j].input
        BY <1>1 DEF SameState
      <3> QED
        BY <3>1 DEF IInv, OptionsKept
    <2> QED
      BY <1>1, <2>1, <2>2 DEF OptionsKept
  <1>6. Placed'
    <2> SUFFICES ASSUME ~graph.static, Enclosed(graph), NEW c \in 1 .. n - 1
                 PROVE  PlacedAt(c)'
      BY <1>1 DEF Placed
    <2>1. PlacedAt(c) /\ calls'[c] = calls[c]
      BY <1>2, <1>3 DEF IInv, Placed
    <2>2. \A b \in 1 .. c - 1 : calls'[b] = calls[b]
      BY <1>2
    <2> QED
      BY <1>1, <2>1, <2>2 DEF PlacedAt, KindOf
  <1>7. Progressing'
    <2> SUFFICES ASSUME NEW c \in 1 .. n - 1, NEW e \in 1 .. n - 1, c < e,
                        KindOf(c)' = "reference", KindOf(e)' = "reference",
                        \A b \in c + 1 .. e : calls'[b].home # "input"
                 PROVE  Followed(c)' # Followed(e)'
      BY <1>1 DEF Progressing
    <2>1. \A b \in c + 1 .. e : calls'[b] = calls[b]
      BY <1>2
    <2>2. /\ Followed(c)' = Followed(c) /\ Followed(e)' = Followed(e) /\ Entered(e)
          /\ KindOf(c) = "reference" /\ KindOf(e) = "reference" /\ c \in 1 .. n /\ e \in 1 .. n
      BY <1>1, <1>2, <1>3 DEF Followed, KindOf
    <2> QED
      BY <2>1, <2>2 DEF IInv, Progressing
  <1>8. SchemaHolds'
    <2>1. Sound(ret)'
      BY DEF Closing
    <2> QED
      BY <1>1, <1>2, <1>3, <2>1 DEF IInv, SchemaHolds
  <1> QED
    BY <1>4, <1>5, <1>6, <1>7, <1>8
(* The calls open around a state once a call has returned: the others.     *)
SetsAfterClosing(kd, n, m) ==
  /\ \A j \in 1 .. Len(states') : OpenAround(j, kd)' = OpenAround(j, kd) \ {n}
  /\ \A j \in 1 .. Len(states') :
       n \in OpenAround(j, kd) <=> (kind = kd /\ ret # Pending /\ j = m)
  /\ \A j \in 1 .. Len(states') : \A c \in 1 .. n - 1 : OnInputOf(c, j)' <=> OnInputOf(c, j)

LEMMA ClosingSets ==
  ASSUME IInv, calls # << >>, Closing, NEW kd,
         NEW n \in Nat, n = Len(calls), NEW m \in Nat, m = Len(states)
  PROVE  SetsAfterClosing(kd, n, m)
  <1>1. /\ graph' = graph /\ ret' # Pending /\ n \in 1 .. n /\ m \in 1 .. m
        /\ Len(calls') = n - 1 /\ top = calls[n] /\ calls[n].state = m
        /\ Len(states') = (IF calls[n].home = "shared" THEN m ELSE m - 1)
    BY ClosingStacks
  <1>2. \A c \in 1 .. n - 1 : calls'[c] = calls[c] /\ Entered(c)
    BY ClosingStacks
  <1>3. \A j : OpenAround(j, kd) =
          {c \in 1 .. n : calls[c].state <= j /\ Entered(c) /\ graph.kind[calls[c].schema] = kd}
    BY DEF OpenAround
  <1>4. \A j : OpenAround(j, kd)' =
          {c \in 1 .. n - 1 : calls'[c].state <= j /\ Entered(c)' /\ graph.kind[calls'[c].schema] = kd}
    BY <1>1 DEF OpenAround
  <1>5. \A c : Entered(c)'
    BY <1>1 DEF Entered
  <1>6. 1 .. n - 1 = (1 .. n) \ {n}
    BY <1>1
  <1>7. \A j : OpenAround(j, kd)' =
          {c \in 1 .. n - 1 : calls[c].state <= j /\ Entered(c) /\ graph.kind[calls[c].schema] = kd}
    BY <1>2, <1>4, <1>5
  <1>8. \A j : OpenAround(j, kd)' = OpenAround(j, kd) \ {n}
    BY <1>3, <1>6, <1>7
  <1>9. Entered(n) <=> ret # Pending
    BY DEF Entered
  <1>10. ASSUME NEW j \in 1 .. Len(states')
         PROVE  n \in OpenAround(j, kd) <=> (kind = kd /\ ret # Pending /\ j = m)
    <2>1. m <= j <=> j = m
      BY <1>1
    <2> QED
      BY <1>1, <1>3, <1>9, <2>1 DEF kind
  <1>11. ASSUME NEW j \in 1 .. Len(states'), NEW c \in 1 .. n - 1
         PROVE  OnInputOf(c, j)' <=> OnInputOf(c, j)
    <2>1. OnInputOf(c, j) <=> \A e \in c + 1 .. n : calls[e].state <= j => calls[e].home # "input"
      BY DEF OnInputOf
    <2>2. OnInputOf(c, j)' <=>
            \A e \in c + 1 .. n - 1 : calls[e].state <= j => calls[e].home # "input"
      <3>1. \A e \in c + 1 .. n - 1 : calls'[e] = calls[e]
        BY <1>2
      <3> QED
        BY <1>1, <3>1 DEF OnInputOf
    <2>3. calls[n].state <= j => calls[n].home # "input"
      BY <1>1
    <2>4. /\ \A e \in c + 1 .. n : e \in c + 1 .. n - 1 \/ e = n
          /\ \A e \in c + 1 .. n - 1 : e \in c + 1 .. n
      BY <1>1
    <2> QED
      BY <2>1, <2>2, <2>3, <2>4
  <1> QED
    BY <1>8, <1>10, <1>11 DEF SetsAfterClosing

(* A definitions call and a reference call take back the marks they left.  *)
ClearsMarks ==
  calls[Len(calls)].home = "shared" =>
    /\ states'[Len(states)].scopes =
         IF kind = "definitions" /\ ret # Pending THEN Pop(here.scopes) ELSE here.scopes
    /\ states'[Len(states)].active =
         IF kind = "reference" /\ ret # Pending THEN Pop(here.active) ELSE here.active

LEMMA ClosingMarks ==
  ASSUME IInv, calls # << >>, Closing, ClearsMarks
  PROVE  BracketsMatch'
  <1>0. Len(calls) \in Nat /\ Len(states) \in Nat
    BY LengthIs DEF IInv, TypeOK
  <1> PICK n \in Nat : n = Len(calls)
    BY <1>0
  <1> PICK m \in Nat : m = Len(states)
    BY <1>0
  <1>1. /\ graph' = graph /\ n \in 1 .. n /\ m \in 1 .. m
        /\ here = states[m] /\ calls[n].state = m
        /\ Len(states') = (IF calls[n].home = "shared" THEN m ELSE m - 1)
        /\ \A j \in 1 .. m - 1 : states'[j] = states[j]
    BY ClosingStacks
  <1>2. \A c \in 1 .. n - 1 : calls'[c] = calls[c] /\ Followed(c)' = Followed(c)
    BY <1>1, ClosingStacks DEF Followed
  <1>3. ASSUME NEW kd
        PROVE  /\ \A j \in 1 .. Len(states') : OpenAround(j, kd)' = OpenAround(j, kd) \ {n}
               /\ \A j \in 1 .. Len(states') :
                    n \in OpenAround(j, kd) <=> (kind = kd /\ ret # Pending /\ j = m)
               /\ \A j : OpenAround(j, kd) \in SUBSET (1 .. n)
    <2>1. SetsAfterClosing(kd, n, m)
      BY ClosingSets
    <2> QED
      BY <2>1 DEF SetsAfterClosing, OpenAround
  <1>4. \A j \in 1 .. Len(states') : \A c \in 1 .. n - 1 : OnInputOf(c, j)' <=> OnInputOf(c, j)
    <2>1. SetsAfterClosing("reference", n, m)
      BY ClosingSets
    <2> QED
      BY <2>1 DEF SetsAfterClosing
  <1>5. \A j \in 1 .. Len(states') : j \in 1 .. m
    BY <1>1
  <1>6. \A c \in 1 .. n : c # n => c \in 1 .. n - 1 /\ c < n
    BY <1>1
  <1> SUFFICES ASSUME NEW j \in 1 .. Len(states') PROVE ScopesMatch(j)' /\ ActiveMatch(j)'
    BY Zenon DEF BracketsMatch, ScopesMatch, ActiveMatch, Following
  <1>7. ScopesMatch(j) /\ ActiveMatch(j) /\ IsSequence(states[j].scopes) /\ IsSequence(states[j].active)
    BY <1>5, BracketsAre DEF IInv, TypeOK
  <1>8. j # m => states'[j] = states[j]
    BY <1>1, <1>5
  <1>9. j = m => calls[n].home = "shared"
    BY <1>1
  <1>10. ScopesMatch(j)'
    <2> DEFINE open == OpenAround(j, "definitions")
               rest == OpenAround(j, "definitions")'
               entry == [c \in open |-> calls[c].schema]
               next == [c \in rest |-> calls'[c].schema]
    <2>1. rest = open \ {n} /\ open \in SUBSET (1 .. n)
      BY <1>3
    <2>2. \A c \in rest : c \in 1 .. n - 1 /\ c < n /\ calls'[c].schema = calls[c].schema
      BY <1>2, <1>6, <2>1
    <2>3. CASE n \notin open
      <3>1. states'[j].scopes = states[j].scopes
        <4>1. ~(kind = "definitions" /\ ret # Pending /\ j = m)
          BY <1>3, <2>3
        <4> QED
          BY <1>1, <1>8, <1>9, <4>1 DEF ClearsMarks
      <3>2. rest = open
        BY <2>1, <2>3
      <3> QED
        BY <1>7, <2>2, <3>1, <3>2, ScopesStay
    <2>4. CASE n \in open
      <3>1. kind = "definitions" /\ ret # Pending /\ j = m
        BY <1>3, <2>4
      <3>2. states'[j].scopes = Pop(states[j].scopes)
        BY <1>1, <1>9, <3>1 DEF ClearsMarks
      <3>3. Lists(states[j].scopes, open, entry)
        BY <1>7 DEF ScopesMatch
      <3>4. \A c \in rest : next[c] = entry[c]
        BY <2>1, <2>2
      <3> HIDE DEF open, rest, entry, next
      <3>5. open \in SUBSET Int /\ n \in Int /\ \A c \in rest : c < n
        BY <2>1, <2>2
      <3>6. Lists(Pop(states[j].scopes), rest, next)
        <4> DEFINE list == states[j].scopes
        <4>1. IsSequence(list) /\ Lists(list, open, entry) /\ rest = open \ {n} /\ n \in open
          BY <1>7, <2>1, <2>4, <3>3
        <4> HIDE DEF list
        <4>2. Lists(Pop(list), rest, next)
          BY <3>4, <3>5, <4>1, ListsLess
        <4> QED
          BY <4>2 DEF list
      <3> QED
        BY <3>2, <3>6 DEF ScopesMatch, next, rest
    <2> QED
      BY <2>3, <2>4
  <1>11. ActiveMatch(j)'
    <2> DEFINE open == Following(j)
               rest == Following(j)'
               entry == [c \in open |-> Followed(c)]
               next == [c \in rest |-> Followed(c)']
    <2>1. rest = open \ {n} /\ open \in SUBSET (1 .. n)
      <3>1. OpenAround(j, "reference")' = OpenAround(j, "reference") \ {n}
        BY <1>3
      <3>2. \A c \in OpenAround(j, "reference") : c \in 1 .. n
        BY <1>3
      <3>3. \A c \in OpenAround(j, "reference")' : c \in 1 .. n - 1
        BY <1>6, <3>1, <3>2
      <3>4. \A c \in OpenAround(j, "reference")' : OnInputOf(c, j)' <=> OnInputOf(c, j)
        BY <1>4, <3>3
      <3>5. rest = {c \in OpenAround(j, "reference")' : OnInputOf(c, j)'}
        BY DEF Following
      <3>6. rest = {c \in OpenAround(j, "reference")' : OnInputOf(c, j)}
        BY <3>4, <3>5
      <3>7. rest = open \ {n}
        BY <3>1, <3>6 DEF Following
      <3>8. open \in SUBSET (1 .. n)
        BY <3>2 DEF Following
      <3> QED
        BY <3>7, <3>8
    <2>2. \A c \in rest : c \in 1 .. n - 1 /\ c < n /\ Followed(c)' = Followed(c)
      BY <1>2, <1>6, <2>1
    <2>3. CASE n \notin open
      <3>1. states'[j].active = states[j].active
        <4>1. j = m => OnInputOf(n, j)
          BY <1>1 DEF OnInputOf
        <4>2. ~(kind = "reference" /\ ret # Pending /\ j = m)
          BY <1>3, <2>3, <4>1 DEF Following
        <4> QED
          BY <1>1, <1>8, <1>9, <4>2 DEF ClearsMarks
      <3>2. rest = open
        BY <2>1, <2>3
      <3> QED
        BY <1>7, <2>2, <3>1, <3>2, ActiveStays
    <2>4. CASE n \in open
      <3>1. kind = "reference" /\ ret # Pending /\ j = m
        BY <1>3, <2>4 DEF Following
      <3>2. states'[j].active = Pop(states[j].active)
        BY <1>1, <1>9, <3>1 DEF ClearsMarks
      <3>3. Lists(states[j].active, open, entry)
        BY <1>7 DEF ActiveMatch
      <3>4. \A c \in rest : next[c] = entry[c]
        BY <2>1, <2>2
      <3> HIDE DEF open, rest, entry, next
      <3>5. open \in SUBSET Int /\ n \in Int /\ \A c \in rest : c < n
        BY <2>1, <2>2
      <3>6. Lists(Pop(states[j].active), rest, next)
        <4> DEFINE list == states[j].active
        <4>1. IsSequence(list) /\ Lists(list, open, entry) /\ rest = open \ {n} /\ n \in open
          BY <1>7, <2>1, <2>4, <3>3
        <4> HIDE DEF list
        <4>2. Lists(Pop(list), rest, next)
          BY <3>4, <3>5, <4>1, ListsLess
        <4> QED
          BY <4>2 DEF list
      <3> QED
        BY <3>2, <3>6 DEF ActiveMatch, next, rest
    <2> QED
      BY <2>3, <2>4
  <1> QED
    BY <1>10, <1>11

(* A call that returns. *)
LEMMA ClosingKeeps ==
  ASSUME IInv, calls # << >>, Closing, ClearsMarks
  PROVE  IInv'
  BY ClosingTypes, ClosingOptions, ClosingMarks DEF IInv
-----------------------------------------------------------------------------
(* The ways a handler ends: it returns, or it opens a call in its own      *)
(* state, in a branch or on a new input.                                   *)
Alike(state) == IsState(state) /\ SameState(state, here) /\ SameMarks(state, here)

LEMMA TopIs ==
  ASSUME IInv, calls # << >>
  PROVE  /\ Len(calls) \in Nat \ {0} /\ Len(states) \in Nat \ {0} /\ states # << >>
         /\ IsSequence(calls) /\ IsSequence(states)
         /\ top = calls[Len(calls)] /\ here = states[Len(states)]
         /\ IsCall(top) /\ top.schema \in DOMAIN graph.kind /\ top.depth \in Nat
         /\ top.home \in Homes /\ top.state = Len(states) /\ top.stage \in Nat
         /\ Enclosed(graph) => top.failure # "schema_invalid"
         /\ IsState(here) /\ IsSequence(here.scopes) /\ IsSequence(here.active)
         /\ here.profile = here.input.profile /\ here.options \in AllOptions
         /\ Alike(here)
         /\ ret # Pending => Ready
  <1>1. /\ Len(calls) \in Nat \ {0} /\ Len(states) \in Nat \ {0}
        /\ IsSequence(calls) /\ IsSequence(states)
        /\ top = calls[Len(calls)] /\ here = states[Len(states)] /\ top.state = Len(states)
    BY LengthIs DEF IInv, TypeOK, Stacked, top, here, Last
  <1>2. Len(calls) \in 1 .. Len(calls) /\ Len(states) \in 1 .. Len(states) /\ states # << >>
    BY <1>1, LengthIs
  <1>3. /\ IsCall(top) /\ top.schema \in DOMAIN graph.kind /\ top.depth \in Nat
        /\ top.home \in Homes /\ top.stage \in Nat
    BY <1>1, <1>2 DEF IInv, TypeOK
  <1>4. IsState(here) /\ IsSequence(here.scopes) /\ IsSequence(here.active)
    BY <1>1, <1>2 DEF IInv, TypeOK
  <1>5. Enclosed(graph) => top.failure # "schema_invalid"
    BY <1>1, <1>2 DEF IInv, SchemaHolds
  <1>6. here.profile = here.input.profile /\ here.options \in AllOptions
    BY <1>1, <1>2 DEF IInv, OptionsKept
  <1>7. ASSUME ret # Pending PROVE Ready
    <2>1. Entered(Len(calls))
      BY <1>7 DEF Entered
    <2>2. top.depth <= MaxDepth
      BY <1>1, <1>2, <2>1 DEF IInv, Path
    <2>3. kind = "model" /\ ~NeedsStrict => Len(kids) = Len(node.kids)
      BY <1>1, <1>2, <2>1 DEF IInv, Fitting, KindOf, kind, kids, node, NeedsStrict
    <2> QED
      BY <2>2, <2>3 DEF Ready
  <1> QED
    BY <1>1, <1>2, <1>3, <1>4, <1>5, <1>6, <1>7 DEF Alike, SameState, SameMarks

LEMMA GiveWithKeeps ==
  ASSUME IInv, calls # << >>, UNCHANGED given, NEW state, NEW result, GiveWith(state, result),
         result # Pending, Sound(result), IsState(state), SameState(state, here),
         IsSequence(state.scopes), IsSequence(state.active),
         state.scopes = IF kind = "definitions" /\ ret # Pending THEN Pop(here.scopes)
                        ELSE here.scopes,
         state.active = IF kind = "reference" /\ ret # Pending THEN Pop(here.active)
                        ELSE here.active
  PROVE  IInv'
  <1>1. /\ IsSequence(calls) /\ IsSequence(states) /\ states # << >>
        /\ Len(calls) \in Nat \ {0} /\ Len(states) \in Nat \ {0}
        /\ top = calls[Len(calls)] /\ here = states[Len(states)]
    BY TopIs
  <1>2. graph' = graph /\ options' = options /\ ret' = result /\ calls' = Pop(calls)
    BY DEF given, GiveWith
  <1>3. /\ IsSequence(calls') /\ Len(calls') = Len(calls) - 1
        /\ \A c \in 1 .. Len(calls) - 1 : calls'[c] = calls[c]
    BY <1>1, <1>2, PopIs
  <1>4. Sound(ret)'
    BY <1>2 DEF Sound
  <1>5. CASE top.home = "shared"
    <2>1. states' = Append(Pop(states), state)
      BY <1>5 DEF GiveWith
    <2>2. /\ IsSequence(states') /\ Len(states') = Len(states)
          /\ \A j \in 1 .. Len(states) - 1 : states'[j] = states[j]
          /\ states'[Len(states)] = state
      BY ZenonT(30), <1>1, <2>1, ReplaceIs
    <2>3. Closing
      BY <1>1, <1>2, <1>3, <1>4, <1>5, <2>2 DEF Closing
    <2>4. ClearsMarks
      BY <2>2 DEF ClearsMarks
    <2> QED
      BY <2>3, <2>4, ClosingKeeps
  <1>6. CASE top.home # "shared"
    <2>1. states' = Pop(states)
      BY <1>6 DEF GiveWith
    <2>2. /\ IsSequence(states') /\ Len(states') = Len(states) - 1
          /\ \A j \in 1 .. Len(states) - 1 : states'[j] = states[j]
      BY <1>1, <2>1, PopIs
    <2>3. Closing
      BY <1>1, <1>2, <1>3, <1>4, <1>6, <2>2 DEF Closing
    <2>4. ClearsMarks
      BY <1>1, <1>6 DEF ClearsMarks
    <2> QED
      BY <2>3, <2>4, ClosingKeeps
  <1> QED
    BY <1>5, <1>6

(* A call without marks of its own returns a value, or an error.           *)
Unmarked == ret = Pending \/ kind \notin {"definitions", "reference"}

LEMMA GiveKeeps ==
  ASSUME IInv, calls # << >>, UNCHANGED given, Unmarked, NEW state, Alike(state), NEW id,
         Give(state, id)
  PROVE  IInv'
  <1> DEFINE result == Returned(id, IF top.home = "shared" THEN << >> ELSE state.values)
  <1>1. result.outcome = "ok" /\ GiveWith(state, result)
    BY DEF Returned, Give
  <1> HIDE DEF result
  <1>2. result # Pending /\ Sound(result)
    BY <1>1 DEF Pending, Sound
  <1>3. /\ IsState(state) /\ SameState(state, here)
        /\ IsSequence(state.scopes) /\ IsSequence(state.active)
        /\ state.scopes = here.scopes /\ state.active = here.active
    BY TopIs DEF Alike, SameMarks
  <1> QED
    BY <1>1, <1>2, <1>3, GiveWithKeeps DEF Unmarked

LEMMA FailedIs ==
  ASSUME NEW code, Enclosed(graph) => code # "schema_invalid"
  PROVE  Failed(Overridden(code)) # Pending /\ Sound(Failed(Overridden(code)))
  <1>1. Overridden(code) \in {"declared_error", code}
    BY DEF Overridden
  <1> QED
    BY <1>1 DEF Failed, Pending, Sound

LEMMA FailKeeps ==
  ASSUME IInv, calls # << >>, UNCHANGED given, Unmarked, NEW code,
         Enclosed(graph) => code # "schema_invalid", Fail(here, code)
  PROVE  IInv'
  <1> DEFINE result == Failed(Overridden(code))
  <1>1. result # Pending /\ Sound(result) /\ GiveWith(here, result)
    BY FailedIs DEF Fail
  <1>2. /\ IsState(here) /\ SameState(here, here)
        /\ IsSequence(here.scopes) /\ IsSequence(here.active)
    BY TopIs DEF SameState
  <1> HIDE DEF result
  <1> QED
    BY <1>1, <1>2, GiveWithKeeps DEF Unmarked

(* What the new stack of calls looks like. *)
LEMMA NewCall ==
  ASSUME IInv, calls # << >>, NEW caller, Continues(caller), NEW s, NEW i, NEW d, NEW home, NEW k,
         calls' = Append(Append(Pop(calls), caller), Call(s, i, d, home, k))
  PROVE  LET n == Len(calls)
         IN  /\ IsSequence(calls') /\ Len(calls') = n + 1
             /\ \A c \in 1 .. n :
                  /\ IsCall(calls'[c]) /\ SamePlace(calls'[c], calls[c]) /\ calls'[c].stage \in Nat
                  /\ Enclosed(graph) => calls'[c].failure # "schema_invalid"
             /\ IsCall(calls'[n + 1]) /\ calls'[n + 1].schema = s /\ calls'[n + 1].depth = d
             /\ calls'[n + 1].home = home /\ calls'[n + 1].state = k
             /\ calls'[n + 1].stage = 0 /\ calls'[n + 1].failure = "none"
  <1> DEFINE n == Len(calls)
             paused == Append(Pop(calls), caller)
             new == Call(s, i, d, home, k)
  <1>1. n \in Nat \ {0} /\ IsSequence(calls) /\ top = calls[n]
    BY TopIs
  <1>2. /\ IsSequence(paused) /\ Len(paused) = n
        /\ \A c \in 1 .. n - 1 : paused[c] = calls[c]
        /\ paused[n] = caller
    BY <1>1, ReplaceIs
  <1>3. /\ IsCall(new) /\ new.schema = s /\ new.depth = d /\ new.home = home /\ new.state = k
        /\ new.stage = 0 /\ new.failure = "none"
    BY DEF Call, IsCall
  <1> HIDE DEF n, paused, new
  <1>4. /\ IsSequence(calls') /\ Len(calls') = n + 1
        /\ \A c \in 1 .. n : calls'[c] = paused[c]
        /\ calls'[n + 1] = new
    BY <1>2, AppendIs DEF paused, new
  <1>5. ASSUME NEW c \in 1 .. n
        PROVE  /\ IsCall(calls'[c]) /\ SamePlace(calls'[c], calls[c]) /\ calls'[c].stage \in Nat
               /\ Enclosed(graph) => calls'[c].failure # "schema_invalid"
    <2>1. CASE c = n
      BY <1>1, <1>2, <1>4, <2>1 DEF Continues
    <2>2. CASE c \in 1 .. n - 1
      <3>1. calls'[c] = calls[c]
        BY <1>2, <1>4, <2>2
      <3>2. /\ IsCall(calls[c]) /\ calls[c].stage \in Nat
            /\ Enclosed(graph) => calls[c].failure # "schema_invalid"
        BY DEF IInv, TypeOK, SchemaHolds, n
      <3> QED
        BY <3>1, <3>2 DEF SamePlace
    <2>3. c \in 1 .. n - 1 \/ c = n
      BY <1>1
    <2> QED
      BY <2>1, <2>2, <2>3
  <1> QED
    BY <1>3, <1>4, <1>5 DEF n

LEMMA DescendOpens ==
  ASSUME IInv, Ready, UNCHANGED given, NEW caller, Continues(caller), NEW state, IsState(state),
         SameState(state, here), IsSequence(state.scopes), IsSequence(state.active),
         NEW s, NEW i, NEW d, Descend(caller, state, s, i, d)
  PROVE  Opening(s, d, "shared", here.options) /\ states'[Len(states)] = state
  <1> DEFINE n == Len(calls)
             m == Len(states)
  <1>1. /\ calls # << >> /\ IsSequence(states) /\ states # << >> /\ m \in Nat \ {0} /\ here = states[m]
        /\ here.profile = here.input.profile
    BY TopIs DEF Ready
  <1>2. graph' = graph /\ options' = options /\ ret' = Pending
    BY DEF given, Descend
  <1>3. /\ IsSequence(calls') /\ Len(calls') = n + 1
        /\ \A c \in 1 .. n :
             /\ IsCall(calls'[c]) /\ SamePlace(calls'[c], calls[c]) /\ calls'[c].stage \in Nat
             /\ Enclosed(graph) => calls'[c].failure # "schema_invalid"
        /\ IsCall(calls'[n + 1]) /\ calls'[n + 1].schema = s /\ calls'[n + 1].depth = d
        /\ calls'[n + 1].home = "shared" /\ calls'[n + 1].state = m
        /\ calls'[n + 1].stage = 0 /\ calls'[n + 1].failure = "none"
    BY <1>1, NewCall DEF Descend
  <1>4. /\ IsSequence(states') /\ Len(states') = m
        /\ \A j \in 1 .. m - 1 : states'[j] = states[j]
        /\ states'[m] = state
    BY ZenonT(30), <1>1, ReplaceIs DEF Descend
  <1> HIDE DEF n, m
  <1>5. ASSUME NEW j \in 1 .. m
        PROVE  /\ IsState(states'[j]) /\ SameState(states'[j], states[j])
               /\ IsSequence(states'[j].scopes) /\ IsSequence(states'[j].active)
    <2>1. CASE j = m
      BY <1>1, <1>4, <2>1
    <2>2. CASE j \in 1 .. m - 1
      BY <1>4, <2>2 DEF IInv, TypeOK, SameState, m
    <2> QED
      BY <1>1, <2>1, <2>2
  <1>6. \A j \in 1 .. m - 1 : SameMarks(states'[j], states[j])
    BY <1>4 DEF SameMarks
  <1>7. states'[m].options = here.options /\ states'[m].profile = states'[m].input.profile
    BY <1>1, <1>4 DEF SameState
  <1> QED
    BY <1>2, <1>3, <1>4, <1>5, <1>6, <1>7 DEF Opening, n, m

(* A new state, of a branch or on a new input. *)
LEMMA StateOpens ==
  ASSUME IInv, Ready, UNCHANGED given, NEW caller, Continues(caller),
         NEW s, NEW i, NEW d, NEW home \in {"branch", "input"}, NEW input, NEW its, NEW active,
         calls' = Append(Append(Pop(calls), caller), Call(s, i, d, home, Len(states) + 1)),
         states' = Append(states, State(input, its, input.profile, here.scopes, active)),
         ret' = Pending, active = IF home = "branch" THEN here.active ELSE << >>
  PROVE  Opening(s, d, home, its)
  <1> DEFINE n == Len(calls)
             m == Len(states)
             new == State(input, its, input.profile, here.scopes, active)
  <1>1. /\ calls # << >> /\ IsSequence(states) /\ m \in Nat \ {0} /\ here = states[m]
        /\ IsSequence(here.scopes) /\ IsSequence(here.active)
    BY TopIs DEF Ready
  <1>2. graph' = graph /\ options' = options
    BY DEF given
  <1>3. /\ IsSequence(calls') /\ Len(calls') = n + 1
        /\ \A c \in 1 .. n :
             /\ IsCall(calls'[c]) /\ SamePlace(calls'[c], calls[c]) /\ calls'[c].stage \in Nat
             /\ Enclosed(graph) => calls'[c].failure # "schema_invalid"
        /\ IsCall(calls'[n + 1]) /\ calls'[n + 1].schema = s /\ calls'[n + 1].depth = d
        /\ calls'[n + 1].home = home /\ calls'[n + 1].state = m + 1
        /\ calls'[n + 1].stage = 0 /\ calls'[n + 1].failure = "none"
    BY <1>1, NewCall
  <1>4. IsSequence(active)
    <2>1. IsSequence(<< >>)
      BY EmptySeq, IsSequenceOf
    <2> QED
      BY <1>1, <2>1
  <1>5. /\ IsState(new) /\ new.options = its /\ new.profile = new.input.profile
        /\ new.scopes = here.scopes /\ new.active = active
    BY DEF State, IsState
  <1>6. /\ IsSequence(states') /\ Len(states') = m + 1
        /\ \A j \in 1 .. m : states'[j] = states[j]
        /\ states'[m + 1] = new
    BY <1>1, AppendIs
  <1> HIDE DEF n, m, new
  <1>7. ASSUME NEW j \in 1 .. m + 1
        PROVE  /\ IsState(states'[j])
               /\ IsSequence(states'[j].scopes) /\ IsSequence(states'[j].active)
    <2>1. CASE j = m + 1
      BY <1>1, <1>4, <1>5, <1>6, <2>1
    <2>2. CASE j \in 1 .. m
      BY <1>6, <2>2 DEF IInv, TypeOK, m
    <2>3. j \in 1 .. m \/ j = m + 1
      BY <1>1
    <2> QED
      BY <2>1, <2>2, <2>3
  <1>8. \A j \in 1 .. m : SameState(states'[j], states[j]) /\ SameMarks(states'[j], states[j])
    BY <1>6 DEF SameState, SameMarks
  <1>9. m \in 1 .. m /\ \A j \in 1 .. m - 1 : j \in 1 .. m
    BY <1>1
  <1>10. /\ states'[m + 1].options = its
         /\ states'[m + 1].profile = states'[m + 1].input.profile
         /\ states'[m + 1].scopes = states[m].scopes
         /\ states'[m + 1].active = active
    BY <1>1, <1>5, <1>6
  <1> QED
    BY <1>1, <1>2, <1>3, <1>6, <1>7, <1>8, <1>9, <1>10 DEF Opening, n, m
LEMMA DescendKeeps ==
  ASSUME IInv, Ready, UNCHANGED given, kind \notin {"definitions", "reference"},
         NEW caller, Continues(caller), NEW s, NEW i, NEW d,
         MayOpen(s, d, "shared", here.options), Descend(caller, here, s, i, d)
  PROVE  IInv'
  <1>1. /\ IsState(here) /\ SameState(here, here)
        /\ IsSequence(here.scopes) /\ IsSequence(here.active)
        /\ here = states[Len(states)]
    BY TopIs DEF Ready, SameState
  <1>2. Opening(s, d, "shared", here.options) /\ states'[Len(states)] = here
    BY <1>1, DescendOpens
  <1>3. SameMarks(states'[Len(states)], states[Len(states)])
    BY <1>1, <1>2 DEF SameMarks
  <1> QED
    BY <1>2, <1>3, OpeningKeeps

LEMMA BranchKeeps ==
  ASSUME IInv, Ready, UNCHANGED given, kind \notin {"definitions", "reference"},
         NEW caller, Continues(caller), NEW its, NEW s, NEW i, NEW d,
         MayOpen(s, d, "branch", its), Branch(caller, its, s, i, d)
  PROVE  IInv'
  <1>1. here.profile = here.input.profile
    BY TopIs DEF Ready
  <1>2. /\ calls' = Append(Append(Pop(calls), caller), Call(s, i, d, "branch", Len(states) + 1))
        /\ states' = Append(states, State(here.input, its, here.input.profile,
                                          here.scopes, here.active))
        /\ ret' = Pending
    BY <1>1 DEF Branch
  <1>3. Opening(s, d, "branch", its)
    BY <1>2, StateOpens
  <1> QED
    BY <1>3, OpeningKeeps

LEMMA InputKeeps ==
  ASSUME IInv, Ready, UNCHANGED given, kind \notin {"definitions", "reference"},
         NEW caller, Continues(caller), NEW arena, NEW profile, arena.profile = profile,
         NEW s, NEW d, MayOpen(s, d, "input", here.options), OpenInput(caller, arena, profile, s, d)
  PROVE  IInv'
  <1>1. CASE d + Height(arena) > MaxDepth
    <2>1. Fail(here, "recursion_limit")
      BY <1>1 DEF OpenInput
    <2> QED
      BY <2>1, FailKeeps DEF Unmarked, Ready
  <1>2. CASE ~(d + Height(arena) > MaxDepth)
    <2>1. /\ calls' = Append(Append(Pop(calls), caller),
                             Call(s, arena.root, d, "input", Len(states) + 1))
          /\ states' = Append(states, State(arena, here.options, arena.profile,
                                            here.scopes, << >>))
          /\ ret' = Pending
      BY <1>2 DEF OpenInput
    <2>2. Opening(s, d, "input", here.options)
      BY <2>1, StateOpens
    <2> QED
      BY <2>2, OpeningKeeps
  <1> QED
    BY <1>1, <1>2

(* A kid of the call's schema may be opened, one level down.               *)
LEMMA KidMayOpen ==
  ASSUME IInv, calls # << >>, ~NeedsStrict, kind \notin {"definitions", "field"},
         NEW s, IsBelow(top.schema, s), NEW home \in Homes
  PROVE  MayOpen(s, top.depth + 1, home, here.options)
  <1>1. here.options \in AllOptions
    BY TopIs
  <1>2. Handed(top, here.options, here.options)
    BY <1>1 DEF Handed, NeedsStrict, kind
  <1> QED
    BY <1>2 DEF MayOpen, Reaches, kind

(* A call continues as it is, or with a new position, list or failure.     *)
LEMMA TopContinues ==
  ASSUME IInv, calls # << >>
  PROVE  Continues(top)
  BY TopIs DEF Continues, SamePlace

LEMMA CallerContinues ==
  ASSUME NEW caller, Continues(caller)
  PROVE  /\ \A stage \in Nat : Continues([caller EXCEPT !.stage = stage])
         /\ \A list : Continues([caller EXCEPT !.kids = list])
         /\ \A code : (Enclosed(graph) => code # "schema_invalid") =>
                       Continues([caller EXCEPT !.failure = code])
         /\ \A best : Continues([caller EXCEPT !.best = best])
  BY DEF Continues, SamePlace, IsCall

(* Results are built in the values of a state, and nothing else of it.     *)
LEMMA ValuesOnly ==
  ASSUME NEW state, Alike(state), NEW values
  PROVE  Alike([state EXCEPT !.values = values])
  BY DEF Alike, IsState, SameState, SameMarks

LEMMA PushedAlike ==
  ASSUME NEW state, Alike(state), NEW kd, NEW label, NEW ids
  PROVE  Alike(Pushed(state, kd, label, ids))
  BY ValuesOnly DEF Pushed

LEMMA GiveImportKeeps ==
  ASSUME IInv, calls # << >>, UNCHANGED given, Unmarked, GiveImport
  PROVE  IInv'
  <1>1. Alike(WithImport)
    BY TopIs, ValuesOnly DEF WithImport
  <1> QED
    BY <1>1, GiveKeeps DEF GiveImport

LEMMA GiveSelectedKeeps ==
  ASSUME IInv, calls # << >>, UNCHANGED given, Unmarked, NEW candidate, GiveSelected(candidate)
  PROVE  IInv'
  <1> DEFINE selected == Selected(candidate, ~graph.static)
             state == IF selected = << >> THEN here
                      ELSE [here EXCEPT !.values = Imported(@, candidate.values)]
             ids == [k \in 1 .. Len(selected) |-> selected[k] + Len(here.values)]
             pushed == Pushed(state, "wrap", 0, ids)
             id == Len(state.values) + 1
  <1>1. Give(pushed, id)
    BY DEF GiveSelected
  <1>2. Alike(state)
    <2>1. Alike(here)
      BY TopIs
    <2>2. Alike([here EXCEPT !.values = Imported(here.values, candidate.values)])
      BY <2>1, ValuesOnly
    <2> QED
      BY <2>1, <2>2
  <1> HIDE DEF selected, state, ids
  <1>3. Alike(pushed)
    BY <1>2, PushedAlike
  <1> HIDE DEF pushed, id
  <1> QED
    BY <1>1, <1>3, GiveKeeps

(* The error a call that has just been answered keeps or hands on.         *)
LEMMA FailureIs ==
  ASSUME IInv, calls # << >>, ret # Pending, ~Succeeded
  PROVE  /\ Enclosed(graph) => ret.code # "schema_invalid"
         /\ Enclosed(graph) => FirstFailure # "schema_invalid"
  BY TopIs DEF FirstFailure, IInv, SchemaHolds, Sound, Succeeded
-----------------------------------------------------------------------------
(* A handler that starts, and one that a call has answered.                *)
LEMMA EnteringIs ==
  ASSUME IInv, NEW kd, Entering(kd)
  PROVE  /\ calls # << >> /\ ret = Pending /\ Unmarked /\ kind = kd /\ UNCHANGED given
         /\ Len(kids) \in Nat /\ Arity(kd, Len(kids))
         /\ kd # "model" \/ NeedsStrict \/ Len(kids) = Len(node.kids) => Ready
  <1>1. /\ calls # << >> /\ ret = Pending /\ Unmarked /\ kind = kd /\ UNCHANGED given
        /\ ~Exceeds(top.depth)
    BY DEF Entering, Unmarked
  <1>2. top.depth \in Nat /\ top.schema \in DOMAIN graph.kind
    BY <1>1, TopIs
  <1>3. Len(kids) \in Nat /\ Arity(kd, Len(kids))
    BY <1>1, <1>2, GraphIs, LenProperties DEF IInv, kind, kids
  <1> QED
    BY <1>1, <1>2, <1>3, DepthAssumption DEF Ready, Exceeds

LEMMA ReturningIs ==
  ASSUME IInv, NEW kd, Returning(kd)
  PROVE  /\ calls # << >> /\ ret # Pending /\ Ready /\ kind = kd /\ UNCHANGED given
         /\ Len(kids) \in Nat /\ Arity(kd, Len(kids))
         /\ kd \notin {"definitions", "reference"} => Unmarked
  <1>1. calls # << >> /\ ret # Pending /\ kind = kd /\ UNCHANGED given
    BY DEF Returning
  <1>2. top.schema \in DOMAIN graph.kind /\ Ready
    BY <1>1, TopIs
  <1>3. Len(kids) \in Nat /\ Arity(kd, Len(kids))
    BY <1>1, <1>2, GraphIs, LenProperties DEF IInv, kind, kids
  <1> QED
    BY <1>1, <1>2, <1>3 DEF Unmarked

LEMMA TooDeepInv == IInv /\ TooDeep => IInv'
  BY FailKeeps DEF TooDeep, Unmarked

LEMMA ScalarInv == IInv /\ Scalar => IInv'
  <1> SUFFICES ASSUME IInv, Scalar PROVE IInv'
    OBVIOUS
  <1>1. calls # << >> /\ Unmarked /\ UNCHANGED given
    BY EnteringIs DEF Scalar
  <1>2. CASE Give(Pushed(here, node.kind, node.label, << >>), Len(here.values) + 1)
    <2>1. Alike(Pushed(here, node.kind, node.label, << >>))
      BY <1>1, TopIs, PushedAlike
    <2> QED
      BY <1>1, <1>2, <2>1, GiveKeeps
  <1>3. CASE Fail(here, "value_error")
    BY <1>1, <1>3, FailKeeps
  <1> QED
    BY <1>2, <1>3 DEF Scalar

(* A strict model is validated again, at the same depth, in a strict       *)
(* branch, where it is not validated again.                                *)
LEMMA EnterStrictModelInv == IInv /\ EnterStrictModel => IInv'
  <1> SUFFICES ASSUME IInv, EnterStrictModel PROVE IInv'
    OBVIOUS
  <1> DEFINE its == [here.options EXCEPT !.strict = TRUE]
  <1>1. /\ NeedsStrict /\ Branch(top, its, top.schema, top.input, top.depth)
        /\ Entering("model")
    BY DEF EnterStrictModel
  <1>2. calls # << >> /\ Ready /\ kind = "model" /\ UNCHANGED given
    BY <1>1, EnteringIs
  <1>3. its \in AllOptions /\ its.override = here.options.override /\ its.strict
    BY <1>2, TopIs DEF AllOptions
  <1> HIDE DEF its
  <1>4. MayOpen(top.schema, top.depth, "branch", its)
    BY <1>1, <1>3 DEF MayOpen, Reaches, Handed, NeedsStrict, kind, Homes
  <1>5. Continues(top)
    BY <1>2, TopContinues
  <1> QED
    BY <1>1, <1>2, <1>4, <1>5, BranchKeeps

LEMMA LeaveStrictModelInv == IInv /\ LeaveStrictModel => IInv'
  <1> SUFFICES ASSUME IInv, LeaveStrictModel PROVE IInv'
    OBVIOUS
  <1>1. calls # << >> /\ ret # Pending /\ Unmarked /\ UNCHANGED given
    BY ReturningIs DEF LeaveStrictModel
  <1>2. CASE Succeeded
    BY <1>1, <1>2, GiveImportKeeps DEF LeaveStrictModel
  <1>3. CASE ~Succeeded
    BY <1>1, <1>3, FailKeeps, FailureIs DEF LeaveStrictModel
  <1> QED
    BY <1>2, <1>3

(* The next part of a sequence or a model, or its end.                     *)
LEMMA NextPartKeeps ==
  ASSUME IInv, Ready, UNCHANGED given, Unmarked, kind \in {"sequence", "model"}, ~NeedsStrict,
         NEW caller, Continues(caller), NextPart(caller)
  PROVE  IInv'
  <1>1. /\ caller.stage \in Nat /\ caller.depth = top.depth
        /\ Enclosed(graph) => caller.failure # "schema_invalid"
    BY DEF Continues, SamePlace
  <1>2. /\ calls # << >> /\ top.schema \in DOMAIN graph.kind
        /\ kind = "model" => Len(kids) = Len(node.kids)
    BY TopIs DEF Ready
  <1>3. Len(kids) \in Nat /\ (kind = "sequence" => Len(kids) = 1)
    BY <1>2, GraphIs, LenProperties DEF IInv, kind, kids, Arity
  <1>4. CASE caller.stage < Len(node.kids)
    <2> DEFINE next == [caller EXCEPT !.stage = @ + 1]
               s == PartSchema(caller.stage + 1)
               i == node.kids[caller.stage + 1]
    <2>1. Descend(next, here, s, i, top.depth + 1)
      BY <1>1, <1>4 DEF NextPart
    <2>2. Continues(next)
      BY <1>1, CallerContinues
    <2>3. IsBelow(top.schema, s)
      <3>1. CASE kind = "model"
        <4>1. caller.stage + 1 \in 1 .. Len(kids)
          BY <1>1, <1>2, <1>3, <1>4, <3>1
        <4> QED
          BY <3>1, <4>1 DEF PartSchema, IsBelow, kids
      <3>2. CASE kind = "sequence"
        <4>1. 1 \in 1 .. Len(kids)
          BY <1>3, <3>2
        <4> QED
          BY <3>2, <4>1 DEF PartSchema, IsBelow, kids
      <3> QED
        BY <3>1, <3>2
    <2> HIDE DEF next, s, i
    <2>4. MayOpen(s, top.depth + 1, "shared", here.options)
      BY <1>2, <2>3, KidMayOpen DEF Homes
    <2> QED
      BY <2>1, <2>2, <2>4, DescendKeeps
  <1>5. CASE ~(caller.stage < Len(node.kids)) /\ caller.failure # "none"
    <2>1. Fail(here, caller.failure)
      BY <1>5 DEF NextPart
    <2> QED
      BY <1>1, <1>2, <2>1, FailKeeps
  <1>6. CASE ~(caller.stage < Len(node.kids)) /\ caller.failure = "none"
    <2>1. Give(Pushed(here, "sequence", node.label, caller.kids), Len(here.values) + 1)
      BY <1>6 DEF NextPart
    <2>2. Alike(Pushed(here, "sequence", node.label, caller.kids))
      BY <1>2, TopIs, PushedAlike
    <2> QED
      BY <1>2, <2>1, <2>2, GiveKeeps
  <1> QED
    BY <1>4, <1>5, <1>6

LEMMA EnterAggregateInv == IInv /\ EnterAggregate => IInv'
  <1> SUFFICES ASSUME IInv, EnterAggregate PROVE IInv'
    OBVIOUS
  <1>1. PICK kd \in {"sequence", "model"} :
          /\ Entering(kd) /\ ~NeedsStrict
          /\ IF Fits THEN NextPart(top) ELSE Fail(here, "value_error")
    BY DEF EnterAggregate
  <1>2. /\ calls # << >> /\ Unmarked /\ UNCHANGED given /\ kind = kd
        /\ kd # "model" \/ Len(kids) = Len(node.kids) => Ready
    BY <1>1, EnteringIs
  <1>3. CASE Fits
    <2>1. Ready /\ NextPart(top) /\ Continues(top)
      BY <1>1, <1>2, <1>3, TopContinues DEF Fits
    <2> QED
      BY <1>1, <1>2, <2>1, NextPartKeeps
  <1>4. CASE ~Fits
    BY <1>1, <1>2, <1>4, FailKeeps
  <1> QED
    BY <1>3, <1>4

LEMMA LeavePartInv == IInv /\ LeavePart => IInv'
  <1> SUFFICES ASSUME IInv, LeavePart PROVE IInv'
    OBVIOUS
  <1>1. PICK kd \in {"sequence", "model"} :
          /\ Returning(kd) /\ ~NeedsStrict
          /\ IF Succeeded THEN NextPart([top EXCEPT !.kids = Append(@, ret.id)])
             ELSE \/ NextPart([top EXCEPT !.failure = FirstFailure])
                  \/ Fail(here, FirstFailure)
    BY DEF LeavePart
  <1>2. calls # << >> /\ ret # Pending /\ Ready /\ Unmarked /\ UNCHANGED given /\ kind = kd
    BY <1>1, ReturningIs
  <1>3. Continues(top)
    BY <1>2, TopContinues
  <1>4. CASE Succeeded
    <2> DEFINE caller == [top EXCEPT !.kids = Append(@, ret.id)]
    <2>1. Continues(caller)
      BY <1>3, CallerContinues DEF Continues
    <2>2. NextPart(caller)
      BY <1>1, <1>4
    <2> HIDE DEF caller
    <2> QED
      BY <1>1, <1>2, <2>1, <2>2, NextPartKeeps
  <1>5. CASE ~Succeeded
    <2>1. Enclosed(graph) => FirstFailure # "schema_invalid"
      BY <1>2, <1>5, FailureIs
    <2> DEFINE caller == [top EXCEPT !.failure = FirstFailure]
    <2>2. Continues(caller)
      BY <1>3, <2>1, CallerContinues
    <2>3. NextPart(caller) \/ Fail(here, FirstFailure)
      BY <1>1, <1>5
    <2> HIDE DEF caller
    <2> QED
      BY <1>1, <1>2, <2>1, <2>2, <2>3, NextPartKeeps, FailKeeps
  <1> QED
    BY <1>4, <1>5
(* A kid validated in a branch of its own. *)
LEMMA BranchToKid ==
  ASSUME IInv, Ready, UNCHANGED given, ~NeedsStrict,
         kind \notin {"definitions", "reference", "field"},
         NEW caller, Continues(caller), NEW j \in 1 .. Len(kids), NEW i, NEW d, d = top.depth + 1,
         Branch(caller, here.options, kids[j], i, d)
  PROVE  IInv'
  <1>1. IsBelow(top.schema, kids[j])
    BY DEF IsBelow, kids
  <1>2. MayOpen(kids[j], d, "branch", here.options)
    BY <1>1, KidMayOpen DEF Ready, Homes
  <1> QED
    BY <1>2, BranchKeeps

LEMMA EnterNullableInv == IInv /\ EnterNullable => IInv'
  <1> SUFFICES ASSUME IInv, EnterNullable PROVE IInv'
    OBVIOUS
  <1>1. /\ calls # << >> /\ Ready /\ Unmarked /\ kind = "nullable" /\ UNCHANGED given
        /\ Len(kids) = 1
    BY EnteringIs DEF EnterNullable, Arity
  <1>2. CASE node.kind = "null"
    <2>1. Give(Pushed(here, "wrap", 0, << >>), Len(here.values) + 1)
      BY <1>2 DEF EnterNullable
    <2>2. Alike(Pushed(here, "wrap", 0, << >>))
      BY <1>1, TopIs, PushedAlike
    <2> QED
      BY <1>1, <2>1, <2>2, GiveKeeps
  <1>3. CASE node.kind # "null"
    <2>1. Branch(top, here.options, kids[1], top.input, top.depth + 1)
      BY <1>3 DEF EnterNullable
    <2>2. Continues(top) /\ 1 \in 1 .. Len(kids)
      BY <1>1, TopContinues
    <2>3. ~NeedsStrict
      BY <1>1 DEF NeedsStrict
    <2> QED
      BY <1>1, <2>1, <2>2, <2>3, BranchToKid
  <1> QED
    BY <1>2, <1>3

LEMMA LeaveNullableInv == IInv /\ LeaveNullable => IInv'
  <1> SUFFICES ASSUME IInv, LeaveNullable PROVE IInv'
    OBVIOUS
  <1>1. calls # << >> /\ ret # Pending /\ Unmarked /\ UNCHANGED given
    BY ReturningIs DEF LeaveNullable
  <1>2. CASE Succeeded
    BY <1>1, <1>2, GiveSelectedKeeps DEF LeaveNullable
  <1>3. CASE ~Succeeded
    BY <1>1, <1>3, FailKeeps, FailureIs DEF LeaveNullable
  <1> QED
    BY <1>2, <1>3

LEMMA NextChoiceKeeps ==
  ASSUME IInv, Ready, UNCHANGED given, Unmarked, kind = "union", Len(kids) \in Nat,
         NEW caller, Continues(caller), NextChoice(caller)
  PROVE  IInv'
  <1>1. /\ caller.stage \in Nat /\ caller.depth = top.depth /\ calls # << >>
        /\ Enclosed(graph) => caller.failure # "schema_invalid"
    BY DEF Continues, SamePlace, Ready
  <1>2. CASE caller.stage < Len(kids)
    <2> DEFINE next == [caller EXCEPT !.stage = @ + 1]
               j == caller.stage + 1
               i == caller.input
    <2>1. Branch(next, here.options, kids[j], i, top.depth + 1)
      BY <1>1, <1>2 DEF NextChoice
    <2>2. Continues(next) /\ j \in 1 .. Len(kids)
      BY <1>1, <1>2, CallerContinues
    <2>3. ~NeedsStrict
      BY DEF NeedsStrict
    <2> HIDE DEF next, j, i
    <2> QED
      BY <2>1, <2>2, <2>3, BranchToKid
  <1>3. CASE ~(caller.stage < Len(kids)) /\ caller.best # << >>
    <2>1. GiveSelected(caller.best[1])
      BY <1>3 DEF NextChoice
    <2> QED
      BY <1>1, <2>1, GiveSelectedKeeps
  <1>4. CASE ~(caller.stage < Len(kids)) /\ caller.best = << >>
    <2>1. Fail(here, caller.failure)
      BY <1>4 DEF NextChoice
    <2> QED
      BY <1>1, <2>1, FailKeeps
  <1> QED
    BY <1>2, <1>3, <1>4

LEMMA EnterUnionInv == IInv /\ EnterUnion => IInv'
  <1> SUFFICES ASSUME IInv, EnterUnion PROVE IInv'
    OBVIOUS
  <1>1. /\ calls # << >> /\ Ready /\ Unmarked /\ kind = "union" /\ UNCHANGED given
        /\ Len(kids) \in Nat
    BY EnteringIs DEF EnterUnion
  <1>2. Continues(top)
    BY <1>1, TopContinues
  <1> QED
    BY <1>1, <1>2, NextChoiceKeeps DEF EnterUnion

LEMMA LeaveChoiceInv == IInv /\ LeaveChoice => IInv'
  <1> SUFFICES ASSUME IInv, LeaveChoice PROVE IInv'
    OBVIOUS
  <1>1. /\ calls # << >> /\ ret # Pending /\ Ready /\ Unmarked /\ kind = "union"
        /\ UNCHANGED given /\ Len(kids) \in Nat
    BY ReturningIs DEF LeaveChoice
  <1>2. Continues(top)
    BY <1>1, TopContinues
  <1>3. CASE Succeeded
    <2>1. Continues([top EXCEPT !.best = <<ret>>])
      BY <1>2, CallerContinues
    <2> QED
      BY <1>1, <1>2, <1>3, <2>1, GiveSelectedKeeps, NextChoiceKeeps DEF LeaveChoice
  <1>4. CASE ~Succeeded
    <2>1. Enclosed(graph) => FirstFailure # "schema_invalid"
      BY <1>1, <1>4, FailureIs
    <2>2. Continues([top EXCEPT !.failure = FirstFailure])
      BY <1>2, <2>1, CallerContinues
    <2> QED
      BY <1>1, <1>4, <2>2, NextChoiceKeeps DEF LeaveChoice
  <1> QED
    BY <1>3, <1>4

-----------------------------------------------------------------------------
(* Definitions and references leave their marks in the state they work in. *)
LEMMA EnterDefinitionsInv == IInv /\ EnterDefinitions => IInv'
  <1> SUFFICES ASSUME IInv, EnterDefinitions PROVE IInv'
    OBVIOUS
  <1> DEFINE state == [here EXCEPT !.scopes = Append(@, top.schema)]
             s == kids[1]
  <1>1. /\ calls # << >> /\ ret = Pending /\ Ready /\ kind = "definitions" /\ UNCHANGED given
        /\ Descend(top, state, s, top.input, top.depth)
    BY EnteringIs DEF EnterDefinitions
  <1>2. IsState(here) /\ IsSequence(here.scopes) /\ IsSequence(here.active) /\ Continues(top)
    BY <1>1, TopIs, TopContinues
  <1>3. /\ IsState(state) /\ SameState(state, here)
        /\ state.scopes = Append(here.scopes, top.schema) /\ state.active = here.active
    BY <1>2 DEF IsState, SameState
  <1>4. IsSequence(state.scopes) /\ IsSequence(state.active)
    BY <1>2, <1>3, AppendIs
  <1>5. MayOpen(s, top.depth, "shared", here.options)
    BY <1>1, TopIs DEF MayOpen, Reaches, Handed, Homes, kind, kids
  <1> HIDE DEF state, s
  <1>6. Opening(s, top.depth, "shared", here.options) /\ states'[Len(states)] = state
    BY <1>1, <1>2, <1>3, <1>4, DescendOpens
  <1>7. FollowsAnew
    BY <1>1 DEF FollowsAnew
  <1> QED
    BY <1>1, <1>3, <1>5, <1>6, <1>7, OpeningMarked

(* The error of a reference that is not declared is one of a schema with a *)
(* reference outside of definitions.                                       *)
LEMMA DeclaredWithin ==
  ASSUME IInv, calls # << >>, kind = "reference", Enclosed(graph)
  PROVE  Declared(kids[1])
  <1> SUFFICES ASSUME ~graph.static
               PROVE  \E k \in 1 .. Len(here.scopes) : kids[1] \in graph.declares[here.scopes[k]]
    BY DEF Declared
  <1>1. /\ Len(calls) \in Nat \ {0} /\ Len(states) \in Nat \ {0}
        /\ top = calls[Len(calls)] /\ here = states[Len(states)] /\ top.state = Len(states)
    BY TopIs
  <1> PICK n \in Nat : n = Len(calls)
    BY <1>1
  <1> PICK m \in Nat : m = Len(states)
    BY <1>1
  <1>2. n \in 1 .. n /\ m \in 1 .. m
    BY <1>1
  <1>3. PlacedAt(n) /\ graph.kind[calls[n].schema] = "reference"
    BY <1>1, <1>2 DEF IInv, Placed, kind
  <1>4. calls[n].schema \notin Outside(graph)
    BY <1>3, OutsideIs DEF OutsideOf
  <1>5. PICK d \in 1 .. n - 1 : /\ KindOf(d) = "definitions"
                                /\ calls[n].schema \in Inside(graph, calls[d].schema)
    BY <1>3, <1>4 DEF PlacedAt
  <1>6. d \in 1 .. n /\ d < n /\ Entered(d)
    BY <1>2, <1>5 DEF Entered
  <1>7. calls[d].schema \in DOMAIN graph.kind /\ calls[d].state \in 1 .. m
    BY <1>6 DEF IInv, TypeOK
  <1>8. kids[1] \in graph.declares[calls[d].schema]
    <2>1. EnclosedBy(graph, calls[d].schema, Inside(graph, calls[d].schema))
      BY <1>5, <1>7, InsideIs DEF IInv, KindOf
    <2> QED
      BY <1>1, <1>3, <1>5, <2>1 DEF EnclosedBy, kids
  <1> DEFINE open == OpenAround(m, "definitions")
             entry == [c \in open |-> calls[c].schema]
  <1>9. d \in open
    BY <1>5, <1>6, <1>7 DEF OpenAround, KindOf
  <1>10. Lists(here.scopes, open, entry) /\ entry[d] = calls[d].schema
    BY <1>1, <1>2, <1>9, BracketsAre DEF IInv, ScopesMatch
  <1> HIDE DEF open, entry
  <1>11. PICK k \in 1 .. Len(here.scopes) : here.scopes[k] = entry[d]
    BY <1>9, <1>10 DEF Lists
  <1> QED
    BY <1>8, <1>10, <1>11

(* A reference that is not active in a state is followed by no call that   *)
(* is open on the input of the state.                                      *)
LEMMA InactiveIsNew ==
  ASSUME IInv, calls # << >>, kind = "reference", ~IsActive(<<top.input, kids[1]>>)
  PROVE  FollowsAnew
  <1>1. /\ Len(calls) \in Nat \ {0} /\ Len(states) \in Nat \ {0}
        /\ top = calls[Len(calls)] /\ here = states[Len(states)] /\ top.state = Len(states)
    BY TopIs
  <1> PICK n \in Nat : n = Len(calls)
    BY <1>1
  <1> PICK m \in Nat : m = Len(states)
    BY <1>1
  <1>2. m \in 1 .. m /\ Followed(n) = <<top.input, kids[1]>>
    BY <1>1 DEF Followed, kids
  <1> SUFFICES ASSUME NEW c \in 1 .. n - 1, KindOf(c) = "reference",
                      \A e \in c + 1 .. n : calls[e].home # "input"
               PROVE  Followed(c) # Followed(n)
    BY DEF FollowsAnew
  <1>3. c \in 1 .. n /\ Entered(c) /\ calls[c].state \in 1 .. m
    <2>1. c \in 1 .. n /\ c < n
      OBVIOUS
    <2> QED
      BY <2>1 DEF Entered, IInv, TypeOK
  <1>4. c \in Following(m)
    BY <1>3 DEF Following, OpenAround, OnInputOf, KindOf
  <1> DEFINE entry == [b \in Following(m) |-> Followed(b)]
  <1>5. Lists(here.active, Following(m), entry) /\ entry[c] = Followed(c)
    BY <1>1, <1>2, <1>4, BracketsAre DEF IInv, ActiveMatch
  <1> HIDE DEF entry
  <1>6. PICK k \in 1 .. Len(here.active) : here.active[k] = entry[c]
    BY <1>4, <1>5 DEF Lists
  <1> QED
    BY <1>2, <1>5, <1>6 DEF IsActive

LEMMA EnterReferenceInv == IInv /\ EnterReference => IInv'
  <1> SUFFICES ASSUME IInv, EnterReference PROVE IInv'
    OBVIOUS
  <1> DEFINE followed == <<top.input, kids[1]>>
             state == [here EXCEPT !.active = Append(@, followed)]
             s == kids[1]
  <1>1. /\ calls # << >> /\ ret = Pending /\ Ready /\ Unmarked /\ kind = "reference"
        /\ UNCHANGED given /\ Len(kids) = 1
    BY EnteringIs DEF EnterReference, Arity
  <1>2. CASE ~Declared(kids[1])
    <2>1. ~Enclosed(graph) /\ Fail(here, "schema_invalid")
      BY <1>1, <1>2, DeclaredWithin DEF EnterReference
    <2> QED
      BY <1>1, <2>1, FailKeeps
  <1>3. CASE Declared(kids[1]) /\ IsActive(followed)
    <2>1. Fail(here, "recursion_loop")
      BY <1>3 DEF EnterReference
    <2> QED
      BY <1>1, <2>1, FailKeeps
  <1>4. CASE Declared(kids[1]) /\ ~IsActive(followed)
    <2>1. Descend(top, state, s, top.input, top.depth + 1)
      BY <1>4 DEF EnterReference
    <2>2. FollowsAnew
      BY <1>1, <1>4, InactiveIsNew
    <2>3. /\ IsState(here) /\ IsSequence(here.scopes) /\ IsSequence(here.active) /\ Continues(top)
          /\ top = calls[Len(calls)]
      BY <1>1, TopIs, TopContinues
    <2>4. followed = Followed(Len(calls))
      BY <2>3 DEF Followed, kids
    <2>5. IsBelow(top.schema, s) /\ ~NeedsStrict
      BY <1>1 DEF IsBelow, kids, NeedsStrict
    <2> HIDE DEF followed, s
    <2>6. /\ IsState(state) /\ SameState(state, here)
          /\ state.scopes = here.scopes /\ state.active = Append(here.active, followed)
      BY <2>3 DEF IsState, SameState
    <2>7. IsSequence(state.scopes) /\ IsSequence(state.active)
      BY <2>3, <2>6, AppendIs
    <2>8. MayOpen(s, top.depth + 1, "shared", here.options)
      BY <1>1, <2>5, KidMayOpen DEF Homes
    <2> HIDE DEF state
    <2>9. Opening(s, top.depth + 1, "shared", here.options) /\ states'[Len(states)] = state
      BY <1>1, <2>1, <2>3, <2>6, <2>7, DescendOpens
    <2> QED
      BY <1>1, <2>2, <2>4, <2>6, <2>8, <2>9, OpeningMarked
  <1> QED
    BY <1>2, <1>3, <1>4
(* What the call below returned is passed on, and the own mark taken back. *)
LEMMA PassOnKeeps ==
  ASSUME IInv, calls # << >>, ret # Pending, UNCHANGED given, NEW state, PassOn(state),
         IsState(state), SameState(state, here),
         IsSequence(state.scopes), IsSequence(state.active),
         state.scopes = IF kind = "definitions" /\ ret # Pending THEN Pop(here.scopes)
                        ELSE here.scopes,
         state.active = IF kind = "reference" /\ ret # Pending THEN Pop(here.active)
                        ELSE here.active
  PROVE  IInv'
  <1>1. PICK result : GiveWith(state, result) /\ result # Pending /\ Sound(result)
    <2>1. CASE Succeeded
      <3> DEFINE result == Returned(ret.id, IF top.home = "shared" THEN << >> ELSE state.values)
      <3>1. GiveWith(state, result) /\ result.outcome = "ok"
        BY <2>1 DEF PassOn, Give, Returned
      <3> HIDE DEF result
      <3> QED
        BY <3>1 DEF Pending, Sound
    <2>2. CASE ~Succeeded
      <3>1. Enclosed(graph) => ret.code # "schema_invalid"
        BY <2>2, FailureIs
      <3>2. GiveWith(state, Failed(Overridden(ret.code)))
        BY <2>2 DEF PassOn, Fail
      <3> QED
        BY <3>1, <3>2, FailedIs
    <2> QED
      BY <2>1, <2>2
  <1> QED
    BY <1>1, GiveWithKeeps

LEMMA LeaveDefinitionsInv == IInv /\ LeaveDefinitions => IInv'
  <1> SUFFICES ASSUME IInv, LeaveDefinitions PROVE IInv'
    OBVIOUS
  <1> DEFINE state == [here EXCEPT !.scopes = Pop(@)]
  <1>1. /\ calls # << >> /\ ret # Pending /\ kind = "definitions" /\ UNCHANGED given
        /\ PassOn(state)
    BY ReturningIs DEF LeaveDefinitions
  <1>2. /\ Len(calls) \in Nat \ {0} /\ Len(states) \in Nat \ {0}
        /\ top = calls[Len(calls)] /\ here = states[Len(states)] /\ top.state = Len(states)
        /\ IsState(here) /\ IsSequence(here.scopes) /\ IsSequence(here.active)
    BY <1>1, TopIs
  <1>3. here.scopes # << >>
    <2> DEFINE m == Len(states)
               open == OpenAround(m, "definitions")
               entry == [c \in open |-> calls[c].schema]
    <2>1. Len(calls) \in open
      BY <1>1, <1>2 DEF OpenAround, Entered, kind
    <2>2. m \in 1 .. m
      BY <1>2
    <2>3. Lists(here.scopes, open, entry)
      BY <1>2, <2>2, BracketsAre DEF IInv, ScopesMatch
    <2> HIDE DEF open, entry
    <2>4. \E k \in 1 .. Len(here.scopes) : TRUE
      BY <2>1, <2>3 DEF Lists
    <2> QED
      BY <2>4, EmptySeq
  <1>4. /\ IsState(state) /\ SameState(state, here)
        /\ state.scopes = Pop(here.scopes) /\ state.active = here.active
    BY <1>2 DEF IsState, SameState
  <1>5. IsSequence(state.scopes) /\ IsSequence(state.active)
    <2>1. IsSequence(Pop(here.scopes))
      BY <1>2, <1>3, PopIs
    <2> HIDE DEF state
    <2> QED
      BY <1>2, <1>4, <2>1
  <1> HIDE DEF state
  <1> QED
    BY <1>1, <1>4, <1>5, PassOnKeeps

(* The last entry of active is the one of the innermost reference.         *)
LEMMA WithoutIs ==
  ASSUME IInv, calls # << >>, ret # Pending, kind = "reference"
  PROVE  LET state == Without(<<top.input, kids[1]>>)
         IN  /\ IsState(state) /\ SameState(state, here) /\ here.active # << >>
             /\ state.scopes = here.scopes /\ state.active = Pop(here.active)
  <1> DEFINE followed == <<top.input, kids[1]>>
             size == Len(here.active)
             last == CHOOSE k \in 1 .. size :
                       /\ here.active[k] = followed
                       /\ \A j \in k + 1 .. size : here.active[j] # followed
             without == [here EXCEPT !.active = SubSeq(@, 1, last - 1) \o SubSeq(@, last + 1, Len(@))]
  <1>1. /\ Len(calls) \in Nat \ {0} /\ Len(states) \in Nat \ {0}
        /\ top = calls[Len(calls)] /\ here = states[Len(states)] /\ top.state = Len(states)
        /\ IsState(here) /\ IsSequence(here.scopes) /\ IsSequence(here.active)
    BY TopIs
  <1> PICK n \in Nat : n = Len(calls)
    BY <1>1
  <1> PICK m \in Nat : m = Len(states)
    BY <1>1
  <1>2. n \in 1 .. n /\ m \in 1 .. m /\ followed = Followed(n)
    BY <1>1 DEF Followed, kids
  <1>3. here.active # << >> /\ here.active[size] = followed
    <2> DEFINE open == Following(m)
               entry == [c \in open |-> Followed(c)]
               list == here.active
    <2>1. n \in open
      BY <1>1, <1>2 DEF Following, OpenAround, OnInputOf, Entered, kind
    <2>2. open \in SUBSET (1 .. n)
      BY DEF Following, OpenAround
    <2>3. IsSequence(list) /\ Lists(list, open, entry) /\ entry[n] = followed
      BY <1>1, <1>2, <2>1, BracketsAre DEF IInv, ActiveMatch
    <2>4. open \in SUBSET Int /\ \A c \in open : c <= n
      BY <2>2
    <2> HIDE DEF open, entry, list, followed, last, without
    <2>5. list # << >> /\ list[Len(list)] = entry[n]
      BY <2>1, <2>3, <2>4, ListsLast
    <2> QED
      BY <2>3, <2>5 DEF list
  <1>4. size \in Nat \ {0}
    BY <1>1, <1>3, LengthIs
  <1>5. last = size
    <2>1. /\ size \in 1 .. size /\ here.active[size] = followed
          /\ \A j \in size + 1 .. size : here.active[j] # followed
      BY <1>3, <1>4
    <2>2. /\ last \in 1 .. size /\ here.active[last] = followed
          /\ \A j \in last + 1 .. size : here.active[j] # followed
      BY <2>1
    <2> HIDE DEF last
    <2>3. last < size => FALSE
      BY <1>4, <2>1, <2>2
    <2> QED
      BY <1>4, <2>2, <2>3
  <1>6. Without(followed) = without
    <2>1. IsActive(followed)
      BY <1>3, <1>4 DEF IsActive
    <2> QED
      BY <2>1 DEF Without
  <1>7. SubSeq(here.active, 1, size - 1) \o SubSeq(here.active, size + 1, size) = Pop(here.active)
    <2>1. IsSequence(Pop(here.active))
      BY <1>1, <1>3, PopIs
    <2>2. SubSeq(here.active, size + 1, size) = << >>
      <3> DEFINE R == {here.active[i] : i \in 1 .. size}
                 list == here.active
      <3>1. \A i \in size + 1 .. size : list[i] \in R
        BY <1>4
      <3>2. size + 1 \in Int /\ size \in Int /\ ~(size + 1 <= size)
        BY <1>4
      <3> HIDE DEF R, size, list
      <3>3. /\ SubSeq(list, size + 1, size) \in Seq(R)
            /\ Len(SubSeq(list, size + 1, size)) = 0
        BY <3>1, <3>2, SubSeqProperties
      <3> QED
        BY <3>3, EmptySeq DEF list
    <2> QED
      BY <2>1, <2>2, ConcatEmptySeq DEF Pop, IsSequence
  <1>8. /\ IsState(without) /\ SameState(without, here) /\ without.scopes = here.scopes
        /\ without.active = Pop(here.active)
    <2> DEFINE shorter == SubSeq(here.active, 1, last - 1) \o SubSeq(here.active, last + 1, size)
    <2>1. shorter = Pop(here.active)
      BY <1>5, <1>7
    <2>2. without = [here EXCEPT !.active = shorter]
      OBVIOUS
    <2> HIDE DEF last, followed, size, shorter, without
    <2> QED
      BY SMTT(30), <1>1, <2>1, <2>2 DEF IsState, SameState
  <1> QED
    BY Zenon, <1>3, <1>6, <1>8 DEF followed

LEMMA LeaveReferenceInv == IInv /\ LeaveReference => IInv'
  <1> SUFFICES ASSUME IInv, LeaveReference PROVE IInv'
    OBVIOUS
  <1> DEFINE state == Without(<<top.input, kids[1]>>)
  <1>1. /\ calls # << >> /\ ret # Pending /\ kind = "reference" /\ UNCHANGED given
        /\ PassOn(state)
    BY ReturningIs DEF LeaveReference
  <1>2. /\ IsState(state) /\ SameState(state, here) /\ here.active # << >>
        /\ state.scopes = here.scopes /\ state.active = Pop(here.active)
    BY <1>1, WithoutIs
  <1>3. IsSequence(here.scopes) /\ IsSequence(here.active)
    BY <1>1, TopIs
  <1>4. IsSequence(state.scopes) /\ IsSequence(state.active)
    BY <1>2, <1>3, PopIs
  <1> HIDE DEF state
  <1> QED
    BY <1>1, <1>2, <1>4, PassOnKeeps

-----------------------------------------------------------------------------
(* A field with an option: in a branch that has it, or as it is.           *)
LEMMA EnterFieldInv == IInv /\ EnterField => IInv'
  <1> SUFFICES ASSUME IInv, EnterField PROVE IInv'
    OBVIOUS
  <1> DEFINE its == [here.options EXCEPT !.override = graph.option[top.schema]]
             s == kids[1]
  <1>1. /\ calls # << >> /\ Ready /\ kind = "field" /\ UNCHANGED given /\ Len(kids) = 1
        /\ kind \notin {"definitions", "reference"}
    BY EnteringIs DEF EnterField, Arity
  <1>2. /\ Continues(top) /\ here.options \in AllOptions
        /\ graph.option[top.schema] \in {"strict", "lax"}
    BY <1>1, TopIs, TopContinues, GraphIs DEF IInv, kind
  <1>3. CASE Opted
    <2>1. Branch(top, its, s, top.input, top.depth)
      BY <1>3 DEF EnterField
    <2>2. /\ its \in AllOptions /\ its.override = graph.option[top.schema]
          /\ its.strict = here.options.strict
      BY <1>2 DEF AllOptions
    <2>3. s = graph.kids[top.schema][1]
      BY DEF kids
    <2> HIDE DEF its, s
    <2>4. MayOpen(s, top.depth, "branch", its)
      BY <1>1, <1>3, <2>2, <2>3 DEF MayOpen, Reaches, Handed, Homes, kind, Opted
    <2> QED
      BY <1>1, <1>2, <2>1, <2>4, BranchKeeps
  <1>4. CASE ~Opted
    <2>1. Descend(top, here, s, top.input, top.depth)
      BY <1>4 DEF EnterField
    <2>2. s = graph.kids[top.schema][1]
      BY DEF kids
    <2> HIDE DEF s
    <2>3. MayOpen(s, top.depth, "shared", here.options)
      BY <1>1, <1>2, <1>4, <2>2 DEF MayOpen, Reaches, Handed, Homes, kind, Opted
    <2> QED
      BY <1>1, <1>2, <2>1, <2>3, DescendKeeps
  <1> QED
    BY <1>3, <1>4

LEMMA LeaveFieldInv == IInv /\ LeaveField => IInv'
  <1> SUFFICES ASSUME IInv, LeaveField PROVE IInv'
    OBVIOUS
  <1>1. /\ calls # << >> /\ ret # Pending /\ Unmarked /\ kind = "field" /\ UNCHANGED given
    BY ReturningIs DEF LeaveField
  <1>2. CASE Opted /\ Succeeded
    BY <1>1, <1>2, GiveImportKeeps DEF LeaveField
  <1>3. CASE ~(Opted /\ Succeeded)
    <2>1. PassOn(here)
      BY <1>3 DEF LeaveField
    <2>2. /\ IsState(here) /\ SameState(here, here)
          /\ IsSequence(here.scopes) /\ IsSequence(here.active)
      BY <1>1, TopIs DEF Alike
    <2> QED
      BY <1>1, <2>1, <2>2, PassOnKeeps
  <1> QED
    BY <1>2, <1>3

-----------------------------------------------------------------------------
LEMMA EnterLaxOrStrictInv == IInv /\ EnterLaxOrStrict => IInv'
  <1> SUFFICES ASSUME IInv, EnterLaxOrStrict PROVE IInv'
    OBVIOUS
  <1> DEFINE j == IF Strictly THEN 2 ELSE 1
  <1>1. /\ calls # << >> /\ Ready /\ kind = "lax_or_strict" /\ UNCHANGED given /\ Len(kids) = 2
        /\ Branch(top, here.options, kids[j], top.input, top.depth + 1)
    BY EnteringIs DEF EnterLaxOrStrict, Arity
  <1>2. j \in 1 .. Len(kids)
    BY <1>1
  <1>3. Continues(top) /\ ~NeedsStrict
    BY <1>1, TopContinues DEF NeedsStrict
  <1> HIDE DEF j
  <1> QED
    BY <1>1, <1>2, <1>3, BranchToKid

LEMMA EnterJsonOrStructuralInv == IInv /\ EnterJsonOrStructural => IInv'
  <1> SUFFICES ASSUME IInv, EnterJsonOrStructural PROVE IInv'
    OBVIOUS
  <1> DEFINE j == IF here.profile = "json" THEN 1 ELSE 2
  <1>1. /\ calls # << >> /\ Ready /\ kind = "json_or_structural" /\ UNCHANGED given
        /\ Len(kids) = 2
        /\ Branch(top, here.options, kids[j], top.input, top.depth + 1)
    BY EnteringIs DEF EnterJsonOrStructural, Arity
  <1>2. j \in 1 .. Len(kids)
    BY <1>1
  <1>3. Continues(top) /\ ~NeedsStrict
    BY <1>1, TopContinues DEF NeedsStrict
  <1> HIDE DEF j
  <1> QED
    BY <1>1, <1>2, <1>3, BranchToKid

LEMMA LeaveControlInv == IInv /\ LeaveControl => IInv'
  <1> SUFFICES ASSUME IInv, LeaveControl PROVE IInv'
    OBVIOUS
  <1>1. PICK kd \in {"lax_or_strict", "json_or_structural"} :
          Returning(kd) /\ IF Succeeded THEN GiveImport ELSE Fail(here, ret.code)
    BY DEF LeaveControl
  <1>2. calls # << >> /\ ret # Pending /\ Unmarked /\ UNCHANGED given
    BY <1>1, ReturningIs
  <1>3. CASE Succeeded
    BY <1>1, <1>2, <1>3, GiveImportKeeps
  <1>4. CASE ~Succeeded
    BY <1>1, <1>2, <1>4, FailKeeps, FailureIs
  <1> QED
    BY <1>3, <1>4

(* The steps of a chain: the first in a branch, each other one on the      *)
(* value of the one before.                                                *)
LEMMA ChainedContinues ==
  ASSUME IInv, calls # << >>
  PROVE  Continues(Chained(top))
  <1>1. Continues(top) /\ top.stage + 1 \in Nat
    BY TopIs, TopContinues
  <1>2. Continues([top EXCEPT !.stage = top.stage + 1])
    BY <1>1, CallerContinues
  <1> QED
    BY <1>2 DEF Chained

LEMMA EnterChainInv == IInv /\ EnterChain => IInv'
  <1> SUFFICES ASSUME IInv, EnterChain PROVE IInv'
    OBVIOUS
  <1>1. /\ calls # << >> /\ Ready /\ kind = "chain" /\ UNCHANGED given
        /\ Len(kids) \in Nat /\ Len(kids) > 0
        /\ Branch(Chained(top), here.options, kids[1], top.input, top.depth + 1)
    BY EnteringIs DEF EnterChain, Arity
  <1>2. 1 \in 1 .. Len(kids)
    BY <1>1
  <1>3. Continues(Chained(top)) /\ ~NeedsStrict
    BY <1>1, ChainedContinues DEF NeedsStrict
  <1> QED
    BY <1>1, <1>2, <1>3, BranchToKid

LEMMA HandoffIs == \A result, profile : Handoff(result, profile).profile = profile
  BY Zenon DEF Handoff

LEMMA LeaveStepInv == IInv /\ LeaveStep => IInv'
  <1> SUFFICES ASSUME IInv, LeaveStep PROVE IInv'
    OBVIOUS
  <1>1. /\ calls # << >> /\ ret # Pending /\ Ready /\ Unmarked /\ kind = "chain"
        /\ UNCHANGED given /\ Len(kids) \in Nat
    BY ReturningIs DEF LeaveStep
  <1>2. CASE ~Succeeded
    BY <1>1, <1>2, FailKeeps, FailureIs DEF LeaveStep
  <1>3. CASE Succeeded /\ top.stage < Len(kids)
    <2> DEFINE s == kids[top.stage + 1]
               arena == Handoff(ret, here.profile)
               profile == here.profile
    <2>1. OpenInput(Chained(top), arena, profile, s, top.depth + 1)
      BY <1>3 DEF LeaveStep
    <2>2. top.stage + 1 \in 1 .. Len(kids)
      BY <1>1, <1>3, TopIs
    <2>3. IsBelow(top.schema, s) /\ ~NeedsStrict
      BY <1>1, <2>2 DEF IsBelow, kids, NeedsStrict
    <2>4. Continues(Chained(top)) /\ arena.profile = profile
      BY <1>1, ChainedContinues, HandoffIs
    <2> HIDE DEF s, arena, profile
    <2>5. MayOpen(s, top.depth + 1, "input", here.options)
      BY <1>1, <2>3, KidMayOpen DEF Homes
    <2> QED
      BY <1>1, <2>1, <2>4, <2>5, InputKeeps
  <1>4. CASE Succeeded /\ ~(top.stage < Len(kids))
    BY <1>1, <1>4, GiveImportKeeps DEF LeaveStep
  <1> QED
    BY <1>2, <1>3, <1>4
(* Functions: without callbacks the value alone, otherwise the callback's  *)
(* argument and then its output.                                           *)
LEMMA SkipFunctionInv == IInv /\ SkipFunction => IInv'
  <1> SUFFICES ASSUME IInv, SkipFunction PROVE IInv'
    OBVIOUS
  <1>1. PICK kd \in Functions :
          /\ Entering(kd)
          /\ Descend(top, here, kids[IF kd = "function_after" THEN 1 ELSE 2], top.input, top.depth + 1)
    BY DEF SkipFunction
  <1> DEFINE j == IF kd = "function_after" THEN 1 ELSE 2
             s == kids[j]
  <1>2. /\ calls # << >> /\ Ready /\ kind = kd /\ kd \in Functions /\ UNCHANGED given
        /\ Len(kids) = 2
    BY <1>1, EnteringIs DEF Arity, Functions
  <1>3. j \in 1 .. Len(kids)
    BY <1>2
  <1>4. IsBelow(top.schema, s) /\ ~NeedsStrict /\ Continues(top)
        /\ kind \notin {"definitions", "reference", "field"}
    BY <1>2, <1>3, TopContinues DEF IsBelow, kids, NeedsStrict, Functions
  <1>5. Descend(top, here, s, top.input, top.depth + 1)
    BY <1>1
  <1> HIDE DEF j, s
  <1>6. MayOpen(s, top.depth + 1, "shared", here.options)
    BY <1>2, <1>4, KidMayOpen DEF Homes
  <1> QED
    BY <1>2, <1>4, <1>5, <1>6, DescendKeeps

LEMMA LeaveSkippedInv == IInv /\ LeaveSkipped => IInv'
  <1> SUFFICES ASSUME IInv, LeaveSkipped PROVE IInv'
    OBVIOUS
  <1>1. PICK kd \in Functions : Returning(kd) /\ PassOn(here)
    BY DEF LeaveSkipped
  <1>2. calls # << >> /\ ret # Pending /\ kind = kd /\ UNCHANGED given
    BY <1>1, ReturningIs
  <1>3. IsState(here) /\ IsSequence(here.scopes) /\ IsSequence(here.active) /\ SameState(here, here)
    BY <1>2, TopIs DEF SameState
  <1>4. kind \notin {"definitions", "reference"}
    BY <1>2 DEF Functions
  <1> QED
    BY <1>1, <1>2, <1>3, <1>4, PassOnKeeps

LEMMA EnterFunctionInv == IInv /\ EnterFunction => IInv'
  <1> SUFFICES ASSUME IInv, EnterFunction PROVE IInv'
    OBVIOUS
  <1> DEFINE caller == [top EXCEPT !.stage = 1]
  <1>1. PICK kd \in Functions :
          /\ Entering(kd) /\ Branch(caller, here.options, kids[1], top.input, top.depth + 1)
    BY DEF EnterFunction
  <1>2. /\ calls # << >> /\ Ready /\ kind = kd /\ kd \in Functions /\ UNCHANGED given
        /\ Len(kids) = 2
    BY <1>1, EnteringIs DEF Arity, Functions
  <1>3. Continues(caller) /\ 1 \in 1 .. Len(kids)
    BY <1>2, TopContinues, CallerContinues
  <1>4. ~NeedsStrict /\ kind \notin {"definitions", "reference", "field"}
    BY <1>2 DEF NeedsStrict, Functions
  <1> HIDE DEF caller
  <1> QED
    BY <1>1, <1>2, <1>3, <1>4, BranchToKid

LEMMA InvokeInv == IInv /\ Invoke => IInv'
  <1> SUFFICES ASSUME IInv, Invoke PROVE IInv'
    OBVIOUS
  <1> DEFINE caller == [top EXCEPT !.stage = 2]
             s == kids[2]
  <1>1. PICK kd \in Functions :
          /\ Returning(kd)
          /\ IF ~Succeeded THEN Fail(here, ret.code)
             ELSE IF mode = "plain" THEN Fail(here, "validator_unavailable")
             ELSE \/ Fail(here, "validator_error")
                  \/ \E output \in Outputs :
                       OpenInput(caller, output, OutputProfile, s, top.depth + 1)
    BY DEF Invoke
  <1>2. /\ calls # << >> /\ ret # Pending /\ Ready /\ kind = kd /\ kd \in Functions
        /\ UNCHANGED given /\ Len(kids) = 2
    BY <1>1, ReturningIs DEF Arity, Functions
  <1>3. kind \notin {"definitions", "reference", "field"} /\ ~NeedsStrict /\ Unmarked
    BY <1>2 DEF Functions, NeedsStrict, Unmarked
  <1>4. Continues(caller) /\ IsBelow(top.schema, s)
    <2>1. Continues(caller)
      BY <1>2, TopContinues, CallerContinues
    <2>2. 2 \in 1 .. Len(kids)
      BY <1>2
    <2> QED
      BY <2>1, <2>2 DEF IsBelow, kids
  <1> HIDE DEF caller, s
  <1>5. CASE \E code \in {"validator_unavailable", "validator_error"} : Fail(here, code)
    BY <1>2, <1>3, <1>5, FailKeeps
  <1>6. CASE ~Succeeded /\ Fail(here, ret.code)
    BY <1>2, <1>3, <1>6, FailKeeps, FailureIs
  <1>7. ASSUME NEW output \in Outputs, OpenInput(caller, output, OutputProfile, s, top.depth + 1)
        PROVE  IInv'
    <2>1. output.profile = OutputProfile
      BY InputsAssumption DEF OutputProfile
    <2>2. MayOpen(s, top.depth + 1, "input", here.options)
      BY <1>2, <1>3, <1>4, KidMayOpen DEF Homes
    <2> QED
      BY <1>2, <1>3, <1>4, <1>7, <2>1, <2>2, InputKeeps
  <1> QED
    BY <1>1, <1>5, <1>6, <1>7

LEMMA LeaveFunctionInv == IInv /\ LeaveFunction => IInv'
  <1> SUFFICES ASSUME IInv, LeaveFunction PROVE IInv'
    OBVIOUS
  <1>1. PICK kd \in Functions :
          Returning(kd) /\ IF Succeeded THEN GiveImport ELSE Fail(here, ret.code)
    BY DEF LeaveFunction
  <1>2. calls # << >> /\ ret # Pending /\ Unmarked /\ UNCHANGED given
    BY <1>1, ReturningIs DEF Functions
  <1>3. CASE Succeeded
    BY <1>1, <1>2, <1>3, GiveImportKeeps
  <1>4. CASE ~Succeeded
    BY <1>1, <1>2, <1>4, FailKeeps, FailureIs
  <1> QED
    BY <1>3, <1>4

-----------------------------------------------------------------------------
(* A validation starts with the call of the root, in the state of its      *)
(* input, or with an error of the limits.                                  *)
LEMMA OneIs ==
  ASSUME NEW e
  PROVE  IsSequence(<<e>>) /\ Len(<<e>>) = 1 /\ <<e>> # << >> /\ <<e>>[1] = e
  <1>1. <<e>> \in Seq({e})
    OBVIOUS
  <1> QED
    BY <1>1, IsSequenceOf

LEMMA InitInv == Init => IInv
  <1> SUFFICES ASSUME Init PROVE IInv
    OBVIOUS
  <1>1. graph \in Graphs /\ IsGraph(graph)
    BY GraphsAssumption DEF Init
  <1>2. CASE states = << >> /\ calls = << >> /\ ret = Failed("recursion_limit")
    <2>1. Len(calls) = 0 /\ Len(states) = 0 /\ IsSequence(calls) /\ IsSequence(states)
      BY <1>2, EmptySeq, IsSequenceOf
    <2>2. TypeOK
      BY <1>1, <2>1 DEF TypeOK
    <2>3. Stacked
      BY <1>2, <2>1 DEF Stacked
    <2>4. Path /\ Fitting /\ OptionsKept /\ BracketsMatch /\ Placed /\ Progressing
      BY <1>2, <2>1 DEF Path, Fitting, OptionsKept, BracketsMatch, Placed, Progressing
    <2>5. SchemaHolds
      BY <1>2, <2>1 DEF SchemaHolds, Sound, Failed
    <2> QED
      BY <2>2, <2>3, <2>4, <2>5 DEF IInv
  <1>3. ASSUME states = <<State(asked, options, asked.profile, << >>, << >>)>>,
               calls = <<Call(graph.root, asked.root, 0, "input", 1)>>,
               ret = Pending
        PROVE  IInv
    <2> DEFINE first == Call(graph.root, asked.root, 0, "input", 1)
               state == State(asked, options, asked.profile, << >>, << >>)
    <2>1. /\ IsCall(first) /\ first.schema = graph.root /\ first.depth = 0 /\ first.home = "input"
          /\ first.state = 1 /\ first.stage = 0 /\ first.failure = "none"
      BY DEF Call, IsCall
    <2>2. /\ IsState(state) /\ state.scopes = << >> /\ state.active = << >>
          /\ state.profile = state.input.profile /\ state.options = options
      BY DEF State, IsState
    <2>0. options \in AllOptions
      BY OverridesAssumption DEF Init, AllOptions
    <2> HIDE DEF first, state
    <2>3. /\ IsSequence(calls) /\ Len(calls) = 1 /\ calls # << >> /\ calls[1] = first
          /\ IsSequence(states) /\ Len(states) = 1 /\ states[1] = state
      BY <1>3, OneIs DEF first, state
    <2>4. \A c \in 1 .. 1 : c = 1
      OBVIOUS
    <2>5. ~Entered(1)
      BY <1>3, <2>3 DEF Entered
    <2>6. IsSequence(<< >>)
      BY EmptySeq, IsSequenceOf
    <2>7. TypeOK
      BY <1>1, <2>1, <2>2, <2>3, <2>4, <2>6 DEF TypeOK, IsGraph, Homes
    <2>8. Stacked
      BY <2>1, <2>3, <2>4 DEF Stacked
    <2>9. Path /\ Fitting /\ OptionsKept /\ Progressing
      BY <2>0, <2>1, <2>2, <2>3, <2>4, <2>5, DepthAssumption
      DEF Path, Fitting, OptionsKept, Progressing
    <2>10. Placed
      <3> SUFFICES ASSUME ~graph.static, Enclosed(graph) PROVE PlacedAt(1)
        BY <2>3, <2>4 DEF Placed
      <3>1. graph.root \in Outside(graph)
        BY OutsideIs DEF OutsideOf
      <3> QED
        BY <2>1, <2>3, <3>1 DEF PlacedAt
    <2>11. BracketsMatch
      <3>1. \A j, kd : OpenAround(j, kd) = {}
        BY <2>3, <2>4, <2>5 DEF OpenAround
      <3>2. ScopesMatch(1)
        BY <2>2, <2>3, <3>1, ListsNothing DEF ScopesMatch
      <3>3. Following(1) = {}
        BY <3>1 DEF Following
      <3>4. ActiveMatch(1)
        BY <2>2, <2>3, <3>3, ListsNothing DEF ActiveMatch
      <3> QED
        BY <2>3, <2>4, <3>2, <3>4, BracketsAre
    <2>12. SchemaHolds
      BY <1>3, <2>1, <2>3, <2>4 DEF SchemaHolds, Sound
    <2> QED
      BY <2>7, <2>8, <2>9, <2>10, <2>11, <2>12 DEF IInv
  <1> QED
    BY <1>2, <1>3 DEF Init

LEMMA StutterInv == IInv /\ UNCHANGED vars => IInv'
  <1> SUFFICES ASSUME IInv, UNCHANGED vars PROVE IInv'
    OBVIOUS
  <1>1. /\ graph' = graph /\ options' = options /\ states' = states /\ calls' = calls
        /\ ret' = ret
    BY DEF vars
  <1>2. \A c : Entered(c)' <=> Entered(c)
    BY <1>1 DEF Entered
  <1>3. TypeOK' /\ Stacked' /\ OptionsKept' /\ SchemaHolds'
    BY <1>1 DEF IInv, TypeOK, Stacked, OptionsKept, SchemaHolds, Sound
  <1>4. Path'
    BY <1>1, <1>2 DEF IInv, Path, Reaches, Handed, IsBelow
  <1>5. Fitting' /\ Progressing'
    BY <1>1, <1>2 DEF IInv, Fitting, Progressing, KindOf, Followed
  <1>6. Placed'
    BY <1>1 DEF IInv, Placed, PlacedAt, KindOf
  <1>7. BracketsMatch'
    <2>1. \A j, kd : OpenAround(j, kd)' = OpenAround(j, kd)
      BY <1>1, <1>2 DEF OpenAround
    <2>2. \A j : Following(j)' = Following(j)
      BY <1>1, <2>1 DEF Following, OnInputOf
    <2>3. ASSUME NEW j \in 1 .. Len(states') PROVE ScopesMatch(j)' /\ ActiveMatch(j)'
      <3>1. ScopesMatch(j) /\ ActiveMatch(j)
        BY <1>1, BracketsAre DEF IInv
      <3>2. ScopesMatch(j)'
        BY <1>1, <2>1, <3>1, ScopesStay
      <3>3. \A c : Followed(c)' = Followed(c)
        BY <1>1 DEF Followed
      <3>4. ActiveMatch(j)'
        BY <1>1, <2>2, <3>1, <3>3, ActiveStays
      <3> QED
        BY <3>2, <3>4
    <2> QED
      BY Zenon, <2>3 DEF BracketsMatch, ScopesMatch, ActiveMatch, Following
  <1> QED
    BY <1>3, <1>4, <1>5, <1>6, <1>7 DEF IInv

LEMMA NextInv == IInv /\ [Next]_vars => IInv'
  <1>1. IInv /\ (EnterStrictModel \/ LeaveStrictModel \/ EnterAggregate \/ LeavePart) => IInv'
    BY EnterStrictModelInv, LeaveStrictModelInv, EnterAggregateInv, LeavePartInv
  <1>2. IInv /\ (EnterNullable \/ LeaveNullable \/ EnterUnion \/ LeaveChoice) => IInv'
    BY EnterNullableInv, LeaveNullableInv, EnterUnionInv, LeaveChoiceInv
  <1>3. IInv /\ (EnterDefinitions \/ LeaveDefinitions \/ EnterReference \/ LeaveReference) => IInv'
    BY EnterDefinitionsInv, LeaveDefinitionsInv, EnterReferenceInv, LeaveReferenceInv
  <1>4. IInv /\ (EnterLaxOrStrict \/ EnterJsonOrStructural \/ LeaveControl
                \/ EnterChain \/ LeaveStep) => IInv'
    BY EnterLaxOrStrictInv, EnterJsonOrStructuralInv, LeaveControlInv, EnterChainInv, LeaveStepInv
  <1>5. IInv /\ (SkipFunction \/ LeaveSkipped \/ EnterFunction \/ Invoke \/ LeaveFunction) => IInv'
    BY SkipFunctionInv, LeaveSkippedInv, EnterFunctionInv, InvokeInv, LeaveFunctionInv
  <1>6. IInv /\ (TooDeep \/ Scalar \/ EnterField \/ LeaveField \/ UNCHANGED vars) => IInv'
    BY TooDeepInv, ScalarInv, EnterFieldInv, LeaveFieldInv, StutterInv
  <1> QED
    BY <1>1, <1>2, <1>3, <1>4, <1>5, <1>6 DEF Next
-----------------------------------------------------------------------------
(* A call that is as deep as its caller is what definitions or a field     *)
(* enclose, or a strict model in a strict branch: at most two such follow  *)
(* each other.                                                             *)
LEMMA DepthRises ==
  ASSUME IInv, NEW c \in 1 .. Len(calls), c + 3 <= Len(calls)
  PROVE  calls[c].depth < calls[c + 3].depth
  <1>0. Len(calls) \in Nat
    BY LengthIs DEF IInv, TypeOK
  <1> DEFINE O(b) == states[calls[b].state].options
             Level(b) ==
               \/ KindOf(b) = "definitions" /\ O(b + 1).override = O(b).override
               \/ KindOf(b) = "field" /\ O(b + 1).override # "none"
               \/ /\ KindOf(b) = "model" /\ calls[b + 1].schema = calls[b].schema
                  /\ O(b).override = "none" /\ ~O(b).strict /\ O(b + 1).strict
  <1>1. ASSUME NEW b \in {c, c + 1, c + 2}
        PROVE  /\ calls[b].depth \in Nat /\ calls[b + 1].depth \in Nat
               /\ calls[b].depth < calls[b + 1].depth \/ (calls[b].depth = calls[b + 1].depth /\ Level(b))
               /\ KindOf(b) = "definitions" => KindOf(b + 1) \notin {"definitions", "field"}
               /\ KindOf(b) = "field" => KindOf(b + 1) # "field"
    <2>1. b \in 1 .. Len(calls) - 1 /\ b \in 1 .. Len(calls) /\ b + 1 \in 1 .. Len(calls)
      BY <1>0
    <2>2. /\ calls[b].depth \in Nat /\ calls[b + 1].depth \in Nat
          /\ calls[b].schema \in DOMAIN graph.kind
      BY <2>1 DEF IInv, TypeOK
    <2>3. Reaches(calls[b], O(b), calls[b + 1].schema, calls[b + 1].depth, O(b + 1))
      BY <2>1 DEF IInv, Path
    <2>4. /\ KindOf(b) = "field" => graph.option[calls[b].schema] \in {"strict", "lax"}
          /\ KindOf(b) \in {"definitions", "field"} => Len(graph.kids[calls[b].schema]) = 1
          /\ \A t : IsBelow(calls[b].schema, t) /\ graph.kind[t] = "field" => KindOf(b) = "model"
      BY <2>2, GraphIs DEF IInv, KindOf, Arity
    <2>5. calls[b].depth < calls[b + 1].depth \/ (calls[b].depth = calls[b + 1].depth /\ Level(b))
      BY <2>2, <2>3, <2>4 DEF Reaches, Handed, KindOf
    <2>6. KindOf(b) \in {"definitions", "field"} => KindOf(b + 1) # "field"
      BY <2>3, <2>4 DEF Reaches, IsBelow, KindOf
    <2>7. KindOf(b) = "definitions" => KindOf(b + 1) # "definitions"
      BY <2>2, <2>3, InsideIs DEF IInv, EnclosedBy, Reaches, KindOf
    <2> QED
      BY <2>2, <2>5, <2>6, <2>7
  <1>2. c + 1 + 1 = c + 2 /\ c + 2 + 1 = c + 3
    OBVIOUS
  <1> DEFINE Again2(b, e) ==
               \/ KindOf(b) = "definitions" /\ KindOf(e) = "model" /\ O(b).override = "none"
               \/ KindOf(b) = "field" /\ KindOf(e) = "definitions" /\ O(e).override # "none"
  <1>3. /\ Level(c) /\ Level(c + 1) => Again2(c, c + 1)
        /\ Level(c + 1) /\ Level(c + 2) => Again2(c + 1, c + 2)
    <2>1. ASSUME NEW b \in {c, c + 1}, NEW e, e = b + 1, Level(b), Level(e) PROVE Again2(b, e)
      <3>1. /\ KindOf(b) = "definitions" => KindOf(e) \notin {"definitions", "field"}
            /\ KindOf(b) = "field" => KindOf(e) # "field"
        BY <1>1, <2>1
      <3>2. CASE KindOf(b) = "model"
        BY <2>1, <3>2 DEF KindOf
      <3>3. CASE KindOf(b) = "definitions"
        BY <2>1, <3>1, <3>3
      <3>4. CASE KindOf(b) = "field"
        BY <2>1, <3>1, <3>4
      <3> QED
        BY <2>1, <3>2, <3>3, <3>4
    <2> QED
      BY <1>2, <2>1
  <1>4. ~(Again2(c, c + 1) /\ Level(c + 1) /\ Again2(c + 1, c + 2))
    OBVIOUS
  <1> HIDE DEF Level, Again2
  <1> QED
    BY <1>1, <1>2, <1>3, <1>4

(* The engine's own bookkeeping is right on every schema, every input and  *)
(* every answer of callbacks, whatever fails on the way.                   *)
THEOREM EngineInvariant == Spec => []IInv
  <1> QED
    BY InitInv, NextInv, PTL DEF Spec

(* The depth limit bounds the stack of the program.                        *)
THEOREM StackIsBounded == Spec => []StackBounded
  <1>1. IInv => StackBounded
    BY DepthRises DEF StackBounded, IInv, Path
  <1> QED
    BY <1>1, EngineInvariant, PTL

(* Each state has the scopes and the active references of the calls that   *)
(* are open around it.                                                     *)
THEOREM MarksAreBrackets == Spec => []BracketsMatch
  <1>1. IInv => BracketsMatch
    BY DEF IInv
  <1> QED
    BY <1>1, EngineInvariant, PTL

(* No reference is followed again where it is being followed, and none is  *)
(* missed that is declared around its schema.                              *)
THEOREM ReferencesAreSound == Spec => []ReferencesSound
  <1>1. IInv => ReferencesSound
    <2> SUFFICES ASSUME IInv PROVE ReferencesSound
      OBVIOUS
    <2>1. Progressing /\ Sound(ret)
      BY DEF IInv, SchemaHolds
    <2>2. (ret.outcome = "error" /\ ret.code = "schema_invalid") => ~Enclosed(graph)
      BY <2>1 DEF Sound, Pending
    <2>3. \A c, d \in 1 .. Len(calls) :
            (/\ c < d /\ Entered(d)
             /\ graph.kind[calls[c].schema] = "reference" /\ graph.kind[calls[d].schema] = "reference"
             /\ \A e \in c + 1 .. d : calls[e].home # "input") => Followed(c) # Followed(d)
      BY <2>1 DEF Progressing, KindOf
    <2> QED
      BY <2>2, <2>3 DEF ReferencesSound
  <1> QED
    BY <1>1, EngineInvariant, PTL
-----------------------------------------------------------------------------
(* A set of numbers has a least one, and so one that has 0 and, with each  *)
(* number, the next, has them all.                                         *)
LEMMA LeastNatural ==
  ASSUME NEW S \in SUBSET Nat, S # {}
  PROVE  \E n \in S : \A m \in S : n <= m
  <1> DEFINE R == {p \in Nat \X Nat : p[1] < p[2]}
  <1>1. IsWellFoundedOn(R, Nat)
    BY NatLessThanWellFounded DEF OpToRel
  <1>2. \A n, m \in Nat : ~(<<m, n>> \in R) => n <= m
    OBVIOUS
  <1> HIDE DEF R
  <1>3. PICK n \in S : \A m \in S : ~(<<m, n>> \in R)
    BY <1>1, WFMin
  <1>4. \A m \in S : n <= m
    BY <1>2, <1>3
  <1> QED
    BY <1>4

LEMMA AllNaturals ==
  ASSUME NEW S \in SUBSET Nat, 0 \in S, \A n \in S : n + 1 \in S
  PROVE  S = Nat
  <1> SUFFICES ASSUME Nat \ S # {} PROVE FALSE
    OBVIOUS
  <1>1. PICK n \in Nat \ S : \A m \in Nat \ S : n <= m
    BY LeastNatural
  <1>2. n - 1 \in Nat /\ n - 1 \in S
    BY <1>1
  <1> QED
    BY <1>1, <1>2

(* What each call is handed by its caller adds up, along the open calls,   *)
(* to what it inherits from those around it.                               *)
OptionsOf(c) == states[calls[c].state].options
FieldsAround(c) == {b \in 1 .. c - 1 : KindOf(b) = "field"}
StrictAround(c) == \E b \in 1 .. c - 1 : KindOf(b) = "model" /\ graph.flag[calls[b].schema]

Inherits(c) ==
  /\ (options.override # "none" \/ FieldsAround(c) = {}) => OptionsOf(c).override = options.override
  /\ options.override = "none" =>
       \A f \in FieldsAround(c) :
         (\A b \in FieldsAround(c) : f <= b) =>
           OptionsOf(c).override = graph.option[calls[f].schema]
  /\ OptionsOf(c).override = "none" => (OptionsOf(c).strict <=> options.strict \/ StrictAround(c))

LEMMA InheritsNext ==
  ASSUME IInv, NEW c \in 1 .. Len(calls) - 1, Len(calls) \in Nat, Inherits(c)
  PROVE  Inherits(c + 1)
  <1>1. Handed(calls[c], OptionsOf(c), OptionsOf(c + 1))
    BY DEF IInv, Path, Reaches, OptionsOf
  <1>2. /\ OptionsOf(c + 1).override = IF KindOf(c) = "field" /\ OptionsOf(c).override = "none"
                                      THEN graph.option[calls[c].schema] ELSE OptionsOf(c).override
        /\ OptionsOf(c + 1).strict <=>
             \/ OptionsOf(c).strict
             \/ OptionsOf(c).override = "none" /\ KindOf(c) = "model" /\ graph.flag[calls[c].schema]
    BY <1>1 DEF Handed, KindOf
  <1>3. \A b \in 1 .. c : KindOf(b) = "field" => graph.option[calls[b].schema] # "none"
    <2> SUFFICES ASSUME NEW b \in 1 .. c, KindOf(b) = "field"
                 PROVE  graph.option[calls[b].schema] # "none"
      OBVIOUS
    <2>1. calls[b].schema \in DOMAIN graph.kind
      BY DEF IInv, TypeOK
    <2> QED
      BY <2>1, GraphIs DEF IInv, KindOf
  <1>4. /\ \A b \in FieldsAround(c) : b \in 1 .. c /\ b < c /\ KindOf(b) = "field"
        /\ FieldsAround(c + 1) = FieldsAround(c) \cup {b \in {c} : KindOf(b) = "field"}
        /\ StrictAround(c + 1) <=>
             StrictAround(c) \/ (KindOf(c) = "model" /\ graph.flag[calls[c].schema])
    <2>1. c + 1 - 1 = c /\ 1 .. c = (1 .. c - 1) \cup {c} /\ \A b \in 1 .. c - 1 : b \in 1 .. c /\ b < c
      OBVIOUS
    <2>2. StrictAround(c + 1) <=> \E b \in 1 .. c : KindOf(b) = "model" /\ graph.flag[calls[b].schema]
      BY <2>1 DEF StrictAround
    <2>3. FieldsAround(c + 1) = {b \in 1 .. c : KindOf(b) = "field"}
      BY <2>1 DEF FieldsAround
    <2> QED
      BY <2>1, <2>2, <2>3 DEF FieldsAround, StrictAround
  <1>5. ASSUME options.override # "none" \/ FieldsAround(c + 1) = {}
        PROVE  OptionsOf(c + 1).override = options.override
    <2>1. OptionsOf(c).override = options.override
      BY <1>4, <1>5 DEF Inherits
    <2> QED
      BY <1>2, <1>4, <1>5, <2>1
  <1>6. ASSUME options.override = "none", NEW f \in FieldsAround(c + 1),
               \A b \in FieldsAround(c + 1) : f <= b
        PROVE  OptionsOf(c + 1).override = graph.option[calls[f].schema]
    <2>1. CASE f \in FieldsAround(c)
      <3>1. OptionsOf(c).override = graph.option[calls[f].schema]
        BY <1>4, <1>6, <2>1 DEF Inherits
      <3> QED
        BY <1>2, <1>3, <1>4, <2>1, <3>1
    <2>2. CASE f \notin FieldsAround(c)
      <3>1. f = c /\ KindOf(c) = "field" /\ FieldsAround(c) = {}
        BY <1>4, <1>6, <2>2
      <3>2. OptionsOf(c).override = "none"
        BY <1>6, <3>1 DEF Inherits
      <3> QED
        BY <1>2, <3>1, <3>2
    <2> QED
      BY <2>1, <2>2
  <1>7. ASSUME OptionsOf(c + 1).override = "none"
        PROVE  OptionsOf(c + 1).strict <=> options.strict \/ StrictAround(c + 1)
    <2>1. OptionsOf(c).override = "none"
      BY <1>2, <1>3, <1>7
    <2>2. OptionsOf(c).strict <=> options.strict \/ StrictAround(c)
      BY <2>1 DEF Inherits
    <2> QED
      BY <1>2, <1>4, <2>1, <2>2
  <1> QED
    BY <1>5, <1>6, <1>7 DEF Inherits

(* A call obeys the option of the run, or of the outermost field with one; *)
(* without any it is strict exactly below a strict model or in a strict    *)
(* run; and each input is validated under the rules it was built for.      *)
THEOREM OptionsReachAll == Spec => []OptionsInherited
  <1>1. IInv => OptionsInherited
    <2> SUFFICES ASSUME IInv PROVE OptionsInherited
      OBVIOUS
    <2>1. Len(calls) \in Nat
      BY LengthIs DEF IInv, TypeOK
    <2> DEFINE S == {c \in Nat : c \in 1 .. Len(calls) => Inherits(c)}
    <2>2. ASSUME 1 \in 1 .. Len(calls) PROVE Inherits(1)
      <3>1. OptionsOf(1) = options
        BY <2>1, <2>2 DEF IInv, Stacked, OptionsKept, OptionsOf
      <3>2. FieldsAround(1) = {} /\ ~StrictAround(1)
        BY DEF FieldsAround, StrictAround
      <3> QED
        BY <3>1, <3>2 DEF Inherits
    <2>3. 0 \in S
      OBVIOUS
    <2>4. ASSUME NEW c \in S PROVE c + 1 \in S
      <3> SUFFICES ASSUME c + 1 \in 1 .. Len(calls) PROVE Inherits(c + 1)
        OBVIOUS
      <3>1. CASE c = 0
        BY <2>2, <3>1
      <3>2. CASE c # 0
        <4>1. c \in 1 .. Len(calls) - 1 /\ Inherits(c)
          BY <2>1, <2>4, <3>2
        <4> QED
          BY <2>1, <4>1, InheritsNext
      <3> QED
        BY <3>1, <3>2
    <2>5. S = Nat
      <3> HIDE DEF S
      <3>1. S \in SUBSET Nat
        BY DEF S
      <3> QED
        BY <2>3, <2>4, <3>1, AllNaturals
    <2>6. \A c \in 1 .. Len(calls) : Inherits(c)
      BY <2>1, <2>5
    <2>7. \A k \in 1 .. Len(states) : states[k].profile = states[k].input.profile
      BY DEF IInv, OptionsKept
    <2>8. ASSUME NEW c \in 1 .. Len(calls)
          PROVE  LET its == states[calls[c].state].options
                     fields == {b \in 1 .. c - 1 : graph.kind[calls[b].schema] = "field"}
                     models == {b \in 1 .. c - 1 : graph.kind[calls[b].schema] = "model"}
                 IN  /\ (options.override # "none" \/ fields = {}) => its.override = options.override
                     /\ options.override = "none" =>
                          \A f \in fields :
                            (\A b \in fields : f <= b) => its.override = graph.option[calls[f].schema]
                     /\ its.override = "none" =>
                          (its.strict <=> options.strict \/ \E b \in models : graph.flag[calls[b].schema])
      <3>1. Inherits(c)
        BY <2>6
      <3>2. /\ FieldsAround(c) = {b \in 1 .. c - 1 : graph.kind[calls[b].schema] = "field"}
            /\ StrictAround(c) <=>
                 \E b \in {e \in 1 .. c - 1 : graph.kind[calls[e].schema] = "model"} :
                   graph.flag[calls[b].schema]
        BY DEF FieldsAround, StrictAround, KindOf
      <3> QED
        BY <3>1, <3>2 DEF Inherits, OptionsOf
    <2> QED
      BY <2>7, <2>8 DEF OptionsInherited
  <1> QED
    BY <1>1, EngineInvariant, PTL

LEMMA StepsAreNatural == Steps \in Nat /\ Steps >= 7
  BY DepthAssumption DEF Steps

(* What conforms in n steps is told from what conforms in one less.        *)
LEMMA ConformingIs ==
  ASSUME NEW g, NEW md, NEW values, NEW arena
  PROVE  LET known == Conforming(g, md, values, arena)
         IN  /\ \A x \in Claims(g, values, arena) : ~known[0][x]
             /\ \A n \in 1 .. Steps : \A x \in Claims(g, values, arena) :
                  known[n][x] = Mirrors(g, md, values, known[n - 1], x)
  <1> DEFINE C == Claims(g, values, arena)
             Rule(f, n) == IF n = 0 THEN [x \in C |-> FALSE]
                           ELSE [x \in C |-> Mirrors(g, md, values, f[n - 1], x)]
             Good(N, f) == \A n \in 0 .. N : f[n] = Rule(f, n)
             S == {N \in Nat : \E f : f = [n \in 0 .. N |-> f[n]] /\ Good(N, f)}
  <1>1. \A f, h, n : n = 0 \/ f[n - 1] = h[n - 1] => Rule(f, n) = Rule(h, n)
    OBVIOUS
  <1>2. 0 \in S
    <2> DEFINE f == [n \in 0 .. 0 |-> [x \in C |-> FALSE]]
    <2>1. f = [n \in 0 .. 0 |-> f[n]] /\ Good(0, f)
      OBVIOUS
    <2> QED
      BY <2>1
  <1>3. ASSUME NEW N \in S PROVE N + 1 \in S
    <2>1. PICK f : f = [n \in 0 .. N |-> f[n]] /\ Good(N, f)
      OBVIOUS
    <2>2. N \in Nat
      OBVIOUS
    <2> DEFINE longer == [n \in 0 .. N + 1 |-> IF n <= N THEN f[n] ELSE Rule(f, N + 1)]
    <2>3. longer = [n \in 0 .. N + 1 |-> longer[n]]
      OBVIOUS
    <2> HIDE DEF Rule
    <2>4. \A n \in 0 .. N : longer[n] = f[n] /\ f[n] = Rule(f, n)
      BY <2>1, <2>2
    <2>5. longer[N + 1] = Rule(f, N + 1)
      BY <2>2
    <2> HIDE DEF longer
    <2>6. ASSUME NEW n \in 0 .. N + 1 PROVE longer[n] = Rule(longer, n)
      <3>1. CASE n \in 0 .. N
        <4>1. n = 0 \/ n - 1 \in 0 .. N
          BY <2>2, <3>1
        <4>2. n = 0 \/ longer[n - 1] = f[n - 1]
          BY <2>4, <4>1
        <4>3. Rule(longer, n) = Rule(f, n)
          BY <1>1, <4>2
        <4> QED
          BY <2>4, <3>1, <4>3
      <3>2. CASE n = N + 1
        <4>1. n - 1 \in 0 .. N
          BY <2>2, <3>2
        <4>2. longer[n - 1] = f[n - 1]
          BY <2>4, <4>1
        <4>3. Rule(longer, n) = Rule(f, n)
          BY <1>1, <4>2
        <4> QED
          BY <2>5, <3>2, <4>3
      <3>3. n \in 0 .. N \/ n = N + 1
        BY <2>2
      <3> QED
        BY <3>1, <3>2, <3>3
    <2>7. Good(N + 1, longer)
      BY <2>6
    <2> QED
      BY <2>2, <2>3, <2>7
  <1>4. S = Nat
    <2> HIDE DEF S
    <2>1. S \in SUBSET Nat
      BY DEF S
    <2> QED
      BY <1>2, <1>3, <2>1, AllNaturals
  <1>5. PICK f : f = [n \in 0 .. Steps |-> f[n]] /\ Good(Steps, f)
    BY <1>4, StepsAreNatural
  <1>6. f = [n \in 0 .. Steps |-> Rule(f, n)]
    BY <1>5
  <1> DEFINE known == Conforming(g, md, values, arena)
  <1>7. known = CHOOSE h : h = [n \in 0 .. Steps |-> Rule(h, n)]
    BY Zenon DEF Conforming
  <1>8. known = [n \in 0 .. Steps |-> Rule(known, n)]
    BY <1>6, <1>7
  <1> HIDE DEF known
  <1>9. 0 \in 0 .. Steps /\ \A n \in 1 .. Steps : n \in 0 .. Steps /\ n # 0
    BY StepsAreNatural
  <1>10. known[0] = [x \in C |-> FALSE]
    BY <1>8, <1>9
  <1>11. ASSUME NEW n \in 1 .. Steps PROVE known[n] = [x \in C |-> Mirrors(g, md, values, known[n - 1], x)]
    <2>1. known[n] = Rule(known, n)
      <3> HIDE DEF Rule
      <3> QED
        BY <1>8, <1>9
    <2> QED
      BY <1>9, <2>1
  <1> HIDE DEF C
  <1>12. \A x \in C : ~known[0][x]
    BY <1>10
  <1>13. \A n \in 1 .. Steps : \A x \in C : known[n][x] = Mirrors(g, md, values, known[n - 1], x)
    BY <1>11
  <1> QED
    BY <1>12, <1>13 DEF known, C

-----------------------------------------------------------------------------
(* Arenas whose children come before their parents: of an input, and of    *)
(* values.                                                                 *)
Formed(a) ==
  /\ Len(a.nodes) \in Nat /\ a.root \in 1 .. Len(a.nodes)
  /\ \A i \in 1 .. Len(a.nodes) :
       /\ IsSequence(a.nodes[i].kids)
       /\ a.nodes[i].kind \in {"null", "leaf", "sequence"}
       /\ a.nodes[i].kind # "sequence" => a.nodes[i].kids = << >>
       /\ a.nodes[i].kind = "null" => a.nodes[i].label = 0
       /\ \A k \in 1 .. Len(a.nodes[i].kids) : a.nodes[i].kids[k] \in 1 .. i - 1

IsValue(value) ==
  /\ value = [kind |-> value.kind, label |-> value.label, kids |-> value.kids]
  /\ IsSequence(value.kids)
  /\ value.kind \in {"null", "leaf", "sequence", "wrap"}
  /\ value.kind \in {"null", "leaf"} => value.kids = << >>
  /\ value.kind = "null" => value.label = 0

Ordered(values) ==
  /\ IsSequence(values)
  /\ \A v \in 1 .. Len(values) :
       /\ IsValue(values[v])
       /\ \A k \in 1 .. Len(values[v].kids) : values[v].kids[k] \in 1 .. v - 1

(* Nodes of two inputs that are the roots of equal trees.                  *)
Pairs(a, b, pairs) ==
  \A p \in pairs :
    /\ p[1] \in 1 .. Len(a.nodes) /\ p[2] \in 1 .. Len(b.nodes)
    /\ a.nodes[p[1]].kind = b.nodes[p[2]].kind
    /\ a.nodes[p[1]].label = b.nodes[p[2]].label
    /\ Len(a.nodes[p[1]].kids) = Len(b.nodes[p[2]].kids)
    /\ \A k \in 1 .. Len(a.nodes[p[1]].kids) :
         <<a.nodes[p[1]].kids[k], b.nodes[p[2]].kids[k]>> \in pairs

Same(a, i, b, j) ==
  a.profile = b.profile /\ \E pairs : <<i, j>> \in pairs /\ Pairs(a, b, pairs)

(* The same of values: wrappers are alike whatever their labels.           *)
Matched(values, others, pairs) ==
  \A p \in pairs :
    /\ p[1] \in 1 .. Len(values) /\ p[2] \in 1 .. Len(others)
    /\ values[p[1]].kind = others[p[2]].kind
    /\ values[p[1]].kind # "wrap" => values[p[1]].label = others[p[2]].label
    /\ Len(values[p[1]].kids) = Len(others[p[2]].kids)
    /\ \A k \in 1 .. Len(values[p[1]].kids) :
         <<values[p[1]].kids[k], others[p[2]].kids[k]>> \in pairs

LEMMA InputIsFormed ==
  ASSUME NEW a, IsInput(a)
  PROVE  Formed(a)
  <1>1. /\ a.nodes \in Seq(InputNode) /\ Len(a.nodes) \in Nat
    BY LenProperties DEF IsInput
  <1>2. ASSUME NEW i \in 1 .. Len(a.nodes)
        PROVE  /\ IsSequence(a.nodes[i].kids)
               /\ a.nodes[i].kind \in {"null", "leaf", "sequence"}
    <2>1. a.nodes[i] \in InputNode
      BY <1>1, ElementOfSeq
    <2>2. a.nodes[i].kids \in Seq(Nat) /\ a.nodes[i].kind \in {"null", "leaf", "sequence"}
      BY <2>1 DEF InputNode
    <2> QED
      BY <2>2, IsSequenceOf
  <1> QED
    BY <1>1, <1>2 DEF Formed, IsInput

LEMMA SameSelf ==
  ASSUME NEW a, Formed(a), NEW i \in 1 .. Len(a.nodes)
  PROVE  Same(a, i, a, i)
  <1> DEFINE pairs == {<<j, j>> : j \in 1 .. Len(a.nodes)}
  <1>1. <<i, i>> \in pairs
    OBVIOUS
  <1>2. ASSUME NEW j \in 1 .. Len(a.nodes), NEW k \in 1 .. Len(a.nodes[j].kids)
        PROVE  a.nodes[j].kids[k] \in 1 .. Len(a.nodes)
    <2>1. a.nodes[j].kids[k] \in 1 .. j - 1 /\ Len(a.nodes) \in Nat
      BY DEF Formed
    <2> QED
      BY <2>1
  <1>3. \A p \in pairs : \E j \in 1 .. Len(a.nodes) : p = <<j, j>>
    OBVIOUS
  <1>4. \A j \in 1 .. Len(a.nodes) : <<j, j>> \in pairs
    OBVIOUS
  <1> HIDE DEF pairs
  <1>5. Pairs(a, a, pairs)
    BY <1>2, <1>3, <1>4 DEF Pairs
  <1> QED
    BY <1>1, <1>5 DEF Same

LEMMA SameAll ==
  ASSUME NEW a, NEW b, NEW c, NEW i, NEW j, NEW k, Same(a, i, b, j), Same(b, j, c, k)
  PROVE  Same(a, i, c, k)
  <1>1. PICK first : <<i, j>> \in first /\ Pairs(a, b, first)
    BY DEF Same
  <1>2. PICK second : <<j, k>> \in second /\ Pairs(b, c, second)
    BY DEF Same
  <1> DEFINE both == {r \in {<<p[1], q[2]>> : p \in first, q \in second} :
                        \E p \in first, q \in second : p[2] = q[1] /\ r = <<p[1], q[2]>>}
  <1>3. \A p \in first, q \in second : p[2] = q[1] => <<p[1], q[2]>> \in both
    OBVIOUS
  <1>4. \A r \in both : \E p \in first, q \in second : p[2] = q[1] /\ r = <<p[1], q[2]>>
    OBVIOUS
  <1> HIDE DEF both
  <1>5. <<i, k>> \in both
    BY ZenonT(30), <1>1, <1>2, <1>3
  <1>6. ASSUME NEW r \in both
        PROVE  /\ r[1] \in 1 .. Len(a.nodes) /\ r[2] \in 1 .. Len(c.nodes)
               /\ a.nodes[r[1]].kind = c.nodes[r[2]].kind
               /\ a.nodes[r[1]].label = c.nodes[r[2]].label
               /\ Len(a.nodes[r[1]].kids) = Len(c.nodes[r[2]].kids)
               /\ \A n \in 1 .. Len(a.nodes[r[1]].kids) :
                    <<a.nodes[r[1]].kids[n], c.nodes[r[2]].kids[n]>> \in both
    <2>1. PICK p \in first, q \in second : p[2] = q[1] /\ r = <<p[1], q[2]>>
      BY <1>4
    <2>2. r[1] = p[1] /\ r[2] = q[2]
      BY <2>1
    <2>3. /\ p[1] \in 1 .. Len(a.nodes) /\ a.nodes[p[1]].kind = b.nodes[p[2]].kind
          /\ a.nodes[p[1]].label = b.nodes[p[2]].label
          /\ Len(a.nodes[p[1]].kids) = Len(b.nodes[p[2]].kids)
          /\ \A n \in 1 .. Len(a.nodes[p[1]].kids) :
               <<a.nodes[p[1]].kids[n], b.nodes[p[2]].kids[n]>> \in first
      BY <1>1 DEF Pairs
    <2>4. /\ q[2] \in 1 .. Len(c.nodes) /\ b.nodes[q[1]].kind = c.nodes[q[2]].kind
          /\ b.nodes[q[1]].label = c.nodes[q[2]].label
          /\ Len(b.nodes[q[1]].kids) = Len(c.nodes[q[2]].kids)
          /\ \A n \in 1 .. Len(b.nodes[q[1]].kids) :
               <<b.nodes[q[1]].kids[n], c.nodes[q[2]].kids[n]>> \in second
      BY <1>2 DEF Pairs
    <2>5. \A n \in 1 .. Len(a.nodes[p[1]].kids) :
            <<a.nodes[p[1]].kids[n], c.nodes[q[2]].kids[n]>> \in both
      <3> SUFFICES ASSUME NEW n \in 1 .. Len(a.nodes[p[1]].kids)
                   PROVE  <<a.nodes[p[1]].kids[n], c.nodes[q[2]].kids[n]>> \in both
        OBVIOUS
      <3> DEFINE x == a.nodes[p[1]].kids[n]
                 y == b.nodes[p[2]].kids[n]
                 z == c.nodes[q[2]].kids[n]
      <3>1. <<x, y>> \in first
        BY <2>3
      <3>2. n \in 1 .. Len(b.nodes[q[1]].kids) /\ y = b.nodes[q[1]].kids[n]
        BY <2>1, <2>3
      <3>3. <<y, z>> \in second
        BY <2>4, <3>2
      <3> HIDE DEF x, y, z
      <3>4. <<x, z>> \in both
        BY <1>3, <3>1, <3>3
      <3> QED
        BY <3>4 DEF x, z
    <2> QED
      BY <2>1, <2>2, <2>3, <2>4, <2>5
  <1>7. Pairs(a, c, both)
    BY <1>6 DEF Pairs
  <1>8. a.profile = c.profile
    BY DEF Same
  <1> QED
    BY <1>5, <1>7, <1>8 DEF Same

LEMMA SameParts ==
  ASSUME NEW a, NEW b, NEW i, NEW j, Same(a, i, b, j)
  PROVE  /\ i \in 1 .. Len(a.nodes) /\ j \in 1 .. Len(b.nodes) /\ a.profile = b.profile
         /\ a.nodes[i].kind = b.nodes[j].kind /\ a.nodes[i].label = b.nodes[j].label
         /\ Len(a.nodes[i].kids) = Len(b.nodes[j].kids)
         /\ \A k \in 1 .. Len(a.nodes[i].kids) : Same(a, a.nodes[i].kids[k], b, b.nodes[j].kids[k])
  <1>1. PICK pairs : <<i, j>> \in pairs /\ Pairs(a, b, pairs)
    BY DEF Same
  <1>2. /\ i \in 1 .. Len(a.nodes) /\ j \in 1 .. Len(b.nodes)
        /\ a.nodes[i].kind = b.nodes[j].kind /\ a.nodes[i].label = b.nodes[j].label
        /\ Len(a.nodes[i].kids) = Len(b.nodes[j].kids)
        /\ \A k \in 1 .. Len(a.nodes[i].kids) : <<a.nodes[i].kids[k], b.nodes[j].kids[k]>> \in pairs
    BY <1>1 DEF Pairs
  <1>3. a.profile = b.profile
    BY DEF Same
  <1>4. \A k \in 1 .. Len(a.nodes[i].kids) : Same(a, a.nodes[i].kids[k], b, b.nodes[j].kids[k])
    BY <1>1, <1>2, <1>3 DEF Same
  <1> QED
    BY <1>2, <1>3, <1>4

(* Claims about values and inputs that are the same, node by node.         *)
Related(g, values, a, others, b, pairs, x, y) ==
  /\ x \in Claims(g, values, a) /\ y \in Claims(g, others, b)
  /\ <<x.value, y.value>> \in pairs /\ x.schema = y.schema
  /\ Formed(x.arena) /\ Formed(y.arena) /\ Same(x.arena, x.input, y.arena, y.input)

LEMMA GraphKids ==
  ASSUME NEW g, IsGraph(g), NEW s \in DOMAIN g.kind
  PROVE  /\ Len(g.kids[s]) \in Nat
         /\ \A k \in 1 .. Len(g.kids[s]) : g.kids[s][k] \in DOMAIN g.kind
         /\ g.kind[s] \in Kinds /\ Arity(g.kind[s], Len(g.kids[s]))
  <1>1. /\ g.kids[s] \in Seq(DOMAIN g.kind) /\ Arity(g.kind[s], Len(g.kids[s]))
        /\ g.kind \in Seq(Kinds)
    BY DEF IsGraph
  <1>2. g.kind[s] \in Kinds
    <2>1. DOMAIN g.kind = 1 .. Len(g.kind)
      BY <1>1, LenProperties
    <2> QED
      BY <1>1, <2>1, ElementOfSeq
  <1> QED
    BY <1>1, <1>2, ElementOfSeq, LenProperties

LEMMA ClaimIs ==
  ASSUME NEW g, NEW values, NEW a, NEW v \in 1 .. Len(values), NEW s \in DOMAIN g.kind,
         NEW arena \in {a} \cup Outputs, NEW i \in Nat
  PROVE  /\ Claim(v, s, arena, i) \in Claims(g, values, a)
         /\ Claim(v, s, arena, i).value = v /\ Claim(v, s, arena, i).schema = s
         /\ Claim(v, s, arena, i).arena = arena /\ Claim(v, s, arena, i).input = i
  BY ZenonT(30) DEF Claim, Claims

(* What is known of related claims one step earlier is known of the parts. *)
LEMMA RelatedParts ==
  ASSUME NEW g, IsGraph(g), NEW values, Ordered(values), NEW others, Ordered(others),
         NEW a, NEW b, NEW pairs, Matched(values, others, pairs),
         NEW x, NEW y, Related(g, values, a, others, b, pairs, x, y)
  PROVE  LET R(u, w) == Related(g, values, a, others, b, pairs, u, w)
             value == values[x.value]
             other == others[y.value]
             mine == x.arena.nodes[x.input]
             yours == y.arena.nodes[y.input]
         IN  /\ x.schema \in DOMAIN g.kind /\ y.schema = x.schema
             /\ value.kind = other.kind /\ Len(value.kids) = Len(other.kids)
             /\ Len(value.kids) \in Nat
             /\ value.kids = << >> <=> other.kids = << >>
             /\ value.kind # "wrap" => value.label = other.label
             /\ mine.kind = yours.kind /\ mine.label = yours.label
             /\ Len(mine.kids) = Len(yours.kids) /\ x.arena.profile = y.arena.profile
             /\ \A s \in DOMAIN g.kind :
                  /\ R(Claim(x.value, s, x.arena, x.input), Claim(y.value, s, y.arena, y.input))
                  /\ \A k \in 1 .. Len(value.kids) :
                       R(Claim(value.kids[k], s, x.arena, x.input),
                         Claim(other.kids[k], s, y.arena, y.input))
                  /\ \A k \in 1 .. Len(value.kids), n \in 1 .. Len(mine.kids) :
                       R(Claim(value.kids[k], s, x.arena, mine.kids[n]),
                         Claim(other.kids[k], s, y.arena, yours.kids[n]))
                  /\ \A o \in Outputs :
                       R(Claim(x.value, s, o, o.root), Claim(y.value, s, o, o.root))
  <1> DEFINE R(u, w) == Related(g, values, a, others, b, pairs, u, w)
             value == values[x.value]
             other == others[y.value]
             mine == x.arena.nodes[x.input]
             yours == y.arena.nodes[y.input]
  <1>1. /\ x.value \in 1 .. Len(values) /\ y.value \in 1 .. Len(others)
        /\ x.schema \in DOMAIN g.kind /\ y.schema = x.schema
        /\ x.arena \in {a} \cup Outputs /\ y.arena \in {b} \cup Outputs
        /\ x.input \in Nat /\ y.input \in Nat
        /\ <<x.value, y.value>> \in pairs
        /\ Formed(x.arena) /\ Formed(y.arena) /\ Same(x.arena, x.input, y.arena, y.input)
    BY DEF Related, Claims
  <1>2. /\ value.kind = other.kind /\ Len(value.kids) = Len(other.kids)
        /\ value.kind # "wrap" => value.label = other.label
        /\ \A k \in 1 .. Len(value.kids) : <<value.kids[k], other.kids[k]>> \in pairs
    <2>1. \A p \in pairs :
            /\ values[p[1]].kind = others[p[2]].kind
            /\ values[p[1]].kind # "wrap" => values[p[1]].label = others[p[2]].label
            /\ Len(values[p[1]].kids) = Len(others[p[2]].kids)
            /\ \A k \in 1 .. Len(values[p[1]].kids) :
                 <<values[p[1]].kids[k], others[p[2]].kids[k]>> \in pairs
      BY DEF Matched
    <2> DEFINE p == <<x.value, y.value>>
    <2>2. p \in pairs /\ p[1] = x.value /\ p[2] = y.value
      BY <1>1
    <2> HIDE DEF p
    <2> QED
      BY <2>1, <2>2
  <1>3. /\ Len(value.kids) \in Nat /\ (value.kids = << >> <=> other.kids = << >>)
        /\ \A k \in 1 .. Len(value.kids) :
             value.kids[k] \in 1 .. Len(values) /\ other.kids[k] \in 1 .. Len(others)
    <2>1. /\ IsSequence(value.kids) /\ IsSequence(other.kids)
          /\ IsSequence(values) /\ IsSequence(others)
          /\ \A k \in 1 .. Len(value.kids) : value.kids[k] \in 1 .. x.value - 1
          /\ \A k \in 1 .. Len(other.kids) : other.kids[k] \in 1 .. y.value - 1
      BY <1>1 DEF Ordered, IsValue
    <2>2. /\ Len(value.kids) \in Nat /\ (value.kids = << >> <=> Len(value.kids) = 0)
          /\ Len(other.kids) \in Nat /\ (other.kids = << >> <=> Len(other.kids) = 0)
          /\ Len(values) \in Nat /\ Len(others) \in Nat
      BY <2>1, LengthIs
    <2>3. ASSUME NEW k \in 1 .. Len(value.kids)
          PROVE  value.kids[k] \in 1 .. Len(values) /\ other.kids[k] \in 1 .. Len(others)
      <3>1. value.kids[k] \in 1 .. x.value - 1
        BY <2>1
      <3>2. k \in 1 .. Len(other.kids)
        BY <1>2
      <3>3. other.kids[k] \in 1 .. y.value - 1
        BY <2>1, <3>2
      <3> HIDE DEF value, other
      <3>4. value.kids[k] \in 1 .. Len(values)
        BY <1>1, <2>2, <3>1
      <3>5. other.kids[k] \in 1 .. Len(others)
        BY SMTT(30), <1>1, <2>2, <3>3
      <3> QED
        BY <3>4, <3>5
    <2> QED
      BY <1>2, <2>2, <2>3
  <1>4. /\ mine.kind = yours.kind /\ mine.label = yours.label
        /\ Len(mine.kids) = Len(yours.kids) /\ x.arena.profile = y.arena.profile
        /\ x.input \in 1 .. Len(x.arena.nodes) /\ y.input \in 1 .. Len(y.arena.nodes)
        /\ \A n \in 1 .. Len(mine.kids) : Same(x.arena, mine.kids[n], y.arena, yours.kids[n])
    <2> DEFINE c == x.arena
               d == y.arena
               i == x.input
               j == y.input
    <2>1. Same(c, i, d, j)
      BY <1>1
    <2> HIDE DEF c, d, i, j
    <2>2. /\ i \in 1 .. Len(c.nodes) /\ j \in 1 .. Len(d.nodes) /\ c.profile = d.profile
          /\ c.nodes[i].kind = d.nodes[j].kind /\ c.nodes[i].label = d.nodes[j].label
          /\ Len(c.nodes[i].kids) = Len(d.nodes[j].kids)
          /\ \A k \in 1 .. Len(c.nodes[i].kids) : Same(c, c.nodes[i].kids[k], d, d.nodes[j].kids[k])
      BY <2>1, SameParts
    <2> QED
      BY <2>2 DEF c, d, i, j
  <1>5. ASSUME NEW n \in 1 .. Len(mine.kids)
        PROVE  mine.kids[n] \in Nat /\ yours.kids[n] \in Nat
    <2>1. mine.kids[n] \in 1 .. x.input - 1
      BY Zenon, <1>1, <1>4 DEF Formed
    <2>2. n \in 1 .. Len(yours.kids)
      BY ZenonT(30), <1>4
    <2>3. yours.kids[n] \in 1 .. y.input - 1
      BY Zenon, <1>1, <1>4, <2>2 DEF Formed
    <2> HIDE DEF mine, yours
    <2>4. x.input \in Nat /\ y.input \in Nat
      BY <1>1
    <2> QED
      BY <2>1, <2>3, <2>4
  <1> HIDE DEF value, other, mine, yours
  <1>6. ASSUME NEW u \in 1 .. Len(values), NEW w \in 1 .. Len(others), <<u, w>> \in pairs,
               NEW s \in DOMAIN g.kind, NEW c \in {a} \cup Outputs, NEW d \in {b} \cup Outputs,
               NEW i \in Nat, NEW j \in Nat, Formed(c), Formed(d), Same(c, i, d, j)
        PROVE  R(Claim(u, s, c, i), Claim(w, s, d, j))
    <2> DEFINE one == Claim(u, s, c, i)
               two == Claim(w, s, d, j)
    <2>1. /\ one \in Claims(g, values, a) /\ one.value = u /\ one.schema = s
          /\ one.arena = c /\ one.input = i
      BY DEF Claim, Claims
    <2>2. /\ two \in Claims(g, others, b) /\ two.value = w /\ two.schema = s
          /\ two.arena = d /\ two.input = j
      BY DEF Claim, Claims
    <2> HIDE DEF one, two
    <2>3. R(one, two)
      BY <1>6, <2>1, <2>2 DEF Related
    <2> QED
      BY <2>3 DEF one, two
  <1>7. ASSUME NEW o \in Outputs
        PROVE  /\ o \in {a} \cup Outputs /\ o \in {b} \cup Outputs
               /\ Formed(o) /\ o.root \in Nat /\ Same(o, o.root, o, o.root)
    <2>1. Formed(o)
      BY InputsAssumption, InputIsFormed
    <2>2. o.root \in 1 .. Len(o.nodes) /\ o.root \in Nat
      BY <2>1 DEF Formed
    <2>3. Same(o, o.root, o, o.root)
      BY <2>1, <2>2, SameSelf
    <2> QED
      BY <2>1, <2>2, <2>3
  <1>8. ASSUME NEW s \in DOMAIN g.kind
        PROVE  /\ R(Claim(x.value, s, x.arena, x.input), Claim(y.value, s, y.arena, y.input))
               /\ \A k \in 1 .. Len(value.kids) :
                    R(Claim(value.kids[k], s, x.arena, x.input),
                      Claim(other.kids[k], s, y.arena, y.input))
               /\ \A k \in 1 .. Len(value.kids), n \in 1 .. Len(mine.kids) :
                    R(Claim(value.kids[k], s, x.arena, mine.kids[n]),
                      Claim(other.kids[k], s, y.arena, yours.kids[n]))
               /\ \A o \in Outputs :
                    R(Claim(x.value, s, o, o.root), Claim(y.value, s, o, o.root))
    <2> HIDE DEF R
    <2>1. R(Claim(x.value, s, x.arena, x.input), Claim(y.value, s, y.arena, y.input))
      BY <1>1, <1>6
    <2>2. \A k \in 1 .. Len(value.kids) :
            R(Claim(value.kids[k], s, x.arena, x.input), Claim(other.kids[k], s, y.arena, y.input))
      BY <1>1, <1>2, <1>3, <1>6
    <2>3. \A k \in 1 .. Len(value.kids), n \in 1 .. Len(mine.kids) :
            R(Claim(value.kids[k], s, x.arena, mine.kids[n]),
              Claim(other.kids[k], s, y.arena, yours.kids[n]))
      BY <1>1, <1>2, <1>3, <1>4, <1>5, <1>6
    <2>4. \A o \in Outputs : R(Claim(x.value, s, o, o.root), Claim(y.value, s, o, o.root))
      BY <1>1, <1>6, <1>7
    <2> QED
      BY <2>1, <2>2, <2>3, <2>4
  <1> QED
    BY Zenon, <1>1, <1>2, <1>3, <1>4, <1>8 DEF value, other, mine, yours

(* What a claim says of a value with parts.                                *)
LEMMA MirrorsParts ==
  ASSUME NEW g, NEW md, NEW values, NEW known, NEW x,
         g.kind[x.schema] \in {"sequence", "model"}, Mirrors(g, md, values, known, x)
  PROVE  LET value == values[x.value]
             mine == x.arena.nodes[x.input]
             s(k) == g.kids[x.schema][IF g.kind[x.schema] = "model" THEN k ELSE 1]
         IN  /\ mine.kind = "sequence" /\ value.kind = "sequence" /\ value.label = mine.label
             /\ Len(value.kids) = Len(mine.kids)
             /\ g.kind[x.schema] = "model" => Len(g.kids[x.schema]) = Len(mine.kids)
             /\ \A k \in 1 .. Len(value.kids) :
                  known[Claim(value.kids[k], s(k), x.arena, mine.kids[k])]
  BY DEF Mirrors

(* So what a claim says of a value it says of the other.                   *)
LEMMA MirrorsCarried ==
  ASSUME NEW g, IsGraph(g), NEW md, NEW values, Ordered(values), NEW others, Ordered(others),
         NEW a, NEW b, NEW pairs, Matched(values, others, pairs),
         NEW known, NEW then,
         \A u, w : Related(g, values, a, others, b, pairs, u, w) /\ known[u] => then[w],
         NEW x, NEW y, Related(g, values, a, others, b, pairs, x, y),
         Mirrors(g, md, values, known, x)
  PROVE  Mirrors(g, md, others, then, y)
  <1> DEFINE R(u, w) == Related(g, values, a, others, b, pairs, u, w)
             value == values[x.value]
             other == others[y.value]
             mine == x.arena.nodes[x.input]
             yours == y.arena.nodes[y.input]
             t == x.schema
  <1>1. /\ t \in DOMAIN g.kind /\ y.schema = t
        /\ value.kind = other.kind /\ Len(value.kids) = Len(other.kids)
        /\ Len(value.kids) \in Nat
        /\ value.kids = << >> <=> other.kids = << >>
        /\ value.kind # "wrap" => value.label = other.label
        /\ mine.kind = yours.kind /\ mine.label = yours.label
        /\ Len(mine.kids) = Len(yours.kids) /\ x.arena.profile = y.arena.profile
        /\ \A s \in DOMAIN g.kind :
             /\ R(Claim(x.value, s, x.arena, x.input), Claim(y.value, s, y.arena, y.input))
             /\ \A k \in 1 .. Len(value.kids) :
                  R(Claim(value.kids[k], s, x.arena, x.input),
                    Claim(other.kids[k], s, y.arena, y.input))
             /\ \A k \in 1 .. Len(value.kids), n \in 1 .. Len(mine.kids) :
                  R(Claim(value.kids[k], s, x.arena, mine.kids[n]),
                    Claim(other.kids[k], s, y.arena, yours.kids[n]))
             /\ \A o \in Outputs :
                  R(Claim(x.value, s, o, o.root), Claim(y.value, s, o, o.root))
    BY ZenonT(30), RelatedParts
  <1>2. /\ Len(g.kids[t]) \in Nat
        /\ \A k \in 1 .. Len(g.kids[t]) : g.kids[t][k] \in DOMAIN g.kind
        /\ g.kind[t] \in Kinds /\ Arity(g.kind[t], Len(g.kids[t]))
    BY <1>1, GraphKids
  <1>3. \A u, w : R(u, w) /\ known[u] => then[w]
    OBVIOUS
  <1>4. value.kids # << >> => 1 \in 1 .. Len(value.kids)
    <2>1. IsSequence(value.kids)
      BY DEF Related, Claims, Ordered, IsValue
    <2> QED
      BY <1>1, <2>1, LengthIs
  <1> HIDE DEF R
  <1> DEFINE below(k) == known[Claim(x.value, g.kids[t][k], x.arena, x.input)]
             under(k) == then[Claim(y.value, g.kids[t][k], y.arena, y.input)]
             inner(k) == value.kids # << >> /\ known[Claim(value.kids[1], g.kids[t][k], x.arena, x.input)]
             within(k) == other.kids # << >> /\ then[Claim(other.kids[1], g.kids[t][k], y.arena, y.input)]
  <1>5. ASSUME NEW k \in 1 .. Len(g.kids[t])
        PROVE  /\ below(k) => under(k)
               /\ inner(k) => within(k)
               /\ \A o \in Outputs : known[Claim(x.value, g.kids[t][k], o, o.root)]
                                       => then[Claim(y.value, g.kids[t][k], o, o.root)]
    <2>1. g.kids[t][k] \in DOMAIN g.kind
      BY <1>2
    <2> QED
      BY <1>1, <1>3, <1>4, <2>1
  <1>6. CASE g.kind[t] = "scalar"
    <2>1. /\ mine.kind # "sequence" /\ value.kids = << >>
          /\ value.kind = mine.kind /\ value.label = mine.label
      BY ZenonT(30), <1>6 DEF Mirrors
    <2>2. mine.kind # "wrap"
      BY ZenonT(30) DEF Related, Formed, Claims, Same, Pairs
    <2>3. /\ yours.kind # "sequence" /\ other.kids = << >>
          /\ other.kind = yours.kind /\ other.label = yours.label
      <3> HIDE DEF value, other, mine, yours
      <3> QED
        BY <1>1, <2>1, <2>2
    <2> QED
      BY <1>1, <1>6, <2>3 DEF Mirrors
  <1>7. CASE g.kind[t] \in {"sequence", "model"}
    <2> DEFINE s(k) == g.kids[t][IF g.kind[t] = "model" THEN k ELSE 1]
    <2>1. /\ mine.kind = "sequence" /\ value.kind = "sequence" /\ value.label = mine.label
          /\ Len(value.kids) = Len(mine.kids)
          /\ g.kind[t] = "model" => Len(g.kids[t]) = Len(mine.kids)
          /\ \A k \in 1 .. Len(value.kids) : known[Claim(value.kids[k], s(k), x.arena, mine.kids[k])]
      BY <1>7, MirrorsParts
    <2>2. ASSUME NEW k \in 1 .. Len(other.kids)
          PROVE  then[Claim(other.kids[k], s(k), y.arena, yours.kids[k])]
      <3>1. k \in 1 .. Len(value.kids) /\ k \in 1 .. Len(mine.kids)
        BY Zenon, <1>1, <2>1
      <3>2. (IF g.kind[t] = "model" THEN k ELSE 1) \in 1 .. Len(g.kids[t])
        <4>1. CASE g.kind[t] = "model"
          <5>1. k \in 1 .. Len(g.kids[t])
            BY <2>1, <3>1, <4>1
          <5> QED
            BY <4>1, <5>1
        <4>2. CASE g.kind[t] = "sequence"
          <5>1. Len(g.kids[t]) = 1
            BY <1>2, <4>2 DEF Arity
          <5> QED
            BY <4>2, <5>1
        <4> QED
          BY <1>7, <4>1, <4>2
      <3>3. s(k) \in DOMAIN g.kind
        BY <1>2, <3>2
      <3> HIDE DEF s
      <3>4. known[Claim(value.kids[k], s(k), x.arena, mine.kids[k])]
        BY <2>1, <3>1
      <3>5. R(Claim(value.kids[k], s(k), x.arena, mine.kids[k]),
              Claim(other.kids[k], s(k), y.arena, yours.kids[k]))
        BY <1>1, <3>1, <3>3
      <3> QED
        BY ZenonT(30), <1>3, <3>4, <3>5
    <2>3. /\ yours.kind = "sequence" /\ other.kind = "sequence" /\ other.label = yours.label
          /\ Len(other.kids) = Len(yours.kids)
          /\ g.kind[t] = "model" => Len(g.kids[t]) = Len(yours.kids)
      <3> HIDE DEF value, other, mine, yours, s
      <3> QED
        BY <1>1, <2>1
    <2> QED
      BY ZenonT(30), <1>1, <1>7, <2>2, <2>3 DEF Mirrors
  <1>8. CASE g.kind[t] = "nullable"
    <2>1. value.kind = "wrap" /\ IF mine.kind = "null" THEN value.kids = << >> ELSE inner(1) \/ below(1)
      BY <1>8 DEF Mirrors
    <2>2. 1 \in 1 .. Len(g.kids[t])
      <3>1. Len(g.kids[t]) = 1
        BY <1>2, <1>8 DEF Arity
      <3> QED
        BY <3>1
    <2>3. other.kind = "wrap" /\ IF yours.kind = "null" THEN other.kids = << >> ELSE within(1) \/ under(1)
      <3> HIDE DEF value, other, mine, yours, below, under, inner, within
      <3> QED
        BY <1>1, <1>5, <2>1, <2>2
    <2> QED
      BY <1>1, <1>8, <2>3 DEF Mirrors
  <1>9. CASE g.kind[t] = "union"
    <2>1. value.kind = "wrap" /\ \E k \in 1 .. Len(g.kids[t]) : inner(k) \/ below(k)
      BY <1>9 DEF Mirrors
    <2>2. other.kind = "wrap" /\ \E k \in 1 .. Len(g.kids[t]) : within(k) \/ under(k)
      <3> HIDE DEF value, other, below, under, inner, within
      <3> QED
        BY ZenonT(30), <1>1, <1>5, <2>1
    <2> QED
      BY Zenon, <1>1, <1>9, <2>2 DEF Mirrors
  <1>10. CASE g.kind[t] \in {"definitions", "reference", "field"}
    <2>1. below(1) /\ 1 \in 1 .. Len(g.kids[t])
      BY <1>2, <1>10 DEF Mirrors, Arity
    <2>2. under(1)
      BY SMTT(30), <1>5, <2>1
    <2> QED
      BY Zenon, <1>1, <1>10, <2>2 DEF Mirrors
  <1>11. CASE g.kind[t] = "lax_or_strict"
    <2>1. below(1) \/ below(2)
      BY <1>11 DEF Mirrors
    <2>2. Len(g.kids[t]) = 2
      BY <1>2, <1>11 DEF Arity
    <2>3. under(1) \/ under(2)
      <3> HIDE DEF below, under
      <3> QED
        BY <1>5, <2>1, <2>2
    <2> QED
      BY <1>1, <1>11, <2>3 DEF Mirrors
  <1>12. CASE g.kind[t] = "json_or_structural"
    <2> DEFINE j == IF x.arena.profile = "json" THEN 1 ELSE 2
    <2>1. below(j) /\ j \in 1 .. Len(g.kids[t])
      <3>1. Len(g.kids[t]) = 2
        BY <1>2, <1>12 DEF Arity
      <3>2. below(j)
        BY <1>12 DEF Mirrors
      <3> QED
        BY <3>1, <3>2
    <2>2. under(j) /\ j = IF y.arena.profile = "json" THEN 1 ELSE 2
      BY ZenonT(30), <1>1, <1>5, <2>1
    <2> QED
      BY <1>1, <1>12, <2>2 DEF Mirrors
  <1>13. CASE g.kind[t] = "chain"
    <2> DEFINE j == Len(g.kids[t])
    <2>1. (HandsOnInput(g, md, t) => below(j)) /\ j \in 1 .. Len(g.kids[t])
      BY <1>2, <1>13 DEF Mirrors, Arity
    <2>2. HandsOnInput(g, md, t) => under(j)
      BY <1>5, <2>1
    <2> QED
      BY <1>1, <1>13, <2>2 DEF Mirrors
  <1>14. CASE g.kind[t] \in Functions
    <2> DEFINE j == IF g.kind[t] = "function_after" THEN 1 ELSE 2
    <2>1. 2 \in 1 .. Len(g.kids[t]) /\ j \in 1 .. Len(g.kids[t])
      <3>1. Len(g.kids[t]) = 2
        BY ZenonT(30), <1>2, <1>14 DEF Arity
      <3> QED
        BY <3>1
    <2>2. CASE md = "serialization"
      <3>1. below(j)
        BY Zenon, <1>14, <2>2 DEF Mirrors, Functions
      <3>2. under(j)
        BY ZenonT(30), <1>5, <2>1, <3>1
      <3> QED
        BY ZenonT(30), <1>1, <1>14, <2>2, <3>2 DEF Mirrors, Functions
    <2>3. CASE md # "serialization"
      <3>1. \E o \in Outputs : known[Claim(x.value, g.kids[t][2], o, o.root)]
        BY <1>14, <2>3 DEF Mirrors, Functions
      <3>2. \E o \in Outputs : then[Claim(y.value, g.kids[t][2], o, o.root)]
        BY <1>5, <2>1, <3>1
      <3> QED
        BY ZenonT(30), <1>1, <1>14, <2>3, <3>2 DEF Mirrors, Functions
    <2> QED
      BY <2>2, <2>3
  <1> HIDE DEF t
  <1> QED
    BY <1>2, <1>6, <1>7, <1>8, <1>9, <1>10, <1>11, <1>12, <1>13, <1>14 DEF Kinds, Functions

(* A claim that holds in n steps holds in more, of the same value wherever *)
(* it stands, and at the same input wherever that stands.                  *)
LEMMA Carried ==
  ASSUME NEW g, IsGraph(g), NEW md, NEW values, Ordered(values), NEW others, Ordered(others),
         NEW a, NEW b, NEW pairs, Matched(values, others, pairs),
         NEW x, NEW y, Related(g, values, a, others, b, pairs, x, y),
         NEW n \in 0 .. Steps, NEW m \in n .. Steps, Conforming(g, md, values, a)[n][x]
  PROVE  Conforming(g, md, others, b)[m][y]
  <1> DEFINE R(u, w) == Related(g, values, a, others, b, pairs, u, w)
             known == Conforming(g, md, values, a)
             then == Conforming(g, md, others, b)
             S == {k \in Nat : \A l \in Nat : k <= l /\ l <= Steps =>
                                 \A u, w : R(u, w) /\ known[k][u] => then[l][w]}
  <1>1. /\ \A u \in Claims(g, values, a) : ~known[0][u]
        /\ \A k \in 1 .. Steps : \A u \in Claims(g, values, a) :
             known[k][u] = Mirrors(g, md, values, known[k - 1], u)
    BY ConformingIs
  <1>2. \A k \in 1 .. Steps : \A w \in Claims(g, others, b) :
          then[k][w] = Mirrors(g, md, others, then[k - 1], w)
    BY ConformingIs
  <1>3. \A u, w : R(u, w) => u \in Claims(g, values, a) /\ w \in Claims(g, others, b)
    BY DEF Related
  <1>4. \A before, after, u, w :
          /\ \A c, d : R(c, d) /\ before[c] => after[d]
          /\ R(u, w) /\ Mirrors(g, md, values, before, u)
          => Mirrors(g, md, others, after, w)
    BY MirrorsCarried
  <1> HIDE DEF R, known, then
  <1>5. 0 \in S
    BY <1>1, <1>3
  <1>6. ASSUME NEW k \in S PROVE k + 1 \in S
    <2>1. k \in Nat /\ k + 1 \in Nat
      OBVIOUS
    <2>2. ASSUME NEW l \in Nat, k + 1 <= l, l <= Steps, NEW u, NEW w, R(u, w), known[k + 1][u]
          PROVE  then[l][w]
      <3>1. l - 1 \in Nat /\ k <= l - 1 /\ l - 1 <= Steps /\ l \in 1 .. Steps /\ k + 1 \in 1 .. Steps
            /\ k + 1 - 1 = k
        BY <2>1, <2>2, StepsAreNatural
      <3>2. \A c, d : R(c, d) /\ known[k][c] => then[l - 1][d]
        BY <3>1
      <3>3. Mirrors(g, md, values, known[k], u)
        BY <1>1, <1>3, <2>2, <3>1
      <3>4. Mirrors(g, md, others, then[l - 1], w)
        BY <1>4, <2>2, <3>2, <3>3
      <3> QED
        BY <1>2, <1>3, <2>2, <3>1, <3>4
    <2> QED
      BY <2>1, <2>2
  <1>7. S = Nat
    <2>1. S \in SUBSET Nat
      OBVIOUS
    <2> HIDE DEF S
    <2> QED
      BY <1>5, <1>6, <2>1, AllNaturals
  <1>8. n \in S /\ m \in Nat /\ n <= m /\ m <= Steps
    BY <1>7, StepsAreNatural
  <1>9. R(x, y) /\ known[n][x]
    BY DEF R, known
  <1>10. then[m][y]
    BY <1>8, <1>9
  <1> QED
    BY <1>10 DEF then

(* The value conforms to the schema at the node, as can be told in n steps. *)
Conforms(g, md, n, values, v, s, a, i) ==
  /\ Ordered(values) /\ v \in 1 .. Len(values) /\ s \in DOMAIN g.kind
  /\ Formed(a) /\ i \in 1 .. Len(a.nodes)
  /\ Conforming(g, md, values, a)[n][Claim(v, s, a, i)]

LEMMA ConformsCarried ==
  ASSUME NEW g, IsGraph(g), NEW md, NEW values, NEW others, Ordered(others),
         NEW pairs, Matched(values, others, pairs), NEW v, NEW w, <<v, w>> \in pairs,
         NEW a, NEW i, NEW b, Formed(b), NEW j, Same(a, i, b, j), NEW s,
         NEW n \in 0 .. Steps, NEW m \in n .. Steps, Conforms(g, md, n, values, v, s, a, i)
  PROVE  Conforms(g, md, m, others, w, s, b, j)
  <1> DEFINE x == Claim(v, s, a, i)
             y == Claim(w, s, b, j)
  <1>1. /\ Ordered(values) /\ v \in 1 .. Len(values) /\ s \in DOMAIN g.kind
        /\ Formed(a) /\ i \in 1 .. Len(a.nodes)
        /\ Conforming(g, md, values, a)[n][x]
    BY DEF Conforms
  <1>2. w \in 1 .. Len(others) /\ j \in 1 .. Len(b.nodes)
    BY SameParts DEF Matched
  <1>3. Len(a.nodes) \in Nat /\ Len(b.nodes) \in Nat
    BY <1>1 DEF Formed
  <1>4. i \in Nat /\ j \in Nat /\ a \in {a} \cup Outputs /\ b \in {b} \cup Outputs
    BY <1>1, <1>2, <1>3
  <1>5. /\ x \in Claims(g, values, a) /\ x.value = v /\ x.schema = s /\ x.arena = a /\ x.input = i
    BY <1>1, <1>4 DEF Claim, Claims
  <1>6. /\ y \in Claims(g, others, b) /\ y.value = w /\ y.schema = s /\ y.arena = b /\ y.input = j
    BY <1>1, <1>2, <1>4 DEF Claim, Claims
  <1> HIDE DEF x, y
  <1>7. Related(g, values, a, others, b, pairs, x, y)
    BY <1>1, <1>5, <1>6 DEF Related
  <1>8. Conforming(g, md, others, b)[m][y]
    BY <1>1, <1>7, Carried
  <1> QED
    BY <1>1, <1>2, <1>8 DEF Conforms, y

(* What a step tells of a value, from what is told in one less.            *)
LEMMA ConformsByMirroring ==
  ASSUME NEW g, NEW md, NEW n \in 0 .. Steps - 1, NEW values, Ordered(values),
         NEW v \in 1 .. Len(values), NEW s \in DOMAIN g.kind, NEW a, Formed(a),
         NEW i \in 1 .. Len(a.nodes),
         Mirrors(g, md, values, Conforming(g, md, values, a)[n], Claim(v, s, a, i))
  PROVE  Conforms(g, md, n + 1, values, v, s, a, i)
  <1> DEFINE x == Claim(v, s, a, i)
             known == Conforming(g, md, values, a)
  <1>1. Len(a.nodes) \in Nat
    BY DEF Formed
  <1>2. x \in Claims(g, values, a)
    BY <1>1 DEF Claim, Claims
  <1>3. n + 1 \in 1 .. Steps /\ n + 1 - 1 = n
    BY StepsAreNatural
  <1>4. \A k \in 1 .. Steps : \A u \in Claims(g, values, a) :
          known[k][u] = Mirrors(g, md, values, known[k - 1], u)
    BY ConformingIs
  <1>5. Mirrors(g, md, values, known[n], x)
    OBVIOUS
  <1> HIDE DEF x, known
  <1>6. known[n + 1][x]
    BY <1>2, <1>3, <1>4, <1>5
  <1> QED
    BY <1>6 DEF Conforms, x, known

-----------------------------------------------------------------------------
(* Arenas grow at their end: the values they have stay where they are.     *)
Extends(values, others) ==
  /\ Ordered(values) /\ Ordered(others) /\ Len(values) <= Len(others)
  /\ \A v \in 1 .. Len(values) : others[v] = values[v]

LEMMA OrderedIs ==
  ASSUME NEW values, Ordered(values)
  PROVE  /\ IsSequence(values) /\ Len(values) \in Nat
         /\ \A v \in 1 .. Len(values) :
              /\ IsValue(values[v]) /\ Len(values[v].kids) \in Nat
              /\ \A k \in 1 .. Len(values[v].kids) :
                   values[v].kids[k] \in 1 .. v - 1 /\ values[v].kids[k] \in 1 .. Len(values)
  <1>1. IsSequence(values) /\ Len(values) \in Nat
    BY LengthIs DEF Ordered
  <1>2. ASSUME NEW v \in 1 .. Len(values)
        PROVE  /\ IsValue(values[v]) /\ Len(values[v].kids) \in Nat
               /\ \A k \in 1 .. Len(values[v].kids) :
                    values[v].kids[k] \in 1 .. v - 1 /\ values[v].kids[k] \in 1 .. Len(values)
    <2>1. IsValue(values[v]) /\ \A k \in 1 .. Len(values[v].kids) : values[v].kids[k] \in 1 .. v - 1
      BY DEF Ordered
    <2>2. Len(values[v].kids) \in Nat
      BY <2>1, LengthIs DEF IsValue
    <2>3. \A k : k \in 1 .. v - 1 => k \in 1 .. Len(values)
      BY <1>1
    <2> QED
      BY <2>1, <2>2, <2>3
  <1> QED
    BY <1>1, <1>2

LEMMA ExtendsItself ==
  ASSUME NEW values, Ordered(values)
  PROVE  Extends(values, values)
  BY OrderedIs DEF Extends

LEMMA ExtendsMatches ==
  ASSUME NEW values, NEW others, Extends(values, others)
  PROVE  \E pairs : /\ Matched(values, others, pairs)
                    /\ \A v \in 1 .. Len(values) : <<v, v>> \in pairs
  <1> DEFINE pairs == {<<v, v>> : v \in 1 .. Len(values)}
  <1>1. \A p \in pairs : p[1] \in 1 .. Len(values) /\ p[2] = p[1]
    OBVIOUS
  <1>2. \A v \in 1 .. Len(values) : <<v, v>> \in pairs
    OBVIOUS
  <1>3. \A v \in 1 .. Len(values) : v \in 1 .. Len(others) /\ others[v] = values[v]
    BY OrderedIs DEF Extends
  <1>4. \A v \in 1 .. Len(values) : \A k \in 1 .. Len(values[v].kids) :
          values[v].kids[k] \in 1 .. Len(values)
    BY OrderedIs DEF Extends
  <1> HIDE DEF pairs
  <1>5. Matched(values, others, pairs)
    BY <1>1, <1>2, <1>3, <1>4 DEF Matched
  <1> QED
    BY <1>2, <1>5

LEMMA PushedExtends ==
  ASSUME NEW values, Ordered(values), NEW value, IsValue(value),
         \A k \in 1 .. Len(value.kids) : value.kids[k] \in 1 .. Len(values)
  PROVE  LET others == Append(values, value)
         IN  /\ Extends(values, others)
             /\ Len(others) = Len(values) + 1 /\ others[Len(values) + 1] = value
  <1> DEFINE others == Append(values, value)
  <1>1. /\ IsSequence(others) /\ Len(values) \in Nat /\ Len(others) = Len(values) + 1
        /\ \A i \in 1 .. Len(values) : others[i] = values[i]
        /\ others[Len(values) + 1] = value
    BY OrderedIs, AppendIs
  <1> HIDE DEF others
  <1>2. ASSUME NEW v \in 1 .. Len(others)
        PROVE  /\ IsValue(others[v])
               /\ \A k \in 1 .. Len(others[v].kids) : others[v].kids[k] \in 1 .. v - 1
    <2>1. CASE v \in 1 .. Len(values)
      BY <1>1, <2>1 DEF Ordered
    <2>2. CASE v = Len(values) + 1
      <3>1. others[v] = value /\ v - 1 = Len(values)
        BY <1>1, <2>2
      <3> QED
        BY <3>1
    <2>3. v \in 1 .. Len(values) \/ v = Len(values) + 1
      BY <1>1
    <2> QED
      BY <2>1, <2>2, <2>3
  <1>3. Ordered(others)
    BY <1>1, <1>2 DEF Ordered
  <1>4. Extends(values, others)
    BY <1>1, <1>3 DEF Extends
  <1> QED
    BY <1>1, <1>4 DEF others

LEMMA ConcatIs ==
  ASSUME NEW s, IsSequence(s), NEW t, IsSequence(t)
  PROVE  /\ IsSequence(s \o t) /\ Len(s \o t) = Len(s) + Len(t)
         /\ \A i \in 1 .. Len(s) : (s \o t)[i] = s[i]
         /\ \A i \in 1 .. Len(t) : (s \o t)[Len(s) + i] = t[i]
  <1> DEFINE A == {s[i] : i \in 1 .. Len(s)}
             B == {t[i] : i \in 1 .. Len(t)}
             r == s \o t
  <1>1. s \in Seq(A \cup B) /\ t \in Seq(A \cup B) /\ Len(s) \in Nat /\ Len(t) \in Nat
    BY SeqMonotonic, LengthIs DEF IsSequence
  <1> HIDE DEF A, B
  <1>2. /\ r \in Seq(A \cup B) /\ Len(r) = Len(s) + Len(t)
        /\ \A i \in 1 .. Len(s) + Len(t) : r[i] = IF i <= Len(s) THEN s[i] ELSE t[i - Len(s)]
    BY <1>1, ConcatProperties
  <1> HIDE DEF r
  <1>3. ASSUME NEW i \in 1 .. Len(s) PROVE r[i] = s[i]
    BY <1>1, <1>2
  <1>4. ASSUME NEW i \in 1 .. Len(t) PROVE r[Len(s) + i] = t[i]
    <2>1. Len(s) + i \in 1 .. Len(s) + Len(t) /\ ~(Len(s) + i <= Len(s)) /\ Len(s) + i - Len(s) = i
      BY <1>1
    <2> QED
      BY <1>2, <2>1
  <1>5. IsSequence(r)
    BY <1>2, IsSequenceOf
  <1> QED
    BY <1>2, <1>3, <1>4, <1>5 DEF r

LEMMA TableIs ==
  ASSUME NEW n \in Nat, NEW f, f = [i \in 1 .. n |-> f[i]]
  PROVE  IsSequence(f) /\ Len(f) = n
  <1> DEFINE S == {f[i] : i \in 1 .. n}
  <1>1. f \in [1 .. n -> S]
    OBVIOUS
  <1> HIDE DEF S
  <1>2. f \in Seq(S) /\ Len(f) = n
    BY <1>1, LenProperties, SeqDef
  <1> QED
    BY <1>2, IsSequenceOf

(* An import puts values behind those that are there.                      *)
LEMMA ImportedIs ==
  ASSUME NEW values, Ordered(values), NEW others, Ordered(others)
  PROVE  LET all == Imported(values, others)
         IN  /\ Extends(values, all) /\ Len(all) = Len(values) + Len(others)
             /\ \A v \in 1 .. Len(others) :
                  /\ all[Len(values) + v].kind = others[v].kind
                  /\ all[Len(values) + v].label = others[v].label
                  /\ Len(all[Len(values) + v].kids) = Len(others[v].kids)
                  /\ \A k \in 1 .. Len(others[v].kids) :
                       all[Len(values) + v].kids[k] = others[v].kids[k] + Len(values)
  <1> DEFINE n == Len(values)
             moved(v) == [k \in 1 .. Len(others[v].kids) |-> others[v].kids[k] + n]
             second == [v \in 1 .. Len(others) |-> [others[v] EXCEPT !.kids = moved(v)]]
             all == Imported(values, others)
  <1>1. /\ IsSequence(values) /\ n \in Nat /\ IsSequence(others) /\ Len(others) \in Nat
        /\ \A v \in 1 .. Len(others) :
             /\ IsValue(others[v]) /\ Len(others[v].kids) \in Nat
             /\ \A k \in 1 .. Len(others[v].kids) : others[v].kids[k] \in 1 .. v - 1
    BY OrderedIs
  <1>2. all = values \o second
    BY Zenon DEF Imported
  <1>3. IsSequence(second) /\ Len(second) = Len(others)
    <2>1. second = [v \in 1 .. Len(others) |-> second[v]]
      OBVIOUS
    <2> HIDE DEF second
    <2> QED
      BY <1>1, <2>1, TableIs
  <1>4. ASSUME NEW v \in 1 .. Len(others)
        PROVE  /\ second[v] = [kind |-> others[v].kind, label |-> others[v].label, kids |-> moved(v)]
               /\ IsSequence(moved(v)) /\ Len(moved(v)) = Len(others[v].kids)
               /\ \A k \in 1 .. Len(others[v].kids) : moved(v)[k] = others[v].kids[k] + n
    <2> DEFINE m == moved(v)
    <2>1. m = [k \in 1 .. Len(others[v].kids) |-> m[k]]
          /\ \A k \in 1 .. Len(others[v].kids) : m[k] = others[v].kids[k] + n
      OBVIOUS
    <2>2. second[v] = [others[v] EXCEPT !.kids = m]
      OBVIOUS
    <2> HIDE DEF m, second
    <2>3. IsSequence(m) /\ Len(m) = Len(others[v].kids)
      BY <1>1, <2>1, TableIs
    <2>4. second[v] = [kind |-> others[v].kind, label |-> others[v].label, kids |-> m]
      BY <1>1, <2>2 DEF IsValue
    <2> QED
      BY <2>1, <2>3, <2>4 DEF m
  <1> HIDE DEF second, moved, all
  <1>5. /\ IsSequence(all) /\ Len(all) = n + Len(others)
        /\ \A v \in 1 .. n : all[v] = values[v]
        /\ \A v \in 1 .. Len(others) : all[n + v] = second[v]
    <2>1. /\ IsSequence(values \o second) /\ Len(values \o second) = Len(values) + Len(second)
          /\ \A i \in 1 .. Len(values) : (values \o second)[i] = values[i]
          /\ \A i \in 1 .. Len(second) : (values \o second)[Len(values) + i] = second[i]
      <3>1. IsSequence(values)
        BY <1>1
      <3>2. IsSequence(second)
        BY <1>3
      <3> QED
        BY <3>1, <3>2, ConcatIs
    <2> QED
      BY <1>2, <1>3, <2>1
  <1>6. ASSUME NEW v \in 1 .. Len(all)
        PROVE  /\ IsValue(all[v])
               /\ \A k \in 1 .. Len(all[v].kids) : all[v].kids[k] \in 1 .. v - 1
    <2>1. CASE v \in 1 .. n
      BY <1>5, <2>1 DEF Ordered, n
    <2>2. CASE v \notin 1 .. n
      <3> DEFINE u == v - n
      <3>1. u \in 1 .. Len(others) /\ v = n + u
        BY <1>1, <1>5, <2>2
      <3> HIDE DEF u
      <3>2. /\ all[v] = [kind |-> others[u].kind, label |-> others[u].label, kids |-> moved(u)]
            /\ IsSequence(moved(u)) /\ Len(moved(u)) = Len(others[u].kids)
            /\ \A k \in 1 .. Len(others[u].kids) : moved(u)[k] = others[u].kids[k] + n
        BY <1>4, <1>5, <3>1
      <3>3. others[u].kids = << >> => moved(u) = << >>
        <4>1. IsSequence(others[u].kids)
          BY <1>1, <3>1 DEF IsValue
        <4> QED
          BY <3>2, <4>1, LengthIs
      <3>4. IsValue(all[v])
        <4> DEFINE r == all[v]
        <4>1. /\ r = [kind |-> others[u].kind, label |-> others[u].label, kids |-> moved(u)]
              /\ r.kind = others[u].kind /\ r.label = others[u].label /\ r.kids = moved(u)
          BY <3>2
        <4>2. /\ others[u].kind \in {"null", "leaf", "sequence", "wrap"}
              /\ others[u].kind \in {"null", "leaf"} => others[u].kids = << >>
              /\ others[u].kind = "null" => others[u].label = 0
          BY <1>1, <3>1 DEF IsValue
        <4> HIDE DEF r
        <4>3. IsValue(r)
          BY <3>2, <3>3, <4>1, <4>2 DEF IsValue
        <4> QED
          BY <4>3 DEF r
      <3>5. ASSUME NEW k \in 1 .. Len(others[u].kids) PROVE others[u].kids[k] + n \in 1 .. v - 1
        <4>1. others[u].kids[k] \in 1 .. u - 1
          BY <1>1, <3>1
        <4> QED
          BY SMTT(30), <1>1, <3>1, <4>1
      <3> QED
        BY <3>2, <3>4, <3>5
    <2> QED
      BY <2>1, <2>2
  <1>7. Ordered(all)
    BY <1>5, <1>6 DEF Ordered
  <1>8. Extends(values, all)
    BY <1>1, <1>5, <1>7 DEF Extends, n
  <1>9. ASSUME NEW v \in 1 .. Len(others)
        PROVE  /\ all[n + v].kind = others[v].kind /\ all[n + v].label = others[v].label
               /\ Len(all[n + v].kids) = Len(others[v].kids)
               /\ \A k \in 1 .. Len(others[v].kids) : all[n + v].kids[k] = others[v].kids[k] + n
    <2> DEFINE m == moved(v)
               r == all[n + v]
    <2>1. r = [kind |-> others[v].kind, label |-> others[v].label, kids |-> m]
      BY <1>4, <1>5
    <2>2. /\ Len(m) = Len(others[v].kids)
          /\ \A k \in 1 .. Len(others[v].kids) : m[k] = others[v].kids[k] + n
      BY <1>4
    <2> HIDE DEF m, r
    <2>3. r.kind = others[v].kind /\ r.label = others[v].label /\ r.kids = m
      BY <2>1
    <2> QED
      BY <2>2, <2>3 DEF r
  <1> QED
    BY <1>5, <1>8, <1>9 DEF all, n

(* A value conforms wherever it and its input stand, and however the       *)
(* arena grows.                                                            *)
LEMMA ConformsInMore ==
  ASSUME NEW g, IsGraph(g), NEW md, NEW values, NEW others, Extends(values, others), NEW v, NEW s,
         NEW a, NEW i, NEW b, Formed(b), NEW j, Same(a, i, b, j),
         NEW n \in 0 .. Steps, NEW m \in n .. Steps, Conforms(g, md, n, values, v, s, a, i)
  PROVE  Conforms(g, md, m, others, v, s, b, j)
  <1>1. PICK pairs : /\ Matched(values, others, pairs)
                     /\ \A u \in 1 .. Len(values) : <<u, u>> \in pairs
    BY ExtendsMatches
  <1>2. <<v, v>> \in pairs /\ Ordered(others)
    BY <1>1 DEF Conforms, Extends
  <1> QED
    BY <1>1, <1>2, ConformsCarried

LEMMA ConformsThere ==
  ASSUME NEW g, NEW md, NEW n, NEW values, NEW v, NEW s, NEW a, NEW i,
         Conforms(g, md, n, values, v, s, a, i)
  PROVE  Same(a, i, a, i) /\ Formed(a) /\ Ordered(values) /\ Extends(values, values)
         /\ v \in 1 .. Len(values) /\ i \in 1 .. Len(a.nodes)
  BY SameSelf, ExtendsItself DEF Conforms

LEMMA ConformsImported ==
  ASSUME NEW g, IsGraph(g), NEW md, NEW values, Ordered(values), NEW others, NEW v, NEW s,
         NEW a, NEW i, NEW b, Formed(b), NEW j, Same(a, i, b, j),
         NEW n \in 0 .. Steps, NEW m \in n .. Steps, Conforms(g, md, n, others, v, s, a, i)
  PROVE  Conforms(g, md, m, Imported(values, others), Len(values) + v, s, b, j)
  <1> DEFINE all == Imported(values, others)
             at == Len(values)
             pairs == {<<u, at + u>> : u \in 1 .. Len(others)}
  <1>1. Ordered(others) /\ v \in 1 .. Len(others)
    BY DEF Conforms
  <1>2. /\ Ordered(all) /\ Len(all) = at + Len(others) /\ at \in Nat /\ Len(others) \in Nat
        /\ \A u \in 1 .. Len(others) :
             /\ all[at + u].kind = others[u].kind
             /\ all[at + u].label = others[u].label
             /\ Len(all[at + u].kids) = Len(others[u].kids)
             /\ \A k \in 1 .. Len(others[u].kids) : all[at + u].kids[k] = others[u].kids[k] + at
    BY <1>1, ImportedIs, OrderedIs DEF Extends
  <1>3. \A p \in pairs : p[1] \in 1 .. Len(others) /\ p[2] = at + p[1]
    OBVIOUS
  <1>4. \A u \in 1 .. Len(others) : <<u, at + u>> \in pairs
    OBVIOUS
  <1> HIDE DEF pairs, all, at
  <1>5. ASSUME NEW u \in 1 .. Len(others)
        PROVE  /\ at + u \in 1 .. Len(all)
               /\ others[u].kind = all[at + u].kind /\ others[u].label = all[at + u].label
               /\ Len(others[u].kids) = Len(all[at + u].kids)
               /\ \A k \in 1 .. Len(others[u].kids) : <<others[u].kids[k], all[at + u].kids[k]>> \in pairs
    <2>1. at + u \in 1 .. Len(all)
      BY <1>2
    <2>2. ASSUME NEW k \in 1 .. Len(others[u].kids)
          PROVE  <<others[u].kids[k], all[at + u].kids[k]>> \in pairs
      <3> DEFINE x == others[u].kids[k]
                 y == all[at + u].kids[k]
      <3>1. x \in 1 .. Len(others)
        BY <1>1, OrderedIs
      <3>2. y = x + at
        BY <1>2
      <3> HIDE DEF x, y
      <3>3. y = at + x
        BY <1>2, <3>1, <3>2
      <3>4. <<x, y>> \in pairs
        BY <1>4, <3>1, <3>3
      <3> QED
        BY <3>4 DEF x, y
    <2> QED
      BY <1>2, <2>1, <2>2
  <1>6. Matched(others, all, pairs)
    BY <1>3, <1>5 DEF Matched
  <1>7. <<v, at + v>> \in pairs
    BY <1>1, <1>4
  <1>8. Conforms(g, md, m, all, at + v, s, b, j)
    BY <1>2, <1>6, <1>7, ConformsCarried
  <1> QED
    BY <1>8 DEF all, at

(* The arena of a value with the wrapper of a sum around it: the wrapper   *)
(* is another for the wrapper it replaces, or around what it imports.      *)
Wrapped(values, candidate, flat) ==
  LET selected == Selected(candidate, flat)
  IN  Append(IF selected = << >> THEN values ELSE Imported(values, candidate.values),
             [kind |-> "wrap", label |-> 0,
              kids |-> [k \in 1 .. Len(selected) |-> selected[k] + Len(values)]])

LEMMA WrappedIs ==
  ASSUME NEW values, Ordered(values), NEW candidate, Ordered(candidate.values),
         candidate.id \in 1 .. Len(candidate.values), NEW flat
  PROVE  LET all == Wrapped(values, candidate, flat)
             w == Len(all)
             others == candidate.values
             root == others[candidate.id]
             at == Len(values)
             selected == Selected(candidate, flat)
         IN  /\ Extends(values, all) /\ w \in Nat \ {0} /\ at \in Nat
             /\ IsSequence(selected) /\ Len(selected) \in Nat
             /\ all[w].kind = "wrap" /\ Len(all[w].kids) = Len(selected)
             /\ all[w].kids = << >> <=> selected = << >>
             /\ \A k \in 1 .. Len(selected) : all[w].kids[k] = selected[k] + at
             /\ \A k \in 1 .. Len(selected) : selected[k] \in 1 .. Len(others)
             /\ selected # << >> =>
                  /\ Extends(Imported(values, others), all)
                  /\ Len(Imported(values, others)) = w - 1 /\ w - 1 = at + Len(others)
             /\ selected = << >> => w = at + 1
  <1> DEFINE all == Wrapped(values, candidate, flat)
             w == Len(all)
             others == candidate.values
             root == others[candidate.id]
             at == Len(values)
             selected == Selected(candidate, flat)
             before == IF selected = << >> THEN values ELSE Imported(values, others)
             ids == [k \in 1 .. Len(selected) |-> selected[k] + at]
             new == [kind |-> "wrap", label |-> 0, kids |-> ids]
  <1>1. /\ at \in Nat /\ Len(others) \in Nat /\ IsValue(root) /\ Len(root.kids) \in Nat
        /\ \A k \in 1 .. Len(root.kids) : root.kids[k] \in 1 .. Len(others)
    BY OrderedIs
  <1>2. /\ IsSequence(selected) /\ Len(selected) \in Nat
        /\ \A k \in 1 .. Len(selected) : selected[k] \in 1 .. Len(others)
    <2>1. CASE flat /\ root.kind = "wrap"
      <3>1. selected = root.kids
        BY <2>1 DEF Selected
      <3> HIDE DEF selected, root, others
      <3> QED
        BY <1>1, <3>1 DEF IsValue
    <2>2. CASE ~(flat /\ root.kind = "wrap")
      <3>1. selected = <<candidate.id>>
        BY <2>2 DEF Selected
      <3>2. IsSequence(<<candidate.id>>) /\ Len(<<candidate.id>>) = 1 /\ <<candidate.id>>[1] = candidate.id
        BY OneIs
      <3> HIDE DEF selected
      <3> QED
        BY <3>1, <3>2
    <2> QED
      BY <2>1, <2>2
  <1> HIDE DEF selected
  <1>3. /\ Extends(values, Imported(values, others))
        /\ Len(Imported(values, others)) = at + Len(others)
    BY ImportedIs
  <1>4. /\ Extends(values, before) /\ Ordered(before)
        /\ selected = << >> => before = values
        /\ selected # << >> => before = Imported(values, others) /\ Len(before) = at + Len(others)
    BY <1>3, ExtendsItself DEF Extends
  <1>5. /\ ids = [k \in 1 .. Len(selected) |-> ids[k]]
        /\ \A k \in 1 .. Len(selected) : ids[k] = selected[k] + at
    OBVIOUS
  <1>6. all = Append(before, new)
    BY Zenon DEF Wrapped, selected
  <1> HIDE DEF before, ids, all
  <1>7. IsSequence(ids) /\ Len(ids) = Len(selected)
    BY <1>2, <1>5, TableIs
  <1>8. /\ new.kind = "wrap" /\ new.kids = ids /\ IsValue(new)
    BY <1>7 DEF IsValue
  <1>9. (ids = << >> <=> selected = << >>) /\ (selected = << >> <=> Len(selected) = 0)
    BY <1>2, <1>7, LengthIs
  <1>10. \A k \in 1 .. Len(new.kids) : new.kids[k] \in 1 .. Len(before)
    <2> SUFFICES ASSUME NEW k \in 1 .. Len(ids) PROVE ids[k] \in 1 .. Len(before)
      BY <1>8
    <2>1. k \in 1 .. Len(selected) /\ selected # << >>
      BY <1>2, <1>7, <1>9
    <2>2. selected[k] \in 1 .. Len(others) /\ ids[k] = selected[k] + at
          /\ Len(before) = at + Len(others)
      BY <1>2, <1>4, <1>5, <2>1
    <2> HIDE DEF others, at
    <2> QED
      BY <1>1, <2>2
  <1> HIDE DEF new
  <1>11. /\ Extends(before, all) /\ Len(all) = Len(before) + 1 /\ all[Len(before) + 1] = new
         /\ Len(before) \in Nat
    BY <1>4, <1>6, <1>8, <1>10, PushedExtends, OrderedIs
  <1>12. Extends(values, all)
    <2> HIDE DEF others
    <2>1. Len(values) \in Nat
      BY <1>1
    <2> QED
      BY <1>4, <1>11, <2>1 DEF Extends
  <1>13. w \in Nat \ {0} /\ w - 1 = Len(before) /\ all[w] = new
    BY <1>11
  <1>14. selected = << >> => w = at + 1
    BY <1>4, <1>11
  <1>15. selected # << >> =>
                  /\ Extends(Imported(values, others), all)
                  /\ Len(Imported(values, others)) = w - 1 /\ w - 1 = at + Len(others)
    BY <1>4, <1>11, <1>13
  <1> HIDE DEF w, at
  <1> QED
    BY <1>1, <1>2, <1>5, <1>7, <1>8, <1>9, <1>12, <1>13, <1>14, <1>15 DEF all, w, others, selected, at

LEMMA WrappedConforms ==
  ASSUME NEW g, IsGraph(g), NEW md, NEW values, Ordered(values), NEW candidate, NEW s, NEW a, NEW i,
         NEW flat, NEW n \in 0 .. Steps, Conforms(g, md, n, candidate.values, candidate.id, s, a, i)
  PROVE  LET all == Wrapped(values, candidate, flat)
             w == Len(all)
         IN  \/ Conforms(g, md, n, all, w, s, a, i)
             \/ all[w].kids # << >> /\ Conforms(g, md, n, all, all[w].kids[1], s, a, i)
  <1> DEFINE all == Wrapped(values, candidate, flat)
             w == Len(all)
             others == candidate.values
             r == candidate.id
             root == others[r]
             at == Len(values)
             selected == Selected(candidate, flat)
             moved == Imported(values, others)
  <1>1. /\ Ordered(others) /\ r \in 1 .. Len(others) /\ Formed(a) /\ Same(a, i, a, i)
    BY ConformsThere
  <1>2. /\ Extends(values, all) /\ w \in Nat \ {0} /\ at \in Nat
        /\ IsSequence(selected) /\ Len(selected) \in Nat
        /\ all[w].kind = "wrap" /\ Len(all[w].kids) = Len(selected)
        /\ all[w].kids = << >> <=> selected = << >>
        /\ \A k \in 1 .. Len(selected) : all[w].kids[k] = selected[k] + at
        /\ \A k \in 1 .. Len(selected) : selected[k] \in 1 .. Len(others)
        /\ selected # << >> => /\ Extends(moved, all) /\ Len(moved) = w - 1
                               /\ w - 1 = at + Len(others)
        /\ selected = << >> => w = at + 1
    BY <1>1, WrappedIs
  <1>3. n \in n .. Steps
    BY StepsAreNatural
  <1>4. CASE ~(flat /\ root.kind = "wrap")
    <2>1. selected = <<r>> /\ Len(selected) = 1 /\ selected[1] = r /\ selected # << >>
      BY <1>4, OneIs DEF Selected
    <2> HIDE DEF all, w, others, r, root, at, selected, moved
    <2>2. all[w].kids # << >> /\ all[w].kids[1] = r + at /\ Extends(moved, all) /\ r + at = at + r
      <3>1. r \in Nat
        BY <1>1, OrderedIs
      <3> QED
        BY <1>2, <2>1, <3>1
    <2>3. Conforms(g, md, n, others, r, s, a, i)
      BY DEF others, r
    <2>4. Conforms(g, md, n, Imported(values, others), Len(values) + r, s, a, i)
      BY <1>1, <1>3, <2>3, ConformsImported
    <2>5. Conforms(g, md, n, moved, at + r, s, a, i)
      BY <2>4 DEF moved, at
    <2>6. Conforms(g, md, n, all, at + r, s, a, i)
      BY <1>1, <1>3, <2>2, <2>5, ConformsInMore
    <2>7. all[w].kids # << >> /\ Conforms(g, md, n, all, all[w].kids[1], s, a, i)
      BY <2>2, <2>6
    <2> QED
      BY <2>7 DEF all, w
  <1>5. CASE flat /\ root.kind = "wrap"
    <2>1. selected = root.kids
      BY <1>5 DEF Selected
    <2> DEFINE behind == IF selected = << >> THEN {} ELSE {<<u, at + u>> : u \in 1 .. Len(others)}
               pairs == behind \cup {<<r, w>>}
    <2>2. \A p \in pairs : \/ selected # << >> /\ p[1] \in 1 .. Len(others) /\ p[2] = at + p[1]
                           \/ p[1] = r /\ p[2] = w
      OBVIOUS
    <2>3. selected # << >> => \A u \in 1 .. Len(others) : <<u, at + u>> \in pairs
      OBVIOUS
    <2>4. <<r, w>> \in pairs
      OBVIOUS
    <2>5. \A u \in 1 .. Len(others) :
            /\ Len(others[u].kids) \in Nat
            /\ \A k \in 1 .. Len(others[u].kids) : others[u].kids[k] \in 1 .. Len(others)
      BY <1>1, OrderedIs
    <2>6. /\ Len(moved) = at + Len(others) /\ Extends(values, moved)
          /\ \A u \in 1 .. Len(others) :
               /\ moved[at + u].kind = others[u].kind
               /\ moved[at + u].label = others[u].label
               /\ Len(moved[at + u].kids) = Len(others[u].kids)
               /\ \A k \in 1 .. Len(others[u].kids) : moved[at + u].kids[k] = others[u].kids[k] + at
      <3> HIDE DEF all, w, others, r, selected, behind, pairs
      <3>1. Ordered(values) /\ Ordered(others)
        BY <1>1
      <3> QED
        BY <3>1, ImportedIs
    <2>7. Len(others) \in Nat
      BY <1>1, OrderedIs
    <2> HIDE DEF behind, pairs, all, w, others, r, at, selected, moved
    <2>8. ASSUME selected # << >>, NEW u \in 1 .. Len(others)
          PROVE  /\ at + u \in 1 .. Len(all)
                 /\ others[u].kind = all[at + u].kind /\ others[u].label = all[at + u].label
                 /\ Len(others[u].kids) = Len(all[at + u].kids)
                 /\ \A k \in 1 .. Len(others[u].kids) :
                      <<others[u].kids[k], all[at + u].kids[k]>> \in pairs
      <3>1. /\ at + u \in 1 .. Len(moved) /\ at + u \in 1 .. Len(all)
            /\ all[at + u] = moved[at + u]
        BY <1>2, <2>6, <2>7, <2>8 DEF Extends, w
      <3>2. ASSUME NEW k \in 1 .. Len(others[u].kids)
            PROVE  <<others[u].kids[k], all[at + u].kids[k]>> \in pairs
        <4> DEFINE x == others[u].kids[k]
                   y == all[at + u].kids[k]
        <4>1. x \in 1 .. Len(others)
          BY <2>5
        <4>2. y = x + at
          BY <2>6, <3>1
        <4> HIDE DEF x, y
        <4>3. y = at + x
          BY <1>2, <2>7, <4>1, <4>2
        <4>4. <<x, y>> \in pairs
          BY <2>3, <2>8, <4>1, <4>3
        <4> QED
          BY <4>4 DEF x, y
      <3>3. /\ moved[at + u].kind = others[u].kind /\ moved[at + u].label = others[u].label
            /\ Len(moved[at + u].kids) = Len(others[u].kids)
        BY <2>6
      <3> QED
        BY <3>1, <3>2, <3>3
    <2>9. /\ w \in 1 .. Len(all)
          /\ others[r].kind = "wrap" /\ all[w].kind = "wrap"
          /\ Len(others[r].kids) = Len(all[w].kids)
          /\ \A k \in 1 .. Len(others[r].kids) : <<others[r].kids[k], all[w].kids[k]>> \in pairs
      <3>1. w \in 1 .. Len(all)
        BY <1>2 DEF w
      <3>2. others[r].kind = "wrap" /\ Len(others[r].kids) = Len(all[w].kids) /\ selected = others[r].kids
        BY <1>2, <1>5, <2>1
      <3>3. ASSUME NEW k \in 1 .. Len(others[r].kids)
            PROVE  <<others[r].kids[k], all[w].kids[k]>> \in pairs
        <4> DEFINE x == selected[k]
                   y == all[w].kids[k]
        <4>1. k \in 1 .. Len(selected) /\ selected # << >>
          BY <1>2, <3>2, LengthIs
        <4>2. x \in 1 .. Len(others) /\ y = x + at
          BY <1>2, <4>1
        <4> HIDE DEF x, y
        <4>3. y = at + x
          BY <1>2, <2>7, <4>2
        <4>4. <<x, y>> \in pairs
          BY <2>3, <4>1, <4>2, <4>3
        <4> QED
          BY <3>2, <4>4 DEF x, y
      <3> QED
        BY <1>2, <3>1, <3>2, <3>3
    <2>10. ASSUME NEW p \in pairs
           PROVE  /\ p[1] \in 1 .. Len(others) /\ p[2] \in 1 .. Len(all)
                  /\ others[p[1]].kind = all[p[2]].kind
                  /\ others[p[1]].kind # "wrap" => others[p[1]].label = all[p[2]].label
                  /\ Len(others[p[1]].kids) = Len(all[p[2]].kids)
                  /\ \A k \in 1 .. Len(others[p[1]].kids) :
                       <<others[p[1]].kids[k], all[p[2]].kids[k]>> \in pairs
      <3>1. CASE selected # << >> /\ p[1] \in 1 .. Len(others) /\ p[2] = at + p[1]
        <4> DEFINE u == p[1]
        <4>1. u \in 1 .. Len(others) /\ p[2] = at + u
          BY <3>1
        <4> HIDE DEF u
        <4>2. /\ at + u \in 1 .. Len(all)
              /\ others[u].kind = all[at + u].kind /\ others[u].label = all[at + u].label
              /\ Len(others[u].kids) = Len(all[at + u].kids)
              /\ \A k \in 1 .. Len(others[u].kids) :
                   <<others[u].kids[k], all[at + u].kids[k]>> \in pairs
          BY <2>8, <3>1, <4>1
        <4> QED
          BY <4>1, <4>2 DEF u
      <3>2. CASE p[1] = r /\ p[2] = w
        BY <1>1, <2>9, <3>2
      <3> QED
        BY <2>2, <3>1, <3>2
    <2>11. Matched(others, all, pairs)
      BY <2>10 DEF Matched
    <2>12. Ordered(all) /\ Conforms(g, md, n, others, r, s, a, i)
      BY <1>2 DEF Extends, others, r
    <2>13. Conforms(g, md, n, all, w, s, a, i)
      BY <1>1, <1>3, <2>4, <2>11, <2>12, ConformsCarried
    <2> QED
      BY <2>13 DEF all, w
  <1> QED
    BY <1>4, <1>5

-----------------------------------------------------------------------------
(* The input that a chain hands on: a wrapper stands for what it wraps.    *)
Wraps(value) == value.kind = "wrap" /\ value.kids # << >>

Reduces(values, reduced) ==
  \A v \in 1 .. Len(values) :
    reduced[v] = IF Wraps(values[v]) THEN reduced[values[v].kids[1]] ELSE v

AsInput(value, reduced) ==
  IF value.kind = "wrap" THEN [kind |-> "null", label |-> 0, kids |-> << >>]
  ELSE [value EXCEPT !.kids = [k \in 1 .. Len(@) |-> reduced[@[k]]]]

LEMMA HandoffReduces ==
  ASSUME NEW result, NEW profile, Ordered(result.values)
  PROVE  \E reduced :
           /\ Reduces(result.values, reduced)
           /\ Handoff(result, profile) =
                [profile |-> profile, root |-> reduced[result.id],
                 nodes |-> [v \in 1 .. Len(result.values) |-> AsInput(result.values[v], reduced)]]
  <1> DEFINE values == result.values
             Rule(f, v) == IF values[v].kind = "wrap" /\ values[v].kids # << >>
                           THEN f[values[v].kids[1]] ELSE v
             Good(N, f) == \A v \in 1 .. N : f[v] = Rule(f, v)
             S == {N \in Nat : N <= Len(values) =>
                                 \E f : f = [v \in 1 .. N |-> f[v]] /\ Good(N, f)}
  <1>1. /\ Len(values) \in Nat
        /\ \A v \in 1 .. Len(values) : values[v].kids # << >> => values[v].kids[1] \in 1 .. v - 1
    <2>1. ASSUME NEW v \in 1 .. Len(values), values[v].kids # << >>
          PROVE  values[v].kids[1] \in 1 .. v - 1
      <3>1. /\ IsSequence(values[v].kids)
            /\ \A k \in 1 .. Len(values[v].kids) : values[v].kids[k] \in 1 .. v - 1
        BY OrderedIs DEF IsValue
      <3>2. 1 \in 1 .. Len(values[v].kids)
        BY <2>1, <3>1, LengthIs
      <3> QED
        BY <3>1, <3>2
    <2> QED
      BY <2>1, OrderedIs
  <1>2. \A f, h : \A v \in 1 .. Len(values) :
          (\A u \in 1 .. v - 1 : f[u] = h[u]) => Rule(f, v) = Rule(h, v)
    BY <1>1
  <1>3. 0 \in S
    <2> DEFINE f == [v \in 1 .. 0 |-> 0]
    <2>1. f = [v \in 1 .. 0 |-> f[v]] /\ Good(0, f)
      OBVIOUS
    <2> QED
      BY <2>1
  <1>4. ASSUME NEW N \in S PROVE N + 1 \in S
    <2> SUFFICES ASSUME N + 1 <= Len(values)
                 PROVE  \E f : f = [v \in 1 .. N + 1 |-> f[v]] /\ Good(N + 1, f)
      OBVIOUS
    <2>1. N \in Nat /\ N <= Len(values) /\ N + 1 \in 1 .. Len(values)
      BY <1>1
    <2>2. PICK f : f = [v \in 1 .. N |-> f[v]] /\ Good(N, f)
      BY <2>1
    <2> DEFINE h == [v \in 1 .. N + 1 |-> IF v <= N THEN f[v] ELSE Rule(f, N + 1)]
    <2>3. h = [v \in 1 .. N + 1 |-> h[v]]
      OBVIOUS
    <2> HIDE DEF Rule
    <2>4. \A v \in 1 .. N : h[v] = f[v] /\ f[v] = Rule(f, v)
      BY <2>1, <2>2
    <2>5. h[N + 1] = Rule(f, N + 1)
      BY <2>1
    <2> HIDE DEF h
    <2>6. ASSUME NEW v \in 1 .. N + 1 PROVE h[v] = Rule(h, v)
      <3>1. v \in 1 .. Len(values) /\ \A u \in 1 .. v - 1 : u \in 1 .. N
        BY <2>1, <1>1
      <3>2. \A u \in 1 .. v - 1 : h[u] = f[u]
        BY <2>4, <3>1
      <3>3. Rule(h, v) = Rule(f, v)
        BY <1>2, <3>1, <3>2
      <3>4. v \in 1 .. N \/ v = N + 1
        BY <2>1
      <3> QED
        BY <2>4, <2>5, <3>3, <3>4
    <2>7. Good(N + 1, h)
      BY <2>6
    <2> QED
      BY <2>3, <2>7
  <1>5. S = Nat
    <2>1. S \in SUBSET Nat
      OBVIOUS
    <2> HIDE DEF S
    <2> QED
      BY <1>3, <1>4, <2>1, AllNaturals
  <1>6. PICK f : f = [v \in 1 .. Len(values) |-> f[v]] /\ Good(Len(values), f)
    <2>1. Len(values) \in S
      <3> HIDE DEF S
      <3> QED
        BY <1>1, <1>5
    <2>2. PICK f : f = [v \in 1 .. Len(values) |-> f[v]] /\ Good(Len(values), f)
      BY <2>1
    <2> HIDE DEF Good
    <2> QED
      BY Zenon, <2>2
  <1> DEFINE reduced == CHOOSE h : h = [v \in 1 .. Len(values) |-> Rule(h, v)]
  <1>7. reduced = [v \in 1 .. Len(values) |-> Rule(reduced, v)]
    <2>1. f = [v \in 1 .. Len(values) |-> Rule(f, v)]
      BY <1>6
    <2> QED
      BY Zenon, <2>1
  <1>8. Handoff(result, profile) =
          [profile |-> profile, root |-> reduced[result.id],
           nodes |-> [v \in 1 .. Len(values) |-> AsInput(values[v], reduced)]]
    BY Zenon DEF Handoff, AsInput
  <1> HIDE DEF reduced
  <1>9. \A v \in 1 .. Len(values) : reduced[v] = Rule(reduced, v)
    BY Zenon, <1>7
  <1>10. Reduces(values, reduced)
    BY <1>9 DEF Reduces, Wraps
  <1> QED
    BY <1>8, <1>10

(* What a value is reduced to comes no later than the value.               *)
LEMMA ReducedIs ==
  ASSUME NEW values, Ordered(values), NEW reduced, Reduces(values, reduced)
  PROVE  \A v \in 1 .. Len(values) : reduced[v] \in 1 .. v /\ reduced[v] \in 1 .. Len(values)
  <1> DEFINE S == {N \in Nat : \A v \in 1 .. Len(values) : v <= N => reduced[v] \in 1 .. v}
  <1>1. Len(values) \in Nat
    BY OrderedIs
  <1>2. 0 \in S
    BY <1>1
  <1>3. ASSUME NEW N \in S PROVE N + 1 \in S
    <2>1. N \in Nat /\ \A v \in 1 .. Len(values) : v <= N => reduced[v] \in 1 .. v
      OBVIOUS
    <2>2. ASSUME NEW v \in 1 .. Len(values), v <= N + 1 PROVE reduced[v] \in 1 .. v
      <3>1. CASE Wraps(values[v])
        <4> DEFINE u == values[v].kids[1]
        <4>1. 1 \in 1 .. Len(values[v].kids)
          BY <3>1, OrderedIs, LengthIs DEF Wraps, IsValue
        <4>2. u \in 1 .. v - 1 /\ u \in 1 .. Len(values)
          BY <4>1, OrderedIs
        <4>3. reduced[v] = reduced[u]
          BY <3>1 DEF Reduces
        <4> HIDE DEF u
        <4>4. u <= N
          BY <1>1, <2>1, <2>2, <4>2
        <4>5. reduced[u] \in 1 .. u
          BY <2>1, <4>2, <4>4
        <4> QED
          BY <1>1, <4>2, <4>3, <4>5
      <3>2. CASE ~Wraps(values[v])
        BY <1>1, <3>2 DEF Reduces
      <3> QED
        BY <3>1, <3>2
    <2> QED
      BY <2>1, <2>2
  <1>4. S = Nat
    <2>1. S \in SUBSET Nat
      OBVIOUS
    <2> HIDE DEF S
    <2> QED
      BY <1>2, <1>3, <2>1, AllNaturals
  <1>5. ASSUME NEW v \in 1 .. Len(values)
        PROVE  reduced[v] \in 1 .. v /\ reduced[v] \in 1 .. Len(values)
    <2>1. Len(values) \in S
      BY <1>1, <1>4
    <2>2. reduced[v] \in 1 .. v
      BY <1>1, <2>1
    <2> QED
      BY <1>1, <2>2
  <1> QED
    BY <1>5

LEMMA AsInputIs ==
  ASSUME NEW value, IsValue(value), NEW reduced
  PROVE  LET n == AsInput(value, reduced)
         IN  /\ n.kind = IF value.kind = "wrap" THEN "null" ELSE value.kind
             /\ value.kind = "wrap" => n.kids = << >> /\ n.label = 0
             /\ value.kind # "wrap" =>
                  /\ n.label = value.label /\ Len(n.kids) = Len(value.kids)
                  /\ \A k \in 1 .. Len(value.kids) : n.kids[k] = reduced[value.kids[k]]
             /\ IsSequence(n.kids)
             /\ value.kids = << >> => n.kids = << >>
  <1> DEFINE n == AsInput(value, reduced)
  <1>1. CASE value.kind = "wrap"
    <2>1. n = [kind |-> "null", label |-> 0, kids |-> << >>]
      BY <1>1 DEF AsInput
    <2>2. IsSequence(<< >>)
      BY EmptySeq, IsSequenceOf
    <2> QED
      BY <1>1, <2>1, <2>2
  <1>2. CASE value.kind # "wrap"
    <2> DEFINE m == [k \in 1 .. Len(value.kids) |-> reduced[value.kids[k]]]
    <2>1. n = [value EXCEPT !.kids = m]
      BY <1>2 DEF AsInput
    <2>2. m = [k \in 1 .. Len(value.kids) |-> m[k]]
          /\ \A k \in 1 .. Len(value.kids) : m[k] = reduced[value.kids[k]]
      OBVIOUS
    <2> HIDE DEF n, m
    <2>3. Len(value.kids) \in Nat /\ (value.kids = << >> <=> Len(value.kids) = 0)
      BY LengthIs DEF IsValue
    <2>4. IsSequence(m) /\ Len(m) = Len(value.kids)
      BY <2>2, <2>3, TableIs
    <2>5. value.kids = << >> => m = << >>
      BY <2>3, <2>4, LengthIs
    <2>6. n.kind = value.kind /\ n.label = value.label /\ n.kids = m
      BY <2>1 DEF IsValue
    <2> QED
      BY <1>2, <2>2, <2>4, <2>5, <2>6 DEF n
  <1> QED
    BY <1>1, <1>2

LEMMA HandoffIsFormed ==
  ASSUME NEW result, NEW profile, Ordered(result.values), result.id \in 1 .. Len(result.values)
  PROVE  Formed(Handoff(result, profile))
  <1> DEFINE values == result.values
             h == Handoff(result, profile)
  <1>1. PICK reduced :
          /\ Reduces(values, reduced)
          /\ h = [profile |-> profile, root |-> reduced[result.id],
                  nodes |-> [v \in 1 .. Len(values) |-> AsInput(values[v], reduced)]]
    BY HandoffReduces
  <1>2. /\ h.root = reduced[result.id]
        /\ h.nodes = [v \in 1 .. Len(values) |-> AsInput(values[v], reduced)]
    BY <1>1
  <1> HIDE DEF h, values
  <1>3. \A v \in 1 .. Len(values) : reduced[v] \in 1 .. v /\ reduced[v] \in 1 .. Len(values)
    BY <1>1, ReducedIs DEF values
  <1>4. /\ Len(values) \in Nat
        /\ \A v \in 1 .. Len(values) :
             /\ IsValue(values[v]) /\ Len(values[v].kids) \in Nat
             /\ \A k \in 1 .. Len(values[v].kids) : values[v].kids[k] \in 1 .. v - 1
    BY OrderedIs DEF values
  <1>5. Len(h.nodes) = Len(values)
    BY <1>2, <1>4, LenProperties, TableIs
  <1>6. \A v \in 1 .. Len(values) : h.nodes[v] = AsInput(values[v], reduced)
    BY <1>2
  <1>7. ASSUME NEW v \in 1 .. Len(values)
        PROVE  /\ IsSequence(h.nodes[v].kids)
               /\ h.nodes[v].kind \in {"null", "leaf", "sequence"}
               /\ h.nodes[v].kind # "sequence" => h.nodes[v].kids = << >>
               /\ h.nodes[v].kind = "null" => h.nodes[v].label = 0
               /\ \A k \in 1 .. Len(h.nodes[v].kids) : h.nodes[v].kids[k] \in 1 .. v - 1
    <2> DEFINE value == values[v]
               n == AsInput(value, reduced)
    <2>1. IsValue(value) /\ h.nodes[v] = n
      BY <1>4, <1>6
    <2> HIDE DEF value
    <2>2. /\ n.kind = IF value.kind = "wrap" THEN "null" ELSE value.kind
          /\ value.kind = "wrap" => n.kids = << >> /\ n.label = 0
          /\ value.kind # "wrap" =>
               /\ n.label = value.label /\ Len(n.kids) = Len(value.kids)
               /\ \A k \in 1 .. Len(value.kids) : n.kids[k] = reduced[value.kids[k]]
          /\ IsSequence(n.kids)
          /\ value.kids = << >> => n.kids = << >>
      BY <2>1, AsInputIs
    <2> HIDE DEF n
    <2>3. /\ value.kind \in {"null", "leaf", "sequence", "wrap"}
          /\ value.kind \in {"null", "leaf"} => value.kids = << >>
          /\ value.kind = "null" => value.label = 0
      BY <2>1 DEF IsValue
    <2>4. ASSUME NEW k \in 1 .. Len(n.kids) PROVE n.kids[k] \in 1 .. v - 1
      <3>1. value.kind # "wrap" /\ k \in 1 .. Len(value.kids)
        BY <2>2, LengthIs
      <3> DEFINE u == value.kids[k]
      <3>2. u \in 1 .. v - 1
        BY <1>4, <3>1 DEF value
      <3>3. n.kids[k] = reduced[u]
        BY <2>2, <3>1
      <3> HIDE DEF u
      <3>4. u \in 1 .. Len(values)
        BY <1>4, <3>2
      <3>5. reduced[u] \in 1 .. u
        BY <1>3, <3>4
      <3> QED
        BY <1>4, <3>2, <3>3, <3>5
    <2> QED
      BY <2>1, <2>2, <2>3, <2>4
  <1>8. h.root \in 1 .. Len(values)
    BY <1>2, <1>3 DEF values
  <1> QED
    BY <1>4, <1>5, <1>7, <1>8 DEF Formed, h

(* A value that conforms to a schema below which callbacks replace nothing *)
(* is handed on as the input that it was validated from.                   *)
LEMMA HandoffMirrors ==
  ASSUME NEW g, IsGraph(g), NEW md, NEW result, NEW n \in 0 .. Steps, NEW s, NEW a, NEW i,
         Conforms(g, md, n, result.values, result.id, s, a, i), KeepsInput(g, md, s)
  PROVE  Same(Handoff(result, a.profile), Handoff(result, a.profile).root, a, i)
  <1> DEFINE values == result.values
             h == Handoff(result, a.profile)
             known == Conforming(g, md, values, a)
  <1>1. PICK reduced :
          /\ Reduces(values, reduced)
          /\ h = [profile |-> a.profile, root |-> reduced[result.id],
                  nodes |-> [v \in 1 .. Len(values) |-> AsInput(values[v], reduced)]]
    BY HandoffReduces DEF Conforms
  <1>2. PICK below \in SUBSET DOMAIN g.kind :
          /\ s \in below
          /\ \A t \in below :
               /\ g.kind[t] \in Functions => md = "serialization"
               /\ \A k \in 1 .. Len(g.kids[t]) : g.kids[t][k] \in below
    BY DEF KeepsInput
  <1> DEFINE Known(k, v, t, j) == known[k][Claim(v, t, a, j)]
             pairs == {p \in {<<reduced[v], j>> : v \in 1 .. Len(values), j \in 1 .. Len(a.nodes)} :
                         \E v \in 1 .. Len(values), j \in 1 .. Len(a.nodes), k \in 0 .. Steps, t \in below :
                           p = <<reduced[v], j>> /\ Known(k, v, t, j)}
             Matches(v, j) ==
               /\ reduced[v] \in 1 .. Len(h.nodes)
               /\ h.nodes[reduced[v]].kind = a.nodes[j].kind
               /\ h.nodes[reduced[v]].label = a.nodes[j].label
               /\ Len(h.nodes[reduced[v]].kids) = Len(a.nodes[j].kids)
               /\ \A k \in 1 .. Len(a.nodes[j].kids) :
                    <<h.nodes[reduced[v]].kids[k], a.nodes[j].kids[k]>> \in pairs
             S == {k \in Nat : k <= Steps =>
                     \A v \in 1 .. Len(values), j \in 1 .. Len(a.nodes), t \in below :
                       Known(k, v, t, j) => Matches(v, j)}
  <1>3. /\ Ordered(values) /\ result.id \in 1 .. Len(values) /\ Formed(a) /\ i \in 1 .. Len(a.nodes)
        /\ Known(n, result.id, s, i)
    BY DEF Conforms
  <1>4. /\ h.root = reduced[result.id] /\ h.profile = a.profile
        /\ h.nodes = [v \in 1 .. Len(values) |-> AsInput(values[v], reduced)]
    BY <1>1
  <1>5. \A p \in pairs :
          \E v \in 1 .. Len(values), j \in 1 .. Len(a.nodes), k \in 0 .. Steps, t \in below :
            p = <<reduced[v], j>> /\ Known(k, v, t, j)
    OBVIOUS
  <1>6. \A v \in 1 .. Len(values), j \in 1 .. Len(a.nodes), k \in 0 .. Steps, t \in below :
          Known(k, v, t, j) => <<reduced[v], j>> \in pairs
    OBVIOUS
  <1>7. /\ Len(values) \in Nat /\ Len(a.nodes) \in Nat
        /\ \A v \in 1 .. Len(values) :
             /\ IsValue(values[v]) /\ Len(values[v].kids) \in Nat
             /\ \A k \in 1 .. Len(values[v].kids) : values[v].kids[k] \in 1 .. Len(values)
    BY <1>3, OrderedIs DEF Formed
  <1> HIDE DEF values, h, known, pairs
  <1>8. Len(h.nodes) = Len(values) /\ \A v \in 1 .. Len(values) : h.nodes[v] = AsInput(values[v], reduced)
    BY <1>4, <1>7, TableIs
  <1>9. \A v \in 1 .. Len(values) : reduced[v] \in 1 .. Len(values)
    BY <1>1, <1>3, ReducedIs
  <1>10. \A k \in 1 .. Steps, v \in 1 .. Len(values), j \in 1 .. Len(a.nodes), t \in DOMAIN g.kind :
           Known(k, v, t, j) => Mirrors(g, md, values, known[k - 1], Claim(v, t, a, j))
    <2>1. \A k \in 1 .. Steps : \A u \in Claims(g, values, a) :
            known[k][u] = Mirrors(g, md, values, known[k - 1], u)
      BY ConformingIs DEF known
    <2>2. \A v \in 1 .. Len(values), j \in 1 .. Len(a.nodes), t \in DOMAIN g.kind :
            Claim(v, t, a, j) \in Claims(g, values, a)
      BY <1>7 DEF Claim, Claims
    <2> QED
      BY <2>1, <2>2
  <1>11. \A v \in 1 .. Len(values), j \in 1 .. Len(a.nodes), t \in DOMAIN g.kind : ~Known(0, v, t, j)
    <2>1. \A u \in Claims(g, values, a) : ~known[0][u]
      BY ConformingIs DEF known
    <2>2. \A v \in 1 .. Len(values), j \in 1 .. Len(a.nodes), t \in DOMAIN g.kind :
            Claim(v, t, a, j) \in Claims(g, values, a)
      BY <1>7 DEF Claim, Claims
    <2> QED
      BY <2>1, <2>2
  <1>12. 0 \in S
    BY <1>11
  <1>13. ASSUME NEW k \in S PROVE k + 1 \in S
    <2> SUFFICES ASSUME k + 1 <= Steps, NEW v \in 1 .. Len(values), NEW j \in 1 .. Len(a.nodes),
                        NEW t \in below, Known(k + 1, v, t, j)
                 PROVE  Matches(v, j)
      OBVIOUS
    <2>1. k \in 0 .. Steps /\ k + 1 \in 1 .. Steps /\ k + 1 - 1 = k /\ k <= Steps
      BY StepsAreNatural
    <2>2. \A u \in 1 .. Len(values), l \in 1 .. Len(a.nodes), r \in below :
            Known(k, u, r, l) => Matches(u, l)
      BY <2>1
    <2> DEFINE x == Claim(v, t, a, j)
               value == values[v]
               mine == a.nodes[j]
    <2>3. Mirrors(g, md, values, known[k], x) /\ t \in DOMAIN g.kind
      BY <1>10, <2>1
    <2>4. x.value = v /\ x.schema = t /\ x.arena = a /\ x.input = j
      BY DEF Claim
    <2>5. /\ Len(g.kids[t]) \in Nat
          /\ \A m \in 1 .. Len(g.kids[t]) : g.kids[t][m] \in below
          /\ g.kind[t] \in Kinds /\ Arity(g.kind[t], Len(g.kids[t]))
          /\ g.kind[t] \in Functions => md = "serialization"
      BY <1>2, <2>3, GraphKids
    <2>6. /\ IsValue(value) /\ h.nodes[v] = AsInput(value, reduced)
          /\ value.kids # << >> => 1 \in 1 .. Len(value.kids) /\ value.kids[1] \in 1 .. Len(values)
      <3>1. IsSequence(value.kids)
        BY <1>7 DEF IsValue
      <3> QED
        BY <1>7, <1>8, <3>1, LengthIs
    <2>7. reduced[v] = IF Wraps(value) THEN reduced[value.kids[1]] ELSE v
      BY <1>1 DEF Reduces
    <2>8. /\ IsSequence(mine.kids) /\ Len(mine.kids) \in Nat
          /\ mine.kind # "sequence" => mine.kids = << >>
          /\ mine.kind = "null" => mine.label = 0
          /\ mine.kind \in {"null", "leaf", "sequence"}
          /\ \A m \in 1 .. Len(mine.kids) : mine.kids[m] \in 1 .. Len(a.nodes)
      <3>1. /\ IsSequence(mine.kids) /\ \A m \in 1 .. Len(mine.kids) : mine.kids[m] \in 1 .. j - 1
            /\ mine.kind # "sequence" => mine.kids = << >>
            /\ mine.kind = "null" => mine.label = 0
            /\ mine.kind \in {"null", "leaf", "sequence"}
        BY <1>3 DEF Formed
      <3>2. \A m : m \in 1 .. j - 1 => m \in 1 .. Len(a.nodes)
        BY <1>7
      <3> QED
        BY <3>1, <3>2, LengthIs
    <2> DEFINE outer(m) == known[k][Claim(v, g.kids[t][m], a, j)]
               inner(m) == value.kids # << >> /\ known[k][Claim(value.kids[1], g.kids[t][m], a, j)]
    <2>9. ASSUME NEW m \in 1 .. Len(g.kids[t]), outer(m) PROVE Matches(v, j)
      <3>1. Known(k, v, g.kids[t][m], j)
        BY ZenonT(30), <2>9
      <3> HIDE DEF Matches, Known
      <3> QED
        BY <2>2, <2>5, <3>1
    <2>10. ASSUME NEW m \in 1 .. Len(g.kids[t]), inner(m), value.kind = "wrap" PROVE Matches(v, j)
      <3>1. Known(k, value.kids[1], g.kids[t][m], j) /\ value.kids # << >>
        BY <2>10
      <3>2. value.kids[1] \in 1 .. Len(values)
        BY <2>6, <3>1
      <3>3. Matches(value.kids[1], j)
        <4> HIDE DEF Matches, Known
        <4> QED
          BY <2>2, <2>5, <3>1, <3>2
      <3>4. reduced[v] = reduced[value.kids[1]]
        BY <2>7, <2>10, <3>1 DEF Wraps
      <3> QED
        BY Zenon, <3>3, <3>4
    <2>11. ASSUME ~Wraps(value), mine.kind # "sequence", value.kids = << >>,
                  \/ value.kind = "wrap" /\ mine.kind = "null"
                  \/ value.kind = mine.kind /\ value.label = mine.label
           PROVE  Matches(v, j)
      <3>1. reduced[v] = v /\ mine.kids = << >>
        BY <2>7, <2>8, <2>11
      <3> DEFINE node_ == AsInput(value, reduced)
      <3>2. /\ node_.kind = IF value.kind = "wrap" THEN "null" ELSE value.kind
            /\ value.kind = "wrap" => node_.kids = << >> /\ node_.label = 0
            /\ value.kind # "wrap" => node_.label = value.label
            /\ value.kids = << >> => node_.kids = << >>
        BY <2>6, AsInputIs
      <3> HIDE DEF node_
      <3>3. node_.kind = mine.kind /\ node_.label = mine.label /\ node_.kids = << >>
        BY <2>8, <2>11, <3>2
      <3>4. h.nodes[reduced[v]] = node_
        BY <2>6, <3>1 DEF node_
      <3>5. Len(<< >>) = 0
        BY EmptySeq
      <3> QED
        BY <1>8, <1>9, <3>1, <3>3, <3>4, <3>5
    <2>12. ASSUME value.kind = "sequence", mine.kind = "sequence", value.label = mine.label,
                  Len(value.kids) = Len(mine.kids),
                  \A m \in 1 .. Len(value.kids) : \E r \in below :
                    Known(k, value.kids[m], r, mine.kids[m])
           PROVE  Matches(v, j)
      <3>1. reduced[v] = v
        BY <2>7, <2>12 DEF Wraps
      <3> DEFINE node_ == AsInput(value, reduced)
      <3>2. /\ node_.kind = "sequence" /\ node_.label = value.label
            /\ Len(node_.kids) = Len(value.kids)
            /\ \A m \in 1 .. Len(value.kids) : node_.kids[m] = reduced[value.kids[m]]
        BY SMTT(30), <2>6, <2>12, AsInputIs
      <3> HIDE DEF node_
      <3>3. ASSUME NEW m \in 1 .. Len(mine.kids) PROVE <<node_.kids[m], mine.kids[m]>> \in pairs
        <4>1. PICK r \in below : Known(k, value.kids[m], r, mine.kids[m])
          BY <2>12
        <4>2. value.kids[m] \in 1 .. Len(values) /\ mine.kids[m] \in 1 .. Len(a.nodes)
          BY <1>7, <2>8, <2>12
        <4> HIDE DEF Known
        <4>3. <<reduced[value.kids[m]], mine.kids[m]>> \in pairs
          BY <1>6, <2>1, <4>1, <4>2
        <4>4. node_.kids[m] = reduced[value.kids[m]]
          BY <2>12, <3>2
        <4> QED
          BY <4>3, <4>4
      <3>4. h.nodes[reduced[v]] = node_
        BY <2>6, <3>1 DEF node_
      <3> QED
        BY <1>8, <1>9, <2>12, <3>2, <3>3, <3>4
    <2> HIDE DEF Matches, outer, inner, S
    <2>13. CASE g.kind[t] = "scalar"
      <3>1. /\ mine.kind # "sequence" /\ value.kids = << >>
            /\ value.kind = mine.kind /\ value.label = mine.label
        BY <2>3, <2>4, <2>13 DEF Mirrors
      <3>2. ~Wraps(value)
        BY <3>1 DEF Wraps
      <3> QED
        BY <2>11, <3>1, <3>2
    <2>14. CASE g.kind[t] \in {"sequence", "model"}
      <3> DEFINE c(m) == IF g.kind[t] = "model" THEN m ELSE 1
      <3>1. /\ mine.kind = "sequence" /\ value.kind = "sequence" /\ value.label = mine.label
            /\ Len(value.kids) = Len(mine.kids)
            /\ g.kind[t] = "model" => Len(g.kids[t]) = Len(mine.kids)
            /\ \A m \in 1 .. Len(value.kids) :
                 known[k][Claim(value.kids[m], g.kids[t][c(m)], a, mine.kids[m])]
        BY <2>3, <2>4, <2>14 DEF Mirrors
      <3>2. ASSUME NEW m \in 1 .. Len(value.kids)
            PROVE  \E r \in below : Known(k, value.kids[m], r, mine.kids[m])
        <4>1. c(m) \in 1 .. Len(g.kids[t])
          <5>1. CASE g.kind[t] = "model"
            <6>1. m \in 1 .. Len(g.kids[t])
              BY <3>1, <5>1
            <6> QED
              BY <5>1, <6>1
          <5>2. CASE g.kind[t] = "sequence"
            <6>1. Len(g.kids[t]) = 1
              BY <2>5, <5>2 DEF Arity
            <6> QED
              BY <5>2, <6>1
          <5> QED
            BY <2>14, <5>1, <5>2
        <4>2. g.kids[t][c(m)] \in below
          BY <2>5, <4>1
        <4> QED
          BY <3>1, <4>2
      <3> HIDE DEF value, mine
      <3> QED
        BY <2>12, <3>1, <3>2
    <2>15. CASE g.kind[t] = "nullable"
      <3>1. /\ value.kind = "wrap"
            /\ IF mine.kind = "null" THEN value.kids = << >> ELSE inner(1) \/ outer(1)
        BY <2>3, <2>4, <2>15 DEF Mirrors, inner, outer
      <3>2. Len(g.kids[t]) = 1
        BY <2>5, <2>15 DEF Arity
      <3>3. CASE mine.kind = "null"
        <4>1. value.kids = << >> /\ ~Wraps(value) /\ mine.kind # "sequence"
          BY <3>1, <3>3 DEF Wraps
        <4> QED
          BY <2>11, <3>1, <3>3, <4>1
      <3>4. CASE mine.kind # "null"
        BY <2>9, <2>10, <3>1, <3>2, <3>4
      <3> QED
        BY <3>3, <3>4
    <2>16. CASE g.kind[t] = "union"
      <3>1. value.kind = "wrap" /\ \E m \in 1 .. Len(g.kids[t]) : inner(m) \/ outer(m)
        BY <2>3, <2>4, <2>16 DEF Mirrors, inner, outer
      <3> QED
        BY <2>9, <2>10, <3>1
    <2>17. CASE g.kind[t] \in {"definitions", "reference", "field",
                               "lax_or_strict", "json_or_structural"}
      <3>1. outer(1) \/ outer(2)
        BY <2>3, <2>4, <2>17 DEF Mirrors, outer
      <3>2. g.kind[t] \in {"definitions", "reference", "field"} => Len(g.kids[t]) = 1
        BY <2>5 DEF Arity
      <3>3. g.kind[t] \in {"lax_or_strict", "json_or_structural"} => Len(g.kids[t]) = 2
        BY <2>5 DEF Arity
      <3>4. g.kind[t] \in {"definitions", "reference", "field"} => outer(1)
        BY <2>3, <2>4 DEF Mirrors, outer
      <3>5. CASE g.kind[t] \in {"definitions", "reference", "field"}
        <4>1. Len(g.kids[t]) = 1 /\ outer(1)
          BY <3>2, <3>4, <3>5
        <4>2. 1 \in 1 .. Len(g.kids[t]) /\ outer(1)
          BY <4>1
        <4> QED
          BY <2>9, <4>2
      <3>6. CASE g.kind[t] \in {"lax_or_strict", "json_or_structural"}
        <4>1. Len(g.kids[t]) = 2
          BY <3>3, <3>6
        <4>2. 1 \in 1 .. Len(g.kids[t]) /\ 2 \in 1 .. Len(g.kids[t])
          BY <4>1
        <4> QED
          BY <2>9, <3>1, <4>2
      <3> QED
        BY <2>17, <3>5, <3>6
    <2>18. CASE g.kind[t] = "chain"
      <3>1. Len(g.kids[t]) \in 1 .. Len(g.kids[t])
        BY <2>5, <2>18 DEF Arity
      <3>2. HandsOnInput(g, md, t)
        <4> SUFFICES ASSUME NEW m \in 1 .. Len(g.kids[t]) - 1 PROVE KeepsInput(g, md, g.kids[t][m])
          BY DEF HandsOnInput
        <4>1. m \in 1 .. Len(g.kids[t])
          BY <2>5
        <4>2. g.kids[t][m] \in below
          BY <2>5, <4>1
        <4> QED
          BY <1>2, <4>2 DEF KeepsInput
      <3>3. outer(Len(g.kids[t]))
        BY <2>3, <2>4, <2>18, <3>2 DEF Mirrors, outer
      <3> QED
        BY <2>9, <3>1, <3>3
    <2>19. CASE g.kind[t] \in Functions
      <3> DEFINE m == IF g.kind[t] = "function_after" THEN 1 ELSE 2
      <3>1. Len(g.kids[t]) = 2
        BY <2>5, <2>19 DEF Arity
      <3>2. outer(m)
        BY <2>3, <2>4, <2>5, <2>19 DEF Mirrors, outer, Functions
      <3> QED
        BY <2>9, <3>1, <3>2
    <2> QED
      BY <2>5, <2>13, <2>14, <2>15, <2>16, <2>17, <2>18, <2>19 DEF Kinds, Functions
  <1>14. S = Nat
    <2>1. S \in SUBSET Nat
      OBVIOUS
    <2> HIDE DEF S
    <2> QED
      BY <1>12, <1>13, <2>1, AllNaturals
  <1>15. \A k \in 0 .. Steps, v \in 1 .. Len(values), j \in 1 .. Len(a.nodes), t \in below :
           Known(k, v, t, j) => Matches(v, j)
    <2> TAKE k \in 0 .. Steps
    <2>1. k \in S /\ k <= Steps
      <3> HIDE DEF S
      <3> QED
        BY <1>14, StepsAreNatural
    <2> HIDE DEF Known, Matches
    <2> QED
      BY <2>1
  <1>16. Pairs(h, a, pairs)
    <2> SUFFICES ASSUME NEW p \in pairs
                 PROVE  /\ p[1] \in 1 .. Len(h.nodes) /\ p[2] \in 1 .. Len(a.nodes)
                        /\ h.nodes[p[1]].kind = a.nodes[p[2]].kind
                        /\ h.nodes[p[1]].label = a.nodes[p[2]].label
                        /\ Len(h.nodes[p[1]].kids) = Len(a.nodes[p[2]].kids)
                        /\ \A k \in 1 .. Len(h.nodes[p[1]].kids) :
                             <<h.nodes[p[1]].kids[k], a.nodes[p[2]].kids[k]>> \in pairs
      BY DEF Pairs
    <2>1. PICK v \in 1 .. Len(values), j \in 1 .. Len(a.nodes), k \in 0 .. Steps, t \in below :
            p = <<reduced[v], j>> /\ Known(k, v, t, j)
      BY <1>5
    <2>2. p[1] = reduced[v] /\ p[2] = j
      BY <2>1
    <2>3. Matches(v, j)
      <3> HIDE DEF Matches, Known
      <3> QED
        BY <1>15, <2>1
    <2> QED
      BY <2>2, <2>3
  <1>17. <<h.root, i>> \in pairs
    <2> HIDE DEF Known
    <2> QED
      BY <1>2, <1>3, <1>4, <1>6
  <1>18. Same(h, h.root, a, i)
    BY <1>4, <1>16, <1>17 DEF Same
  <1> QED
    BY <1>18 DEF h

-----------------------------------------------------------------------------
(* What conforms to a part of a schema conforms, a step later, to it.      *)
LEMMA ConformsAbove ==
  ASSUME NEW g, IsGraph(g), NEW md, NEW n \in 0 .. Steps - 1, NEW values, NEW v, NEW a, NEW i,
         NEW t \in DOMAIN g.kind, NEW k,
         Conforms(g, md, n, values, v, g.kids[t][k], a, i),
         \/ g.kind[t] \in {"definitions", "reference", "field"} /\ k = 1
         \/ g.kind[t] = "lax_or_strict" /\ k \in {1, 2}
         \/ g.kind[t] = "json_or_structural" /\ k = IF a.profile = "json" THEN 1 ELSE 2
         \/ g.kind[t] = "chain" /\ k = Len(g.kids[t])
         \/ g.kind[t] \in Functions /\ md = "serialization"
            /\ k = IF g.kind[t] = "function_after" THEN 1 ELSE 2
  PROVE  Conforms(g, md, n + 1, values, v, t, a, i)
  <1> DEFINE x == Claim(v, t, a, i)
             known == Conforming(g, md, values, a)[n]
  <1>1. /\ Ordered(values) /\ v \in 1 .. Len(values) /\ Formed(a) /\ i \in 1 .. Len(a.nodes)
        /\ known[Claim(v, g.kids[t][k], a, i)]
    BY DEF Conforms
  <1>2. x.value = v /\ x.schema = t /\ x.arena = a /\ x.input = i
    BY DEF Claim
  <1> HIDE DEF x, known
  <1>3. CASE g.kind[t] \in {"definitions", "reference", "field"} /\ k = 1
    <2>1. Mirrors(g, md, values, known, x)
      BY <1>1, <1>2, <1>3 DEF Mirrors
    <2> QED
      BY <1>1, <2>1, ConformsByMirroring DEF x, known
  <1>4. CASE g.kind[t] = "lax_or_strict" /\ k \in {1, 2}
    <2>1. Mirrors(g, md, values, known, x)
      BY <1>1, <1>2, <1>4 DEF Mirrors
    <2> QED
      BY <1>1, <2>1, ConformsByMirroring DEF x, known
  <1>5. CASE g.kind[t] = "json_or_structural" /\ k = IF a.profile = "json" THEN 1 ELSE 2
    <2>1. Mirrors(g, md, values, known, x)
      BY <1>1, <1>2, <1>5 DEF Mirrors
    <2> QED
      BY <1>1, <2>1, ConformsByMirroring DEF x, known
  <1>6. CASE g.kind[t] = "chain" /\ k = Len(g.kids[t])
    <2>1. Mirrors(g, md, values, known, x)
      BY <1>1, <1>2, <1>6 DEF Mirrors
    <2> QED
      BY <1>1, <2>1, ConformsByMirroring DEF x, known
  <1>7. CASE /\ g.kind[t] \in Functions /\ md = "serialization"
             /\ k = IF g.kind[t] = "function_after" THEN 1 ELSE 2
    <2>1. Mirrors(g, md, values, known, x)
      BY <1>1, <1>2, <1>7 DEF Mirrors, Functions
    <2> QED
      BY <1>1, <2>1, ConformsByMirroring DEF x, known
  <1> QED
    BY <1>3, <1>4, <1>5, <1>6, <1>7

(* Nothing is claimed of a chain that hands on what a callback has made.   *)
LEMMA ConformsReplaced ==
  ASSUME NEW g, NEW md, NEW n \in 0 .. Steps - 1, NEW values, Ordered(values),
         NEW v \in 1 .. Len(values), NEW a, Formed(a), NEW i \in 1 .. Len(a.nodes),
         NEW t \in DOMAIN g.kind, g.kind[t] = "chain", ~HandsOnInput(g, md, t)
  PROVE  Conforms(g, md, n + 1, values, v, t, a, i)
  <1>1. Claim(v, t, a, i).schema = t
    BY DEF Claim
  <1>2. Mirrors(g, md, values, Conforming(g, md, values, a)[n], Claim(v, t, a, i))
    BY <1>1 DEF Mirrors
  <1> QED
    BY <1>2, ConformsByMirroring

(* A function returns what conforms for its callback's output.             *)
LEMMA ConformsOutput ==
  ASSUME NEW g, IsGraph(g), NEW md, NEW n \in 0 .. Steps - 1, NEW values, NEW v,
         NEW a, Formed(a), NEW i \in 1 .. Len(a.nodes), NEW t \in DOMAIN g.kind,
         g.kind[t] \in Functions, md # "serialization", NEW o \in Outputs,
         Conforms(g, md, n, values, v, g.kids[t][2], o, o.root)
  PROVE  Conforms(g, md, n + 1, values, v, t, a, i)
  <1> DEFINE s == g.kids[t][2]
             x == Claim(v, s, o, o.root)
             y == Claim(v, t, a, i)
  <1>1. /\ Ordered(values) /\ v \in 1 .. Len(values) /\ Formed(o) /\ o.root \in 1 .. Len(o.nodes)
        /\ s \in DOMAIN g.kind /\ Conforming(g, md, values, o)[n][x]
    BY DEF Conforms
  <1>2. o.root \in Nat /\ Same(o, o.root, o, o.root)
    <2>1. Len(o.nodes) \in Nat
      BY <1>1 DEF Formed
    <2> QED
      BY <1>1, <2>1, SameSelf
  <1>3. PICK pairs : /\ Matched(values, values, pairs)
                     /\ \A u \in 1 .. Len(values) : <<u, u>> \in pairs
    BY <1>1, ExtendsItself, ExtendsMatches
  <1>4. /\ x \in Claims(g, values, o) /\ x \in Claims(g, values, a)
        /\ x.value = v /\ x.schema = s /\ x.arena = o /\ x.input = o.root
    BY <1>1, <1>2 DEF Claim, Claims
  <1>5. y.value = v /\ y.schema = t /\ y.arena = a /\ y.input = i
    BY DEF Claim
  <1> HIDE DEF s, y
  <1>6. Related(g, values, o, values, a, pairs, x, x)
    <2> HIDE DEF x
    <2> QED
      BY <1>1, <1>2, <1>3, <1>4 DEF Related
  <1>7. Conforming(g, md, values, a)[n][x]
    <2>1. n \in 0 .. Steps /\ n \in n .. Steps
      BY StepsAreNatural
    <2> HIDE DEF x
    <2> QED
      BY <1>1, <1>3, <1>6, <2>1, Carried
  <1> DEFINE known == Conforming(g, md, values, a)[n]
  <1>8. known[Claim(v, g.kids[t][2], o, o.root)]
    BY <1>7 DEF s
  <1> HIDE DEF known, x
  <1>9. Mirrors(g, md, values, known, y)
    BY <1>5, <1>8 DEF Mirrors, Functions
  <1> QED
    BY <1>1, <1>9, ConformsByMirroring DEF y, known

(* A wrapper conforms to a sum if it, or what it wraps, does to a member.  *)
LEMMA ConformsWrapped ==
  ASSUME NEW g, NEW md, NEW n \in 0 .. Steps - 1, NEW values, Ordered(values),
         NEW v \in 1 .. Len(values), values[v].kind = "wrap", NEW a, Formed(a),
         NEW i \in 1 .. Len(a.nodes), NEW t \in DOMAIN g.kind, NEW k \in 1 .. Len(g.kids[t]),
         \/ g.kind[t] = "nullable" /\ k = 1 /\ a.nodes[i].kind # "null"
         \/ g.kind[t] = "union",
         \/ Conforms(g, md, n, values, v, g.kids[t][k], a, i)
         \/ values[v].kids # << >> /\ Conforms(g, md, n, values, values[v].kids[1], g.kids[t][k], a, i)
  PROVE  Conforms(g, md, n + 1, values, v, t, a, i)
  <1> DEFINE x == Claim(v, t, a, i)
             known == Conforming(g, md, values, a)[n]
  <1>1. \/ known[Claim(v, g.kids[t][k], a, i)]
        \/ values[v].kids # << >> /\ known[Claim(values[v].kids[1], g.kids[t][k], a, i)]
    BY DEF Conforms
  <1>2. x.value = v /\ x.schema = t /\ x.arena = a /\ x.input = i
    BY DEF Claim
  <1> HIDE DEF x, known
  <1>3. Mirrors(g, md, values, known, x)
    <2>1. CASE g.kind[t] = "nullable" /\ k = 1 /\ a.nodes[i].kind # "null"
      BY <1>1, <1>2, <2>1 DEF Mirrors
    <2>2. CASE g.kind[t] = "union"
      BY <1>1, <1>2, <2>2 DEF Mirrors
    <2> QED
      BY <2>1, <2>2
  <1> QED
    BY <1>3, ConformsByMirroring DEF x, known

LEMMA ConformsNull ==
  ASSUME NEW g, NEW md, NEW n \in 0 .. Steps - 1, NEW values, Ordered(values),
         NEW v \in 1 .. Len(values), values[v].kind = "wrap", values[v].kids = << >>,
         NEW a, Formed(a), NEW i \in 1 .. Len(a.nodes), a.nodes[i].kind = "null",
         NEW t \in DOMAIN g.kind, g.kind[t] = "nullable"
  PROVE  Conforms(g, md, n + 1, values, v, t, a, i)
  <1> DEFINE x == Claim(v, t, a, i)
             known == Conforming(g, md, values, a)[n]
  <1>1. x.value = v /\ x.schema = t /\ x.arena = a /\ x.input = i
    BY DEF Claim
  <1> HIDE DEF x, known
  <1>2. Mirrors(g, md, values, known, x)
    BY <1>1 DEF Mirrors
  <1> QED
    BY <1>2, ConformsByMirroring DEF x, known

LEMMA ConformsScalar ==
  ASSUME NEW g, NEW md, NEW n \in 0 .. Steps - 1, NEW values, Ordered(values),
         NEW v \in 1 .. Len(values), NEW a, Formed(a), NEW i \in 1 .. Len(a.nodes),
         a.nodes[i].kind # "sequence", values[v].kids = << >>,
         values[v].kind = a.nodes[i].kind, values[v].label = a.nodes[i].label,
         NEW t \in DOMAIN g.kind, g.kind[t] = "scalar"
  PROVE  Conforms(g, md, n + 1, values, v, t, a, i)
  <1> DEFINE x == Claim(v, t, a, i)
             known == Conforming(g, md, values, a)[n]
  <1>1. x.value = v /\ x.schema = t /\ x.arena = a /\ x.input = i
    BY DEF Claim
  <1> HIDE DEF x, known
  <1>2. Mirrors(g, md, values, known, x)
    BY <1>1 DEF Mirrors
  <1> QED
    BY <1>2, ConformsByMirroring DEF x, known

LEMMA ConformsParts ==
  ASSUME NEW g, NEW md, NEW n \in 0 .. Steps - 1, NEW values, Ordered(values),
         NEW v \in 1 .. Len(values), NEW a, Formed(a), NEW i \in 1 .. Len(a.nodes),
         NEW t \in DOMAIN g.kind, g.kind[t] \in {"sequence", "model"},
         a.nodes[i].kind = "sequence", values[v].kind = "sequence",
         values[v].label = a.nodes[i].label, Len(values[v].kids) = Len(a.nodes[i].kids),
         g.kind[t] = "model" => Len(g.kids[t]) = Len(a.nodes[i].kids),
         \A k \in 1 .. Len(values[v].kids) :
           Conforms(g, md, n, values, values[v].kids[k],
                    g.kids[t][IF g.kind[t] = "model" THEN k ELSE 1], a, a.nodes[i].kids[k])
  PROVE  Conforms(g, md, n + 1, values, v, t, a, i)
  <1> DEFINE x == Claim(v, t, a, i)
             known == Conforming(g, md, values, a)[n]
  <1>1. \A k \in 1 .. Len(values[v].kids) :
          known[Claim(values[v].kids[k], g.kids[t][IF g.kind[t] = "model" THEN k ELSE 1], a,
                      a.nodes[i].kids[k])]
    BY DEF Conforms
  <1>2. x.value = v /\ x.schema = t /\ x.arena = a /\ x.input = i
    BY DEF Claim
  <1> HIDE DEF x, known
  <1>3. Mirrors(g, md, values, known, x)
    BY <1>1, <1>2 DEF Mirrors
  <1> QED
    BY <1>3, ConformsByMirroring DEF x, known

-----------------------------------------------------------------------------
(* A strict model in a lax validation is asked for again.                  *)
Again(g, call, state) ==
  /\ g.kind[call.schema] = "model" /\ g.flag[call.schema]
  /\ state.options.override = "none" /\ ~state.options.strict

PartOf(g, call, k) ==
  IF g.kind[call.schema] = "model" THEN g.kids[call.schema][k] ELSE g.kids[call.schema][1]

(* What a call that waits has asked for: a value of the schema s for node  *)
(* i of the input a, in a state of that home.                              *)
Asks(g, md, call, state, home, s, a, i) ==
  LET kd == g.kind[call.schema]
      ks == g.kids[call.schema]
      mine == state.input.nodes[call.input]
      onMine == a = state.input /\ i = call.input
  IN  \/ Again(g, call, state) /\ home = "branch" /\ onMine /\ s = call.schema
      \/ /\ kd \in {"sequence", "model"} /\ ~Again(g, call, state)
         /\ home = "shared" /\ a = state.input
         /\ mine.kind = "sequence" /\ (kd = "model" => Len(ks) = Len(mine.kids))
         /\ call.stage \in 1 .. Len(mine.kids)
         /\ s = PartOf(g, call, call.stage) /\ i = mine.kids[call.stage]
         /\ call.failure = "none" => Len(call.kids) = call.stage - 1
      \/ kd = "nullable" /\ home = "branch" /\ onMine /\ s = ks[1] /\ mine.kind # "null"
      \/ /\ kd = "union" /\ home = "branch" /\ onMine /\ call.stage \in 1 .. Len(ks)
         /\ s = ks[call.stage]
         /\ call.stage > 1 => call.best # << >> \/ call.failure # "none"
      \/ kd \in {"definitions", "reference"} /\ home = "shared" /\ onMine /\ s = ks[1]
      \/ /\ kd = "field" /\ onMine /\ s = ks[1]
         /\ home = IF state.options.override = "none" THEN "branch" ELSE "shared"
      \/ kd = "lax_or_strict" /\ home = "branch" /\ onMine /\ s \in {ks[1], ks[2]}
      \/ /\ kd = "json_or_structural" /\ home = "branch" /\ onMine
         /\ s = ks[IF a.profile = "json" THEN 1 ELSE 2]
      \/ /\ kd = "chain" /\ home # "shared" /\ call.stage \in 1 .. Len(ks) /\ s = ks[call.stage]
         /\ HandsOnInput(g, md, call.schema) => Same(a, i, state.input, call.input)
      \/ /\ kd \in Functions /\ md = "serialization" /\ home = "shared" /\ onMine
         /\ s = ks[IF kd = "function_after" THEN 1 ELSE 2]
      \/ kd \in Functions /\ md # "serialization" /\ home = "branch" /\ call.stage = 1
      \/ /\ kd \in Functions /\ md # "serialization" /\ home = "input" /\ call.stage = 2
         /\ s = ks[2] /\ a \in Outputs /\ i = a.root

(* What a call has of its parts, or the best of the choices it has tried.  *)
Collected(g, md, n, call, state) ==
  LET mine == state.input.nodes[call.input]
  IN  /\ g.kind[call.schema] \in {"sequence", "model"} /\ call.failure = "none" =>
           /\ IsSequence(call.kids) /\ Len(call.kids) <= Len(mine.kids)
           /\ \A k \in 1 .. Len(call.kids) :
                Conforms(g, md, n, state.values, call.kids[k], PartOf(g, call, k), state.input,
                         mine.kids[k])
      /\ g.kind[call.schema] = "union" /\ call.best # << >> =>
           \E k \in 1 .. Len(g.kids[call.schema]) :
             Conforms(g, md, n, call.best[1].values, call.best[1].id, g.kids[call.schema][k],
                      state.input, call.input)

(* The arena of a result that a call has given to the state of its caller. *)
ArenaOf(result, home, state) == IF home = "shared" THEN state.values ELSE result.values

StateOf(c) == states[calls[c].state]

FormedStates == \A k \in 1 .. Len(states) : Formed(states[k].input) /\ Ordered(states[k].values)

CollectedParts ==
  \A c \in 1 .. Len(calls) :
    /\ calls[c].input \in 1 .. Len(StateOf(c).input.nodes)
    /\ Collected(graph, mode, Steps - c - 1, calls[c], StateOf(c))

AskedParts ==
  \A c \in 1 .. Len(calls) - 1 :
    Asks(graph, mode, calls[c], StateOf(c), calls[c + 1].home, calls[c + 1].schema,
         StateOf(c + 1).input, calls[c + 1].input)

RootAsked ==
  calls # << >> =>
    calls[1].schema = graph.root /\ states[1].input = asked /\ calls[1].input = asked.root

(* A call that has not been entered has nothing yet. *)
StartsEmpty ==
  (calls # << >> /\ ret = Pending) =>
    top.stage = 0 /\ top.kids = << >> /\ top.failure = "none" /\ top.best = << >>

(* What is returned is what was asked for. *)
Answered ==
  /\ (calls = << >> /\ ret.outcome = "ok") =>
       Conforms(graph, mode, Steps - 1, ret.values, ret.id, graph.root, asked, asked.root)
  /\ (calls # << >> /\ ret # Pending) =>
       \E home \in Homes, s \in DOMAIN graph.kind : \E a, i :
         /\ Asks(graph, mode, top, here, home, s, a, i)
         /\ ret.outcome = "ok" =>
              Conforms(graph, mode, Steps - Len(calls) - 1, ArenaOf(ret, home, here), ret.id, s, a, i)

(* What has failed says so in the calls that keep its error. *)
FailuresNamed == ret.outcome = "error" => ret.code # "none"

Conformity ==
  /\ FormedStates /\ CollectedParts /\ AskedParts /\ RootAsked /\ StartsEmpty /\ Answered
  /\ FailuresNamed

-----------------------------------------------------------------------------
(* At most three calls are at the same depth: there are fewer calls than   *)
(* steps.                                                                  *)
LEMMA CallsAreFew ==
  ASSUME IInv
  PROVE  Len(calls) \in Nat /\ Len(calls) < Steps
  <1> DEFINE S == {k \in Nat : 3 * k + 1 <= Len(calls) => calls[3 * k + 1].depth >= k}
  <1>1. /\ Len(calls) \in Nat
        /\ \A c \in 1 .. Len(calls) : calls[c].depth \in Nat /\ calls[c].depth <= MaxDepth + 1
    BY LengthIs DEF IInv, TypeOK, Path
  <1>2. 0 \in S
    BY <1>1
  <1>3. ASSUME NEW k \in S PROVE k + 1 \in S
    <2> SUFFICES ASSUME 3 * (k + 1) + 1 <= Len(calls)
                 PROVE  calls[3 * (k + 1) + 1].depth >= k + 1
      OBVIOUS
    <2> DEFINE c == 3 * k + 1
    <2>1. k \in Nat /\ c \in 1 .. Len(calls) /\ c + 3 <= Len(calls) /\ c + 3 \in 1 .. Len(calls)
          /\ 3 * (k + 1) + 1 = c + 3 /\ c <= Len(calls)
      BY <1>1
    <2>2. calls[c].depth >= k
      BY <2>1
    <2> HIDE DEF c
    <2>3. calls[c].depth < calls[c + 3].depth
      BY <2>1, DepthRises
    <2>4. calls[c].depth \in Nat /\ calls[c + 3].depth \in Nat
      BY <1>1, <2>1
    <2>5. calls[c + 3].depth >= k + 1
      BY <2>1, <2>2, <2>3, <2>4
    <2> QED
      BY <2>1, <2>5
  <1>4. S = Nat
    <2>1. S \in SUBSET Nat
      OBVIOUS
    <2> HIDE DEF S
    <2> QED
      BY <1>2, <1>3, <2>1, AllNaturals
  <1>5. ASSUME ~(Len(calls) < Steps) PROVE FALSE
    <2> DEFINE k == MaxDepth + 2
    <2>1. k \in Nat /\ 3 * k + 1 \in 1 .. Len(calls)
      BY <1>1, <1>5, DepthAssumption DEF Steps
    <2>2. k \in S
      <3> HIDE DEF k, S
      <3> QED
        BY <1>4, <2>1
    <2>3. calls[3 * k + 1].depth >= k /\ calls[3 * k + 1].depth <= MaxDepth + 1
          /\ calls[3 * k + 1].depth \in Nat
      BY <1>1, <2>1, <2>2
    <2> HIDE DEF S
    <2>4. k = MaxDepth + 2 /\ MaxDepth \in Nat
      BY DepthAssumption
    <2> HIDE DEF k
    <2> QED
      BY <2>1, <2>3, <2>4
  <1> QED
    BY <1>1, <1>5

(* What is kept as states grow: parts and questions. *)
LEMMA CollectedStays ==
  ASSUME NEW g, IsGraph(g), NEW md, NEW n \in 0 .. Steps, NEW call, NEW before, NEW after,
         Collected(g, md, n, call, before), after.input = before.input,
         Extends(before.values, after.values)
  PROVE  Collected(g, md, n, call, after)
  <1> DEFINE mine == before.input.nodes[call.input]
  <1>1. n \in n .. Steps
    BY StepsAreNatural
  <1>2. ASSUME NEW v, NEW s, NEW i,
               Conforms(g, md, n, before.values, v, s, before.input, i)
        PROVE  Conforms(g, md, n, after.values, v, s, before.input, i)
    <2> DEFINE a == before.input
               values == before.values
               others == after.values
    <2>1. Conforms(g, md, n, values, v, s, a, i) /\ Extends(values, others)
      BY <1>2
    <2> HIDE DEF a, values, others
    <2>2. Formed(a) /\ Same(a, i, a, i)
      BY <2>1, ConformsThere
    <2>3. Conforms(g, md, n, others, v, s, a, i)
      BY <1>1, <2>1, <2>2, ConformsInMore
    <2> QED
      BY <2>3 DEF a, values, others
  <1>3. g.kind[call.schema] \in {"sequence", "model"} /\ call.failure = "none" =>
           /\ IsSequence(call.kids) /\ Len(call.kids) <= Len(mine.kids)
           /\ \A k \in 1 .. Len(call.kids) :
                Conforms(g, md, n, after.values, call.kids[k], PartOf(g, call, k), before.input,
                         mine.kids[k])
    BY <1>2 DEF Collected
  <1>4. g.kind[call.schema] = "union" /\ call.best # << >> =>
           \E k \in 1 .. Len(g.kids[call.schema]) :
             Conforms(g, md, n, call.best[1].values, call.best[1].id, g.kids[call.schema][k],
                      before.input, call.input)
    BY DEF Collected
  <1> QED
    BY <1>3, <1>4 DEF Collected

LEMMA CollectedNothing ==
  ASSUME NEW g, NEW md, NEW n, NEW call, NEW state, call.kids = << >>, call.best = << >>,
         Formed(state.input), call.input \in 1 .. Len(state.input.nodes)
  PROVE  Collected(g, md, n, call, state)
  <1>1. Len(<< >>) = 0 /\ IsSequence(<< >>)
    BY EmptySeq, IsSequenceOf
  <1>2. Len(state.input.nodes[call.input].kids) \in Nat
    BY LengthIs DEF Formed
  <1> QED
    BY <1>1, <1>2 DEF Collected

LEMMA AsksStays ==
  ASSUME NEW g, NEW md, NEW ov, NEW call, NEW before, NEW after, NEW home, NEW s, NEW a, NEW i,
         Asks(g, md, call, before, home, s, a, i),
         after.input = before.input, after.options = before.options
  PROVE  Asks(g, md, call, after, home, s, a, i)
  BY DEF Asks, Again

-----------------------------------------------------------------------------
(* What a handler finds: the node it is about, and room for a step more.   *)
LEMMA ConformityIs ==
  ASSUME IInv, Conformity, calls # << >>
  PROVE  /\ IsGraph(graph) /\ Len(calls) \in Nat \ {0}
         /\ Steps - Len(calls) - 1 \in 0 .. Steps - 1 /\ Steps - Len(calls) \in 0 .. Steps
         /\ Steps - Len(calls) = (Steps - Len(calls) - 1) + 1
         /\ top = calls[Len(calls)] /\ here = states[Len(states)] /\ here = StateOf(Len(calls))
         /\ Formed(here.input) /\ Ordered(here.values)
         /\ top.input \in 1 .. Len(here.input.nodes)
         /\ Collected(graph, mode, Steps - Len(calls) - 1, top, here)
  <1>1. /\ Len(calls) \in Nat \ {0} /\ Len(states) \in Nat \ {0} /\ Len(calls) < Steps
        /\ top = calls[Len(calls)] /\ here = states[Len(states)] /\ top.state = Len(states)
    BY TopIs, CallsAreFew
  <1>2. IsGraph(graph)
    BY GraphsAssumption DEF IInv, TypeOK
  <1>3. Steps \in Nat
    BY StepsAreNatural
  <1>4. here = StateOf(Len(calls))
    BY <1>1 DEF StateOf
  <1>5. Len(calls) \in 1 .. Len(calls) /\ Len(states) \in 1 .. Len(states)
    BY <1>1
  <1>6. Formed(here.input) /\ Ordered(here.values)
    BY <1>1, <1>5 DEF Conformity, FormedStates
  <1>7. /\ top.input \in 1 .. Len(here.input.nodes)
        /\ Collected(graph, mode, Steps - Len(calls) - 1, top, here)
    BY <1>1, <1>4, <1>5 DEF Conformity, CollectedParts
  <1>8. /\ Steps - Len(calls) - 1 \in 0 .. Steps - 1 /\ Steps - Len(calls) \in 0 .. Steps
        /\ Steps - Len(calls) = (Steps - Len(calls) - 1) + 1
    BY <1>1, <1>3
  <1> QED
    BY <1>1, <1>2, <1>4, <1>6, <1>7, <1>8

LEMMA OpenedStack ==
  ASSUME NEW s, IsSequence(s), s # << >>, NEW e, NEW f
  PROVE  LET all == Append(Append(Pop(s), e), f)
         IN  /\ Len(all) = Len(s) + 1 /\ all # << >>
             /\ \A c \in 1 .. Len(s) - 1 : all[c] = s[c]
             /\ all[Len(s)] = e /\ all[Len(s) + 1] = f
  <1> DEFINE paused == Append(Pop(s), e)
  <1>1. /\ IsSequence(paused) /\ Len(paused) = Len(s) /\ Len(s) \in Nat
        /\ \A c \in 1 .. Len(s) - 1 : paused[c] = s[c]
        /\ paused[Len(s)] = e
    BY ReplaceIs, LengthIs
  <1> HIDE DEF paused
  <1>2. /\ Len(Append(paused, f)) = Len(paused) + 1 /\ Append(paused, f) # << >>
        /\ \A c \in 1 .. Len(paused) : Append(paused, f)[c] = paused[c]
        /\ Append(paused, f)[Len(paused) + 1] = f
    BY <1>1, AppendIs
  <1>3. Len(s) \in 1 .. Len(s)
    BY <1>1, LengthIs
  <1>4. Append(paused, f)[Len(s)] = e
    BY <1>1, <1>2, <1>3
  <1>5. \A c \in 1 .. Len(s) - 1 : Append(paused, f)[c] = s[c]
    BY <1>1, <1>2
  <1> QED
    BY <1>1, <1>2, <1>4, <1>5 DEF paused

LEMMA OpenedCalls ==
  ASSUME IsSequence(calls), calls # << >>, NEW caller, NEW new,
         calls' = Append(Append(Pop(calls), caller), new)
  PROVE  /\ Len(calls') = Len(calls) + 1 /\ calls' # << >> /\ calls'[Len(calls) + 1] = new
         /\ \A c \in 1 .. Len(calls) - 1 : calls'[c] = calls[c]
         /\ calls'[Len(calls)] = caller
  <1> DEFINE all == Append(Append(Pop(calls), caller), new)
  <1>1. /\ Len(all) = Len(calls) + 1 /\ all # << >>
        /\ \A c \in 1 .. Len(calls) - 1 : all[c] = calls[c]
        /\ all[Len(calls)] = caller /\ all[Len(calls) + 1] = new
    BY OpenedStack
  <1> QED
    BY <1>1

(* A call that opens another. *)
LEMMA OpeningConforms ==
  ASSUME IInv, Conformity, calls # << >>, UNCHANGED given, NEW caller, SamePlace(caller, top),
         NEW s, NEW i, NEW d, NEW home, NEW a, Formed(a), i \in 1 .. Len(a.nodes),
         calls' = Append(Append(Pop(calls), caller),
                         Call(s, i, d, home, IF home = "shared" THEN Len(states) ELSE Len(states) + 1)),
         ret' = Pending,
         Len(states') = IF home = "shared" THEN Len(states) ELSE Len(states) + 1,
         \A j \in 1 .. Len(states) - 1 : states'[j] = states[j],
         states'[Len(states)].input = here.input, states'[Len(states)].options = here.options,
         states'[Len(states)].values = here.values, states'[Len(states')].input = a,
         home # "shared" => states'[Len(states')].values = << >>,
         Collected(graph, mode, Steps - Len(calls) - 1, caller, here),
         Asks(graph, mode, caller, here, home, s, a, i)
  PROVE  Conformity'
  <1> DEFINE n == Len(calls)
             m == Len(states)
             k == IF home = "shared" THEN m ELSE m + 1
             new == Call(s, i, d, home, k)
  <1>1. /\ n \in Nat \ {0} /\ m \in Nat \ {0} /\ IsSequence(calls) /\ top = calls[n]
        /\ here = states[m] /\ top.state = m /\ IsGraph(graph) /\ Formed(here.input)
        /\ Ordered(here.values) /\ top.input \in 1 .. Len(here.input.nodes)
    BY TopIs, ConformityIs
  <1>2. /\ new.schema = s /\ new.input = i /\ new.home = home /\ new.state = k /\ new.stage = 0
        /\ new.kids = << >> /\ new.failure = "none" /\ new.best = << >>
    BY DEF Call
  <1>3. calls' = Append(Append(Pop(calls), caller), new) /\ k \in Nat \ {0} /\ k \in m .. m + 1 /\ Len(states') = k
        /\ (home = "shared" => k = m) /\ (home # "shared" => k = m + 1)
    BY <1>1
  <1>4. UNCHANGED given /\ graph' = graph /\ mode' = mode /\ options' = options /\ asked' = asked
    BY DEF given
  <1> HIDE DEF n, m, k, new
  <1>5. /\ Len(calls') = n + 1 /\ calls' # << >> /\ calls'[n + 1] = new
        /\ \A c \in 1 .. n - 1 : calls'[c] = calls[c]
        /\ calls'[n] = caller
    BY <1>1, <1>3, OpenedCalls DEF n
  <1>6. /\ caller.schema = top.schema /\ caller.input = top.input /\ caller.state = m
        /\ caller.home = top.home
    BY <1>1 DEF SamePlace
  <1>7. /\ \A j \in 1 .. m - 1 : states'[j] = states[j]
        /\ states'[m].input = here.input /\ states'[m].options = here.options
        /\ states'[m].values = here.values
        /\ states'[k].input = a /\ (home # "shared" => states'[k].values = << >>)
    BY <1>3 DEF m
  <1>8. ASSUME NEW j \in 1 .. m
         PROVE  /\ states'[j].input = states[j].input
                /\ states'[j].options = states[j].options
                /\ states'[j].values = states[j].values
    <2>1. CASE j = m
      BY <1>1, <1>7, <2>1
    <2>2. CASE j \in 1 .. m - 1
      BY <1>7, <2>2
    <2>3. j = m \/ j \in 1 .. m - 1
      BY <1>1
    <2> QED
      BY <2>1, <2>2, <2>3
  <1>9. \A c \in 1 .. n : calls[c].state \in 1 .. m
    BY DEF IInv, TypeOK, n, m
  <1>10. FormedStates'
    <2>1. Ordered(<< >>)
      <3>1. IsSequence(<< >>) /\ Len(<< >>) = 0
        BY EmptySeq, IsSequenceOf
      <3> QED
        BY <3>1 DEF Ordered
    <2>2. ASSUME NEW j \in 1 .. k PROVE Formed(states'[j].input) /\ Ordered(states'[j].values)
      <3>1. CASE j \in 1 .. m
        BY <1>8, <3>1 DEF Conformity, FormedStates, m
      <3>2. CASE j \notin 1 .. m
        <4>1. j = k /\ home # "shared"
          BY <1>1, <1>3, <3>2
        <4> QED
          BY <1>7, <2>1, <4>1
      <3> QED
        BY <3>1, <3>2
    <2> QED
      BY <1>3, <2>2 DEF FormedStates
  <1>11. ASSUME NEW c \in 1 .. n
         PROVE  /\ calls'[c].state = calls[c].state /\ calls'[c].input = calls[c].input
                /\ calls'[c].schema = calls[c].schema /\ calls'[c].home = calls[c].home
                /\ states'[calls'[c].state].input = states[calls[c].state].input
                /\ states'[calls'[c].state].options = states[calls[c].state].options
                /\ states'[calls'[c].state].values = states[calls[c].state].values
    <2>1. /\ calls'[c].state = calls[c].state /\ calls'[c].input = calls[c].input
          /\ calls'[c].schema = calls[c].schema /\ calls'[c].home = calls[c].home
      <3>1. CASE c = n
        BY <1>1, <1>5, <1>6, <3>1
      <3>2. CASE c \in 1 .. n - 1
        BY <1>5, <3>2
      <3>3. c = n \/ c \in 1 .. n - 1
        BY <1>1
      <3> QED
        BY <3>1, <3>2, <3>3
    <2> QED
      BY ZenonT(30), <1>8, <1>9, <2>1
  <1>12. /\ calls'[n + 1].state = k /\ calls'[n + 1].schema = s /\ calls'[n + 1].input = i
         /\ calls'[n + 1].home = home
    BY <1>2, <1>5
  <1>13. CollectedParts'
    <2>1. ASSUME NEW c \in 1 .. n + 1
          PROVE  /\ calls'[c].input \in 1 .. Len(states'[calls'[c].state].input.nodes)
                 /\ Collected(graph, mode, Steps - c - 1, calls'[c], states'[calls'[c].state])
      <3>1. CASE c \in 1 .. n - 1
        <4>1. c \in 1 .. n /\ calls'[c] = calls[c]
          <5>1. calls'[c] = calls[c]
            BY <1>5, <3>1
          <5>2. n \in Nat /\ c \in 1 .. n
            BY <1>1, <3>1
          <5> QED
            BY <5>1, <5>2
        <4>2. /\ calls[c].input \in 1 .. Len(states[calls[c].state].input.nodes)
              /\ Collected(graph, mode, Steps - c - 1, calls[c], states[calls[c].state])
          BY <4>1 DEF Conformity, CollectedParts, StateOf, n
        <4>3. /\ states'[calls'[c].state].input = states[calls[c].state].input
              /\ states'[calls'[c].state].values = states[calls[c].state].values
          BY <1>11, <4>1
        <4> QED
          BY ZenonT(30), <4>1, <4>2, <4>3 DEF Collected
      <3>2. CASE c = n
        <4>1. states'[m].input = here.input /\ states'[m].values = here.values /\ calls'[c] = caller
          BY <1>5, <1>7, <3>2
        <4>2. Collected(graph, mode, Steps - c - 1, caller, here)
          BY <3>2 DEF n
        <4>3. Collected(graph, mode, Steps - c - 1, caller, states'[m])
          BY <4>1, <4>2 DEF Collected
        <4> QED
          BY ZenonT(30), <1>1, <1>6, <4>1, <4>3
      <3>3. CASE c = n + 1
        <4>1. /\ calls'[c] = new /\ states'[k].input = a
          BY <1>5, <1>7, <3>3
        <4>2. Collected(graph, mode, Steps - c - 1, new, states'[k])
          BY <1>2, <4>1, CollectedNothing
        <4> QED
          BY <1>2, <4>1, <4>2
      <3>4. c \in 1 .. n - 1 \/ c = n \/ c = n + 1
        BY <1>1
      <3> QED
        BY <3>1, <3>2, <3>3, <3>4
    <2> QED
      BY <1>4, <1>5, <2>1 DEF CollectedParts, StateOf
  <1>14. AskedParts'
    <2>1. ASSUME NEW c \in 1 .. n
          PROVE  Asks(graph, mode, calls'[c], states'[calls'[c].state],
                      calls'[c + 1].home, calls'[c + 1].schema,
                      states'[calls'[c + 1].state].input, calls'[c + 1].input)
      <3>1. CASE c \in 1 .. n - 1
        <4>1. c \in Nat /\ c >= 1 /\ c <= n - 1 /\ n \in Nat
          BY <1>1, <3>1
        <4>2. c + 1 \in 1 .. n /\ calls'[c] = calls[c]
          <5>1. calls'[c] = calls[c]
            BY <1>5, <3>1
          <5>2. c + 1 \in 1 .. n
            BY <4>1
          <5> QED
            BY <5>1, <5>2
        <4>3. Asks(graph, mode, calls[c], states[calls[c].state],
                   calls[c + 1].home, calls[c + 1].schema,
                   states[calls[c + 1].state].input, calls[c + 1].input)
          BY <3>1 DEF Conformity, AskedParts, StateOf, n
        <4>4. /\ states'[calls'[c].state].input = states[calls[c].state].input
              /\ states'[calls'[c].state].options = states[calls[c].state].options
          BY <1>11
        <4>5. /\ calls'[c + 1].home = calls[c + 1].home /\ calls'[c + 1].schema = calls[c + 1].schema
              /\ calls'[c + 1].input = calls[c + 1].input
              /\ states'[calls'[c + 1].state].input = states[calls[c + 1].state].input
          BY <1>11, <4>2
        <4>6. Asks(graph, mode, calls[c], states'[calls'[c].state],
                   calls[c + 1].home, calls[c + 1].schema,
                   states[calls[c + 1].state].input, calls[c + 1].input)
          BY ZenonT(30), <4>3, <4>4, AsksStays
        <4> QED
          BY <4>2, <4>5, <4>6
      <3>2. CASE c = n
        <4>1. Asks(graph, mode, caller, states'[m], home, s, a, i)
          BY <1>7, AsksStays
        <4> QED
          BY <1>5, <1>6, <1>7, <1>12, <3>2, <4>1
      <3>3. c \in 1 .. n - 1 \/ c = n
        BY <1>1
      <3> QED
        BY <3>1, <3>2, <3>3
    <2>2. Len(calls') - 1 = n
      BY <1>1, <1>5
    <2>3. ASSUME NEW c \in 1 .. n
          PROVE  Asks(graph', mode', calls'[c], StateOf(c)',
                      calls'[c + 1].home, calls'[c + 1].schema,
                      StateOf(c + 1)'.input, calls'[c + 1].input)
      BY <1>4, <2>1 DEF StateOf
    <2> QED
      BY <2>2, <2>3 DEF AskedParts
  <1>15. RootAsked'
    <2>1. 1 \in 1 .. n /\ 1 \in 1 .. m /\ calls # << >>
      BY <1>1
    <2>2. calls[1].schema = graph.root /\ states[1].input = asked /\ calls[1].input = asked.root
      BY <2>1 DEF Conformity, RootAsked
    <2>3. calls'[1].schema = calls[1].schema /\ calls'[1].input = calls[1].input
          /\ states'[1].input = states[1].input
      BY <1>8, <1>11, <2>1
    <2> QED
      BY <1>4, <2>2, <2>3 DEF RootAsked
  <1>16. StartsEmpty'
    <2>1. Last(calls') = new
      BY <1>5 DEF Last
    <2> QED
      BY <1>2, <2>1 DEF StartsEmpty, top
  <1>17. Answered'
    BY <1>5 DEF Answered
  <1>18. FailuresNamed'
    BY DEF FailuresNamed, Pending
  <1> QED
    BY <1>10, <1>13, <1>14, <1>15, <1>16, <1>17, <1>18 DEF Conformity

(* A call that returns: a value of what it was asked for, or an error.     *)
LEMMA ClosingConforms ==
  ASSUME IInv, Conformity, calls # << >>, UNCHANGED given, NEW state, NEW result,
         GiveWith(state, result), result # Pending,
         result.outcome = "error" => result.code # "none",
         state.input = here.input, state.options = here.options, Extends(here.values, state.values),
         result.outcome = "ok" =>
           Conforms(graph, mode, Steps - Len(calls), ArenaOf(result, top.home, state), result.id,
                    top.schema, here.input, top.input)
  PROVE  Conformity'
  <1> DEFINE n == Len(calls)
             m == Len(states)
             k == IF top.home = "shared" THEN m ELSE m - 1
  <1>1. /\ n \in Nat \ {0} /\ m \in Nat \ {0} /\ IsSequence(calls) /\ top = calls[n]
        /\ here = states[m] /\ top.state = m /\ IsGraph(graph) /\ Formed(here.input)
        /\ Ordered(here.values) /\ top.input \in 1 .. Len(here.input.nodes)
        /\ IsSequence(states) /\ states # << >>
    BY TopIs, ConformityIs
  <1>2. graph' = graph /\ mode' = mode /\ options' = options /\ asked' = asked /\ ret' = result
    BY DEF given, GiveWith
  <1>3. /\ IsSequence(calls') /\ Len(calls') = n - 1
        /\ \A c \in 1 .. n - 1 : calls'[c] = calls[c]
    <2>1. calls' = Pop(calls)
      BY DEF GiveWith
    <2> QED
      BY <1>1, <2>1, PopIs
  <1>4. /\ Len(states') = k /\ \A j \in 1 .. m - 1 : states'[j] = states[j]
        /\ top.home = "shared" => states'[m] = state
    <2>1. CASE top.home = "shared"
      <3>1. states' = Append(Pop(states), state)
        BY <2>1 DEF GiveWith
      <3>2. IsSequence(states) /\ states # << >>
        BY <1>1
      <3>3. /\ Len(states') = Len(states) /\ states'[Len(states)] = state
            /\ \A j \in 1 .. Len(states) - 1 : states'[j] = states[j]
        BY <3>1, <3>2, ReplaceIs
      <3> QED
        BY <2>1, <3>3
    <2>2. CASE top.home # "shared"
      <3>1. states' = Pop(states)
        BY <2>2 DEF GiveWith
      <3>2. IsSequence(states) /\ states # << >>
        BY <1>1
      <3>3. /\ Len(states') = Len(states) - 1
            /\ \A j \in 1 .. Len(states) - 1 : states'[j] = states[j]
        BY <3>1, <3>2, PopIs
      <3> QED
        BY <2>2, <3>3
    <2> QED
      BY <2>1, <2>2
  <1>5. k \in Nat /\ (top.home = "shared" => k = m) /\ (top.home # "shared" => k = m - 1)
    BY <1>1
  <1> HIDE DEF n, m, k
  <1>6. ASSUME NEW j \in 1 .. k
        PROVE  /\ states'[j].input = states[j].input /\ states'[j].options = states[j].options
               /\ Extends(states[j].values, states'[j].values) /\ Formed(states[j].input)
               /\ j \in 1 .. m
    <2>1. j \in 1 .. m
      BY <1>1, <1>5
    <2>2. Formed(states[j].input) /\ Ordered(states[j].values)
      BY <2>1 DEF Conformity, FormedStates, m
    <2>3. CASE j = m
      <3>1. states'[j] = state /\ here = states[j]
        BY <1>1, <1>4, <1>5, <2>3
      <3> QED
        BY <2>1, <2>2, <3>1
    <2>4. CASE j \in 1 .. m - 1
      <3>1. states'[j] = states[j]
        BY <1>4, <2>4
      <3> QED
        BY <2>1, <2>2, <3>1, ExtendsItself
    <2>5. j = m \/ j \in 1 .. m - 1
      BY <1>1, <2>1
    <2> QED
      BY <2>3, <2>4, <2>5
  <1>7. FormedStates'
    BY <1>4, <1>6 DEF FormedStates, Extends
  <1>8. ASSUME NEW c \in 1 .. n - 1 PROVE c \in 1 .. n /\ calls[c].state \in 1 .. k
    <2>1. c \in 1 .. n /\ c + 1 \in 1 .. n /\ c < n /\ n \in 1 .. n
      BY <1>1
    <2>2. calls[c].state \in 1 .. m /\ calls[c].state <= calls[n].state
      BY <2>1 DEF IInv, TypeOK, Stacked, n, m
    <2>3. \/ calls[n - 1 + 1].home = "shared" /\ calls[n - 1 + 1].state = calls[n - 1].state
          \/ calls[n - 1 + 1].home # "shared" /\ calls[n - 1 + 1].state = calls[n - 1].state + 1
      <3>1. n - 1 \in 1 .. n - 1
        BY <1>1, <2>1
      <3> QED
        BY <3>1 DEF IInv, Stacked, n
    <2>4. c = n - 1 \/ calls[c].state <= calls[n - 1].state
      <3>1. c = n - 1 \/ c < n - 1
        BY <1>1, <2>1
      <3>2. n - 1 \in 1 .. n
        BY <1>1, <2>1
      <3> QED
        BY <2>1, <3>1, <3>2 DEF IInv, Stacked, n
    <2>5. n - 1 + 1 = n /\ n - 1 \in 1 .. n
      BY <1>1, <2>1
    <2>6. calls[n - 1].state \in Nat
      BY <2>5 DEF IInv, TypeOK, n
    <2>7. calls[c].state <= k
      <3>1. CASE top.home = "shared"
        BY <1>1, <1>5, <2>2, <3>1
      <3>2. CASE top.home # "shared"
        <4>1. calls[n - 1].state = m - 1
          BY <1>1, <2>3, <2>5, <2>6, <3>2
        <4>2. calls[c].state <= m - 1
          BY <1>1, <2>4, <4>1
        <4> QED
          BY <1>5, <3>2, <4>2
      <3> QED
        BY <3>1, <3>2
    <2> QED
      BY <1>5, <2>1, <2>2, <2>7
  <1>9. ASSUME NEW c \in 1 .. n - 1
        PROVE  /\ calls'[c] = calls[c]
               /\ states'[calls[c].state].input = states[calls[c].state].input
               /\ states'[calls[c].state].options = states[calls[c].state].options
               /\ Extends(states[calls[c].state].values, states'[calls[c].state].values)
    BY <1>3, <1>6, <1>8
  <1>10. CollectedParts'
    <2>1. ASSUME NEW c \in 1 .. n - 1
          PROVE  /\ calls'[c].input \in 1 .. Len(states'[calls'[c].state].input.nodes)
                 /\ Collected(graph, mode, Steps - c - 1, calls'[c], states'[calls'[c].state])
      <3>1. /\ calls[c].input \in 1 .. Len(states[calls[c].state].input.nodes)
            /\ Collected(graph, mode, Steps - c - 1, calls[c], states[calls[c].state])
        BY <1>8 DEF Conformity, CollectedParts, StateOf, n
      <3>2. Steps - c - 1 \in 0 .. Steps
        <4>1. n < Steps /\ Steps \in Nat
          BY CallsAreFew, StepsAreNatural DEF n
        <4> QED
          BY <1>1, <4>1
      <3> DEFINE before == states[calls[c].state]
                 after == states'[calls[c].state]
                 call == calls[c]
                 r == Steps - c - 1
      <3>3. /\ Collected(graph, mode, r, call, before) /\ after.input = before.input
            /\ Extends(before.values, after.values) /\ r \in 0 .. Steps
        BY <1>9, <3>1, <3>2
      <3> HIDE DEF before, after, call, r
      <3>4. Collected(graph, mode, r, call, after)
        BY <1>1, <3>3, CollectedStays
      <3> QED
        BY <1>9, <3>1, <3>4 DEF after, call, r
    <2> QED
      BY <1>2, <1>3, <2>1 DEF CollectedParts, StateOf
  <1>11. AskedParts'
    <2>1. ASSUME NEW c \in 1 .. n - 1, c + 1 \in 1 .. n - 1
          PROVE  Asks(graph, mode, calls'[c], states'[calls'[c].state],
                      calls'[c + 1].home, calls'[c + 1].schema,
                      states'[calls'[c + 1].state].input, calls'[c + 1].input)
      <3>1. Asks(graph, mode, calls[c], states[calls[c].state],
                 calls[c + 1].home, calls[c + 1].schema,
                 states[calls[c + 1].state].input, calls[c + 1].input)
        BY DEF Conformity, AskedParts, StateOf, n
      <3>2. Asks(graph, mode, calls[c], states'[calls[c].state],
                 calls[c + 1].home, calls[c + 1].schema,
                 states[calls[c + 1].state].input, calls[c + 1].input)
        BY <1>9, <3>1, AsksStays
      <3>3. /\ calls'[c + 1] = calls[c + 1]
            /\ states'[calls[c + 1].state].input = states[calls[c + 1].state].input
        BY <1>9, <2>1
      <3> QED
        BY <1>9, <3>2, <3>3
    <2>2. \A c \in 1 .. Len(calls') - 1 : c \in 1 .. n - 1 /\ c + 1 \in 1 .. n - 1
      BY <1>1, <1>3
    <2> QED
      BY <1>2, <2>1, <2>2 DEF AskedParts, StateOf
  <1>12. RootAsked'
    <2> SUFFICES ASSUME calls' # << >> PROVE RootAsked'
      BY DEF RootAsked
    <2>1. Len(calls') # 0
      BY <1>3, LengthIs
    <2>2. 1 \in 1 .. n - 1
      BY <1>1, <1>3, <2>1
    <2>3. 1 \in 1 .. k
      <3>1. calls[1].state \in 1 .. k
        BY <1>8, <2>2
      <3> QED
        BY <1>5, <3>1
    <2>4. calls[1].schema = graph.root /\ states[1].input = asked /\ calls[1].input = asked.root
      BY DEF Conformity, RootAsked
    <2>5. calls'[1] = calls[1] /\ states'[1].input = states[1].input
      BY <1>3, <1>6, <2>2, <2>3
    <2> QED
      BY <1>2, <2>4, <2>5 DEF RootAsked
  <1>13. StartsEmpty'
    BY <1>2 DEF StartsEmpty
  <1>14. Answered'
    <2>1. result.outcome = "ok" =>
            Conforms(graph, mode, Steps - n, ArenaOf(result, top.home, state), result.id,
                     top.schema, here.input, top.input)
      BY DEF n
    <2>2. CASE n = 1
      <3>1. calls' = << >>
        BY <1>3, <2>2, LengthIs
      <3>2. top.home # "shared" /\ top.schema = graph.root /\ here.input = asked /\ top.input = asked.root
        <4>1. m = 1
          BY <1>1, <2>2 DEF IInv, Stacked
        <4> QED
          BY <1>1, <2>2, <4>1 DEF IInv, Stacked, Conformity, RootAsked
      <3>3. result.outcome = "ok" =>
              Conforms(graph, mode, Steps - 1, result.values, result.id, graph.root, asked, asked.root)
        BY <2>1, <2>2, <3>2 DEF ArenaOf
      <3> QED
        BY <1>2, <3>1, <3>3 DEF Answered
    <2>3. CASE n # 1
      <3>1. /\ n - 1 \in 1 .. n - 1 /\ n - 1 + 1 = n /\ n - 1 \in Nat \ {0}
            /\ Steps - n = Steps - (n - 1) - 1
        BY <1>1, <2>3, StepsAreNatural
      <3>2. calls' # << >>
        BY <1>3, <3>1, LengthIs
      <3> DEFINE p == n - 1
                 up == states[calls[p].state]
      <3>3. Asks(graph, mode, calls[p], up, top.home, top.schema, here.input, top.input)
        <4>1. Asks(graph, mode, calls[p], states[calls[p].state],
                   calls[p + 1].home, calls[p + 1].schema,
                   states[calls[p + 1].state].input, calls[p + 1].input)
          BY <3>1 DEF Conformity, AskedParts, StateOf, n
        <4> QED
          BY <1>1, <3>1, <4>1
      <3>4. calls'[p] = calls[p] /\ calls[p].state = k
        <4>1. \/ calls[p + 1].home = "shared" /\ calls[p + 1].state = calls[p].state
              \/ calls[p + 1].home # "shared" /\ calls[p + 1].state = calls[p].state + 1
          BY <3>1 DEF IInv, Stacked, n
        <4>2. calls[p].state \in Nat
          BY <1>8, <3>1
        <4>3. calls[p + 1] = top
          BY <1>1, <3>1
        <4> QED
          BY <1>1, <1>3, <1>5, <3>1, <4>1, <4>2, <4>3
      <3>5. /\ states'[k].input = up.input /\ states'[k].options = up.options
            /\ top.home = "shared" => states'[k] = state
        BY <1>4, <1>5, <1>9, <3>1, <3>4
      <3>6. top' = calls[p] /\ here' = states'[k]
        BY <1>3, <1>4, <3>4 DEF top, here, Last
      <3>7. Asks(graph, mode, calls[p], states'[k], top.home, top.schema,
                 here.input, top.input)
        BY <3>3, <3>5, AsksStays
      <3>8. ArenaOf(result, top.home, states'[k]) = ArenaOf(result, top.home, state)
        BY <3>5 DEF ArenaOf
      <3>9. result.outcome = "ok" =>
              Conforms(graph, mode, Steps - p - 1, ArenaOf(result, top.home, states'[k]), result.id,
                       top.schema, here.input, top.input)
        BY <2>1, <3>1, <3>8
      <3>10. top.home \in Homes /\ top.schema \in DOMAIN graph.kind
        BY TopIs
      <3>11. Len(calls') = p
        BY <1>3
      <3> DEFINE home == top.home
                 s == top.schema
                 a == here.input
                 i == top.input
      <3>12. /\ home \in Homes /\ s \in DOMAIN graph.kind
             /\ Asks(graph, mode, calls[p], states'[k], home, s, a, i)
             /\ result.outcome = "ok" =>
                  Conforms(graph, mode, Steps - p - 1, ArenaOf(result, home, states'[k]), result.id, s, a, i)
        BY <3>7, <3>9, <3>10
      <3> HIDE DEF p, home, s, a, i
      <3>13. /\ Asks(graph', mode', top', here', home, s, a, i)
             /\ ret'.outcome = "ok" =>
                  Conforms(graph', mode', Steps - Len(calls') - 1, ArenaOf(ret', home, here'), ret'.id, s, a, i)
             /\ s \in DOMAIN graph'.kind
        BY <1>2, <3>6, <3>11, <3>12
      <3> QED
        BY <3>2, <3>12, <3>13 DEF Answered
    <2> QED
      BY <2>2, <2>3
  <1>15. FailuresNamed'
    BY <1>2 DEF FailuresNamed
  <1> QED
    BY <1>7, <1>10, <1>11, <1>12, <1>13, <1>14, <1>15 DEF Conformity

-----------------------------------------------------------------------------
(* The ways a handler ends. *)
Builds(state) ==
  state.input = here.input /\ state.options = here.options /\ Extends(here.values, state.values)

LEMMA HereBuilds ==
  ASSUME IInv, Conformity, calls # << >>
  PROVE  /\ Builds(here)
         /\ \A values : Extends(here.values, values) =>
              /\ Builds([here EXCEPT !.values = values])
              /\ [here EXCEPT !.values = values].values = values
  <1>1. Extends(here.values, here.values)
    BY ConformityIs, ExtendsItself
  <1>2. IsState(here)
    BY TopIs
  <1> QED
    BY <1>1, <1>2 DEF Builds, IsState

LEMMA FailConforms ==
  ASSUME IInv, Conformity, calls # << >>, UNCHANGED given, NEW state, Builds(state), NEW code,
         code # "none", Fail(state, code)
  PROVE  Conformity'
  <1> DEFINE result == Failed(Overridden(code))
  <1>1. result.outcome = "error" /\ result.code # "none" /\ GiveWith(state, result)
    BY DEF Fail, Failed, Overridden
  <1> HIDE DEF result
  <1>2. result # Pending /\ result.outcome # "ok"
    BY <1>1 DEF Pending
  <1> QED
    BY <1>1, <1>2, ClosingConforms DEF Builds

LEMMA GiveConforms ==
  ASSUME IInv, Conformity, calls # << >>, UNCHANGED given, NEW state, Builds(state), NEW id,
         Give(state, id),
         Conforms(graph, mode, Steps - Len(calls), state.values, id, top.schema, here.input, top.input)
  PROVE  Conformity'
  <1> DEFINE result == Returned(id, IF top.home = "shared" THEN << >> ELSE state.values)
  <1>1. result.outcome = "ok" /\ result.id = id /\ GiveWith(state, result)
    BY DEF Give, Returned
  <1>2. ArenaOf(result, top.home, state) = state.values
    BY DEF ArenaOf, Returned
  <1> HIDE DEF result
  <1>3. result # Pending
    BY <1>1 DEF Pending
  <1> QED
    BY <1>1, <1>2, <1>3, ClosingConforms DEF Builds

(* A node is pushed and returned. *)
LEMMA PushedIs ==
  ASSUME IInv, Conformity, calls # << >>, NEW kd, NEW label, NEW ids,
         IsValue([kind |-> kd, label |-> label, kids |-> ids]),
         \A k \in 1 .. Len(ids) : ids[k] \in 1 .. Len(here.values)
  PROVE  LET state == Pushed(here, kd, label, ids)
             v == Len(here.values) + 1
         IN  /\ Builds(state) /\ Ordered(state.values) /\ Extends(here.values, state.values)
             /\ v \in 1 .. Len(state.values)
             /\ state.values[v] = [kind |-> kd, label |-> label, kids |-> ids]
  <1> DEFINE value == [kind |-> kd, label |-> label, kids |-> ids]
             values == here.values
             all == Append(values, value)
  <1>1. Ordered(values) /\ Len(values) \in Nat
    BY ConformityIs, OrderedIs
  <1>2. IsValue(value) /\ value.kids = ids
    OBVIOUS
  <1> HIDE DEF value
  <1>3. Extends(values, all) /\ Len(all) = Len(values) + 1 /\ all[Len(values) + 1] = value
    BY <1>1, <1>2, PushedExtends
  <1>4. Pushed(here, kd, label, ids) = [here EXCEPT !.values = all]
    BY DEF Pushed, value
  <1> HIDE DEF all
  <1>5. Builds([here EXCEPT !.values = all]) /\ [here EXCEPT !.values = all].values = all
    BY <1>3, HereBuilds
  <1> QED
    BY <1>1, <1>3, <1>4, <1>5 DEF Extends, value

(* The arena of a branch is imported. *)
LEMMA GiveImportConforms ==
  ASSUME IInv, Conformity, calls # << >>, UNCHANGED given, GiveImport, Ordered(ret.values),
         Conforms(graph, mode, Steps - Len(calls), Imported(here.values, ret.values),
                  Len(here.values) + ret.id, top.schema, here.input, top.input)
  PROVE  Conformity'
  <1> DEFINE all == Imported(here.values, ret.values)
             id == Len(here.values) + ret.id
  <1>1. Extends(here.values, all)
    BY ConformityIs, ImportedIs
  <1>2. WithImport = [here EXCEPT !.values = all]
    BY DEF WithImport
  <1>3. Conforms(graph, mode, Steps - Len(calls), all, id, top.schema, here.input, top.input)
        /\ Give(WithImport, id)
    BY DEF GiveImport
  <1> HIDE DEF all, id
  <1>4. Builds(WithImport) /\ WithImport.values = all
    BY <1>1, <1>2, HereBuilds
  <1> QED
    BY <1>3, <1>4, GiveConforms

(* The choice of a union, or what is not null, in a wrapper.               *)
LEMMA GiveSelectedConforms ==
  ASSUME IInv, Conformity, calls # << >>, UNCHANGED given, NEW candidate, GiveSelected(candidate),
         NEW k \in 1 .. Len(kids),
         \/ kind = "nullable" /\ k = 1 /\ node.kind # "null"
         \/ kind = "union",
         Conforms(graph, mode, Steps - Len(calls) - 1, candidate.values, candidate.id, kids[k],
                  here.input, top.input)
  PROVE  Conformity'
  <1> DEFINE values == here.values
             all == Wrapped(values, candidate, ~graph.static)
             w == Len(all)
             selected == Selected(candidate, ~graph.static)
             base == IF selected = << >> THEN values ELSE Imported(values, candidate.values)
             state == IF selected = << >> THEN here
                      ELSE [here EXCEPT !.values = Imported(@, candidate.values)]
             ids == [j \in 1 .. Len(selected) |-> selected[j] + Len(here.values)]
             n == Steps - Len(calls) - 1
             a == here.input
             i == top.input
             t == top.schema
  <1>1. /\ IsGraph(graph) /\ n \in 0 .. Steps - 1 /\ n \in 0 .. Steps /\ Steps - Len(calls) = n + 1
        /\ Ordered(values) /\ Formed(a) /\ i \in 1 .. Len(a.nodes) /\ t \in DOMAIN graph.kind
    <2>1. /\ IsGraph(graph) /\ n \in 0 .. Steps - 1 /\ Steps - Len(calls) = n + 1
          /\ Ordered(values) /\ Formed(a) /\ i \in 1 .. Len(a.nodes)
      BY ConformityIs
    <2>2. n \in 0 .. Steps
      BY <2>1, StepsAreNatural
    <2> QED
      BY <2>1, <2>2, TopIs
  <1>2. Conforms(graph, mode, n, candidate.values, candidate.id, kids[k], a, i)
    OBVIOUS
  <1>3. Ordered(candidate.values) /\ candidate.id \in 1 .. Len(candidate.values)
    BY <1>2 DEF Conforms
  <1>4. IsState(here)
    BY TopIs
  <1>5. /\ state.values = base /\ state = [here EXCEPT !.values = base]
        /\ all = Append(base, [kind |-> "wrap", label |-> 0, kids |-> ids])
    <2>1. CASE selected = << >>
      BY <1>4, <2>1 DEF Wrapped, IsState
    <2>2. CASE selected # << >>
      BY <1>4, <2>2 DEF Wrapped, IsState
    <2> QED
      BY <2>1, <2>2
  <1>6. Give(Pushed(state, "wrap", 0, ids), Len(base) + 1)
    BY <1>5 DEF GiveSelected
  <1>7. Pushed(state, "wrap", 0, ids) = [here EXCEPT !.values = all]
    <2> HIDE DEF base, ids, selected, all
    <2>1. Pushed(state, "wrap", 0, ids)
            = [state EXCEPT !.values = Append(state.values, [kind |-> "wrap", label |-> 0, kids |-> ids])]
      BY DEF Pushed
    <2> HIDE DEF state
    <2> QED
      BY <1>4, <1>5, <2>1 DEF IsState
  <1> HIDE DEF state, n, a, i, t, base, ids, selected
  <1>8. /\ Extends(values, all) /\ w \in Nat \ {0} /\ all[w].kind = "wrap"
    <2> HIDE DEF values, all
    <2> QED
      BY <1>1, <1>3, WrappedIs DEF all
  <1>9. w = Len(base) + 1
    <2>1. CASE selected = << >>
      <3>1. w = Len(values) + 1
        <4> HIDE DEF values, all
        <4> QED
          BY <1>1, <1>3, <2>1, WrappedIs DEF all, selected
      <3> QED
        BY <2>1, <3>1 DEF base
    <2>2. CASE selected # << >>
      <3>1. Len(Imported(values, candidate.values)) = w - 1
        <4> HIDE DEF values, all
        <4> QED
          BY <1>1, <1>3, <2>2, WrappedIs DEF all, selected
      <3> QED
        BY <1>8, <2>2, <3>1 DEF base
    <2> QED
      BY <2>1, <2>2
  <1>10. \/ Conforms(graph, mode, n, all, w, kids[k], a, i)
         \/ all[w].kids # << >> /\ Conforms(graph, mode, n, all, all[w].kids[1], kids[k], a, i)
    <2> HIDE DEF values, all
    <2> QED
      BY <1>1, <1>2, WrappedConforms DEF all
  <1> HIDE DEF all, values
  <1>11. Ordered(all) /\ w \in 1 .. Len(all)
    BY <1>8 DEF Extends
  <1>12. /\ kids = graph.kids[t] /\ kind = graph.kind[t] /\ node = a.nodes[i]
    BY DEF kids, kind, node, a, i, t
  <1>13. Conforms(graph, mode, n + 1, all, w, t, a, i)
    <2> HIDE DEF w
    <2> QED
      BY <1>1, <1>8, <1>10, <1>11, <1>12, ConformsWrapped
  <1>14. Builds([here EXCEPT !.values = all]) /\ [here EXCEPT !.values = all].values = all
    BY <1>8, HereBuilds DEF values
  <1>15. Conforms(graph, mode, Steps - Len(calls), all, w, top.schema, here.input, top.input)
    BY <1>1, <1>13 DEF a, i, t
  <1> HIDE DEF w
  <1> QED
    BY <1>6, <1>7, <1>9, <1>14, <1>15, GiveConforms

LEMMA DescendConforms ==
  ASSUME IInv, Conformity, calls # << >>, UNCHANGED given, NEW caller, SamePlace(caller, top),
         NEW state, state.input = here.input, state.options = here.options, state.values = here.values,
         NEW s, NEW i, i \in 1 .. Len(here.input.nodes), NEW d, Descend(caller, state, s, i, d),
         Collected(graph, mode, Steps - Len(calls) - 1, caller, here),
         Asks(graph, mode, caller, here, "shared", s, here.input, i)
  PROVE  Conformity'
  <1> DEFINE home == "shared"
             a == here.input
             m == Len(states)
  <1>1. /\ IsSequence(states) /\ states # << >> /\ m \in Nat \ {0} /\ Formed(a)
    BY TopIs, ConformityIs
  <1>2. /\ calls' = Append(Append(Pop(calls), caller), Call(s, i, d, "shared", m))
        /\ states' = Append(Pop(states), state) /\ ret' = Pending
    BY DEF Descend
  <1>3. /\ Len(states') = m /\ states'[m] = state
        /\ \A j \in 1 .. m - 1 : states'[j] = states[j]
    BY ZenonT(30), <1>1, <1>2, ReplaceIs
  <1>4. calls' = Append(Append(Pop(calls), caller),
                        Call(s, i, d, home, IF home = "shared" THEN Len(states) ELSE Len(states) + 1))
    BY <1>2
  <1>5. Len(states') = IF home = "shared" THEN Len(states) ELSE Len(states) + 1
    BY <1>3
  <1>6. /\ states'[Len(states)].input = here.input /\ states'[Len(states)].options = here.options
        /\ states'[Len(states)].values = here.values /\ states'[Len(states')].input = a
        /\ home # "shared" => states'[Len(states')].values = << >>
        /\ Asks(graph, mode, caller, here, home, s, a, i)
        /\ i \in 1 .. Len(a.nodes)
    BY <1>3
  <1>7. \A j \in 1 .. Len(states) - 1 : states'[j] = states[j]
    BY <1>3
  <1>8. ret' = Pending
    BY <1>2
  <1> HIDE DEF home, a, m
  <1> QED
    BY <1>1, <1>4, <1>5, <1>6, <1>7, <1>8, OpeningConforms

LEMMA StateConforms ==
  ASSUME IInv, Conformity, calls # << >>, UNCHANGED given, NEW caller, SamePlace(caller, top),
         NEW home \in {"branch", "input"}, NEW its, NEW profile, NEW scopes, NEW active,
         NEW a, Formed(a), NEW s, NEW i, i \in 1 .. Len(a.nodes), NEW d,
         calls' = Append(Append(Pop(calls), caller), Call(s, i, d, home, Len(states) + 1)),
         states' = Append(states, State(a, its, profile, scopes, active)), ret' = Pending,
         Collected(graph, mode, Steps - Len(calls) - 1, caller, here),
         Asks(graph, mode, caller, here, home, s, a, i)
  PROVE  Conformity'
  <1> DEFINE m == Len(states)
             new == State(a, its, profile, scopes, active)
  <1>1. /\ IsSequence(states) /\ m \in Nat \ {0} /\ here = states[m]
    BY TopIs
  <1>2. new.input = a /\ new.values = << >>
    BY DEF State
  <1>3. states' = Append(states, new)
    OBVIOUS
  <1> HIDE DEF new
  <1>4. /\ Len(states') = m + 1 /\ states'[m + 1] = new
        /\ \A j \in 1 .. m : states'[j] = states[j]
    BY <1>1, <1>3, AppendIs
  <1>5. calls' = Append(Append(Pop(calls), caller),
                        Call(s, i, d, home, IF home = "shared" THEN Len(states) ELSE Len(states) + 1))
    OBVIOUS
  <1>6. Len(states') = IF home = "shared" THEN Len(states) ELSE Len(states) + 1
    BY <1>4
  <1>7. m \in 1 .. m /\ \A j \in 1 .. m - 1 : j \in 1 .. m
    BY <1>1
  <1>8. /\ states'[Len(states)].input = here.input /\ states'[Len(states)].options = here.options
        /\ states'[Len(states)].values = here.values /\ states'[Len(states')].input = a
        /\ home # "shared" => states'[Len(states')].values = << >>
        /\ \A j \in 1 .. Len(states) - 1 : states'[j] = states[j]
    BY <1>1, <1>2, <1>4, <1>7
  <1> HIDE DEF m
  <1> QED
    BY <1>5, <1>6, <1>8, OpeningConforms

LEMMA BranchConforms ==
  ASSUME IInv, Conformity, calls # << >>, UNCHANGED given, NEW caller, SamePlace(caller, top),
         NEW its, NEW s, NEW d, Branch(caller, its, s, top.input, d),
         Collected(graph, mode, Steps - Len(calls) - 1, caller, here),
         Asks(graph, mode, caller, here, "branch", s, here.input, top.input)
  PROVE  Conformity'
  <1> DEFINE home == "branch"
             a == here.input
             i == top.input
             profile == here.profile
             scopes == here.scopes
             active == here.active
  <1>1. Formed(a) /\ i \in 1 .. Len(a.nodes)
    BY ConformityIs
  <1>2. /\ calls' = Append(Append(Pop(calls), caller), Call(s, i, d, home, Len(states) + 1))
        /\ states' = Append(states, State(a, its, profile, scopes, active)) /\ ret' = Pending
        /\ Asks(graph, mode, caller, here, home, s, a, i) /\ home \in {"branch", "input"}
    BY DEF Branch
  <1> HIDE DEF home, a, i, profile, scopes, active
  <1> QED
    BY <1>1, <1>2, StateConforms

LEMMA InputConforms ==
  ASSUME IInv, Conformity, calls # << >>, UNCHANGED given, NEW caller, SamePlace(caller, top),
         NEW a, Formed(a), NEW profile, NEW s, NEW d, OpenInput(caller, a, profile, s, d),
         Collected(graph, mode, Steps - Len(calls) - 1, caller, here),
         Asks(graph, mode, caller, here, "input", s, a, a.root)
  PROVE  Conformity'
  <1>1. CASE d + Height(a) > MaxDepth
    <2>1. Fail(here, "recursion_limit") /\ Builds(here)
      BY <1>1, HereBuilds DEF OpenInput
    <2> QED
      BY <2>1, FailConforms
  <1>2. CASE ~(d + Height(a) > MaxDepth)
    <2> DEFINE home == "input"
               i == a.root
               its == here.options
               scopes == here.scopes
               active == << >>
    <2>1. /\ calls' = Append(Append(Pop(calls), caller), Call(s, i, d, home, Len(states) + 1))
          /\ states' = Append(states, State(a, its, profile, scopes, active)) /\ ret' = Pending
          /\ Asks(graph, mode, caller, here, home, s, a, i) /\ home \in {"branch", "input"}
      BY <1>2 DEF OpenInput
    <2>2. i \in 1 .. Len(a.nodes)
      BY DEF Formed
    <2> HIDE DEF home, i, its, scopes, active
    <2> QED
      BY <2>1, <2>2, StateConforms
  <1> QED
    BY <1>1, <1>2

-----------------------------------------------------------------------------
(* What a handler that a call has answered knows of the answer.            *)
LEMMA FailureNamed ==
  ASSUME IInv, Conformity, ret # Pending, ~Succeeded
  PROVE  ret.code # "none" /\ FirstFailure # "none"
  <1>1. ret.outcome = "error"
    BY DEF IInv, SchemaHolds, Sound, Succeeded
  <1> QED
    BY <1>1 DEF Conformity, FailuresNamed, FirstFailure

LEMMA AnswerIs ==
  ASSUME IInv, Conformity, calls # << >>, ret # Pending
  PROVE  \E home \in Homes, s \in DOMAIN graph.kind : \E a, i :
           /\ Asks(graph, mode, top, here, home, s, a, i)
           /\ Succeeded =>
                Conforms(graph, mode, Steps - Len(calls) - 1, ArenaOf(ret, home, here), ret.id, s, a, i)
  BY DEF Conformity, Answered, Succeeded

(* An answer in an arena of its own, once that is imported. *)
LEMMA AnswerImported ==
  ASSUME IInv, Conformity, calls # << >>, NEW s, NEW a, NEW i,
         Conforms(graph, mode, Steps - Len(calls) - 1, ret.values, ret.id, s, a, i),
         NEW b, Formed(b), NEW j, Same(a, i, b, j)
  PROVE  /\ Ordered(ret.values)
         /\ \A m \in {Steps - Len(calls) - 1, Steps - Len(calls)} :
              Conforms(graph, mode, m, Imported(here.values, ret.values), Len(here.values) + ret.id, s, b, j)
  <1> DEFINE n == Steps - Len(calls) - 1
             values == here.values
             others == ret.values
             v == ret.id
  <1>1. /\ IsGraph(graph) /\ Ordered(values) /\ n \in 0 .. Steps - 1 /\ Steps - Len(calls) = n + 1
    BY ConformityIs
  <1>2. n \in 0 .. Steps /\ n \in n .. Steps /\ n + 1 \in n .. Steps
    BY <1>1, StepsAreNatural
  <1>3. Conforms(graph, mode, n, others, v, s, a, i) /\ Ordered(others)
    BY DEF Conforms
  <1> HIDE DEF n, values, others, v
  <1>4. ASSUME NEW m \in n .. Steps
        PROVE  Conforms(graph, mode, m, Imported(values, others), Len(values) + v, s, b, j)
    BY <1>1, <1>2, <1>3, <1>4, ConformsImported
  <1>5. /\ Conforms(graph, mode, n, Imported(values, others), Len(values) + v, s, b, j)
        /\ Conforms(graph, mode, n + 1, Imported(values, others), Len(values) + v, s, b, j)
    BY <1>2, <1>4
  <1> QED
    BY <1>1, <1>3, <1>5 DEF n, values, others, v

(* An answer about the node itself. *)
LEMMA AnswerHere ==
  ASSUME IInv, Conformity, calls # << >>, NEW s,
         Conforms(graph, mode, Steps - Len(calls) - 1, ret.values, ret.id, s, here.input, top.input)
  PROVE  /\ Ordered(ret.values)
         /\ \A m \in {Steps - Len(calls) - 1, Steps - Len(calls)} :
              Conforms(graph, mode, m, Imported(here.values, ret.values), Len(here.values) + ret.id, s,
                       here.input, top.input)
  <1> DEFINE a == here.input
             i == top.input
  <1>1. Formed(a) /\ i \in 1 .. Len(a.nodes)
    BY ConformityIs
  <1>2. Conforms(graph, mode, Steps - Len(calls) - 1, ret.values, ret.id, s, a, i)
    OBVIOUS
  <1> HIDE DEF a, i
  <1>3. Same(a, i, a, i)
    BY <1>1, SameSelf
  <1>4. /\ Ordered(ret.values)
        /\ \A m \in {Steps - Len(calls) - 1, Steps - Len(calls)} :
             Conforms(graph, mode, m, Imported(here.values, ret.values), Len(here.values) + ret.id, s, a, i)
    BY <1>1, <1>2, <1>3, AnswerImported
  <1> QED
    BY <1>4 DEF a, i

LEMMA SamePlaceAs ==
  /\ SamePlace(top, top)
  /\ IsCall(top) => \A stage, list, code, best :
       /\ SamePlace([top EXCEPT !.stage = stage], top)
       /\ SamePlace([top EXCEPT !.kids = list], top)
       /\ SamePlace([top EXCEPT !.failure = code], top)
       /\ SamePlace([top EXCEPT !.best = best], top)
  BY DEF SamePlace, IsCall

-----------------------------------------------------------------------------
LEMMA TooDeepConforms == IInv /\ Conformity /\ TooDeep => Conformity'
  <1> SUFFICES ASSUME IInv, Conformity, TooDeep PROVE Conformity'
    OBVIOUS
  <1>1. calls # << >> /\ UNCHANGED given /\ Fail(here, "recursion_limit")
    BY DEF TooDeep
  <1>2. Builds(here)
    BY <1>1, HereBuilds
  <1> QED
    BY <1>1, <1>2, FailConforms

(* A value of no parts is pushed. *)
LEMMA LeafIs ==
  ASSUME IInv, Conformity, calls # << >>, NEW kd, NEW label,
         kd \in {"null", "leaf", "wrap"}, kd = "null" => label = 0
  PROVE  LET state == Pushed(here, kd, label, << >>)
             v == Len(here.values) + 1
         IN  /\ Builds(state) /\ Ordered(state.values) /\ v \in 1 .. Len(state.values)
             /\ state.values[v].kind = kd /\ state.values[v].label = label
             /\ state.values[v].kids = << >>
  <1>1. IsSequence(<< >>) /\ Len(<< >>) = 0
    BY EmptySeq, IsSequenceOf
  <1>2. IsValue([kind |-> kd, label |-> label, kids |-> << >>])
    BY <1>1 DEF IsValue
  <1>3. \A k \in 1 .. Len(<< >>) : << >>[k] \in 1 .. Len(here.values)
    BY <1>1
  <1> QED
    BY <1>2, <1>3, PushedIs

LEMMA ScalarConforms == IInv /\ Conformity /\ Scalar => Conformity'
  <1> SUFFICES ASSUME IInv, Conformity, Scalar PROVE Conformity'
    OBVIOUS
  <1>1. calls # << >> /\ UNCHANGED given /\ kind = "scalar"
    BY DEF Scalar, Entering
  <1>2. CASE Fail(here, "value_error")
    <2>1. Builds(here)
      BY <1>1, HereBuilds
    <2> QED
      BY <1>1, <1>2, <2>1, FailConforms
  <1>3. CASE node.kind # "sequence" /\ Give(Pushed(here, node.kind, node.label, << >>), Len(here.values) + 1)
    <2> DEFINE a == here.input
               i == top.input
               t == top.schema
               n == Steps - Len(calls) - 1
               state == Pushed(here, node.kind, node.label, << >>)
               values == state.values
               v == Len(here.values) + 1
    <2>1. /\ Formed(a) /\ i \in 1 .. Len(a.nodes) /\ n \in 0 .. Steps - 1 /\ Steps - Len(calls) = n + 1
          /\ t \in DOMAIN graph.kind /\ graph.kind[t] = "scalar" /\ node = a.nodes[i]
      BY <1>1, ConformityIs, TopIs DEF kind, node
    <2>2. Give(state, v)
      BY <1>3
    <2> HIDE DEF a, i, t, n
    <2>3. node.kind \in {"null", "leaf"} /\ (node.kind = "null" => node.label = 0)
      BY <1>3, <2>1 DEF Formed
    <2>4. /\ Builds(state) /\ Ordered(values) /\ v \in 1 .. Len(values)
          /\ values[v].kind = node.kind /\ values[v].label = node.label /\ values[v].kids = << >>
      <3>1. node.kind \in {"null", "leaf", "wrap"}
        BY <2>3
      <3> QED
        BY <1>1, <2>3, <3>1, LeafIs
    <2> HIDE DEF state, values, v
    <2>5. Conforms(graph, mode, n + 1, values, v, t, a, i)
      BY <1>3, <2>1, <2>4, ConformsScalar
    <2> QED
      BY <1>1, <2>1, <2>2, <2>4, <2>5, GiveConforms DEF a, i, t, values
  <1> QED
    BY <1>2, <1>3 DEF Scalar

(* A strict model is asked for again, for the same node.                   *)
LEMMA EnterStrictModelConforms == IInv /\ Conformity /\ EnterStrictModel => Conformity'
  <1> SUFFICES ASSUME IInv, Conformity, EnterStrictModel PROVE Conformity'
    OBVIOUS
  <1> DEFINE its == [here.options EXCEPT !.strict = TRUE]
  <1>1. /\ calls # << >> /\ UNCHANGED given /\ kind = "model" /\ NeedsStrict
        /\ Branch(top, its, top.schema, top.input, top.depth)
    BY DEF EnterStrictModel, Entering
  <1> HIDE DEF its
  <1>2. Collected(graph, mode, Steps - Len(calls) - 1, top, here)
    BY <1>1, ConformityIs
  <1>3. Again(graph, top, here)
    BY <1>1 DEF Again, NeedsStrict, kind
  <1>4. Asks(graph, mode, top, here, "branch", top.schema, here.input, top.input)
    BY <1>3 DEF Asks
  <1> QED
    BY <1>1, <1>2, <1>4, SamePlaceAs, BranchConforms

LEMMA LeaveStrictModelConforms == IInv /\ Conformity /\ LeaveStrictModel => Conformity'
  <1> SUFFICES ASSUME IInv, Conformity, LeaveStrictModel PROVE Conformity'
    OBVIOUS
  <1>1. /\ calls # << >> /\ UNCHANGED given /\ kind = "model" /\ NeedsStrict /\ ret # Pending
        /\ IF Succeeded THEN GiveImport ELSE Fail(here, ret.code)
    BY DEF LeaveStrictModel, Returning
  <1>2. CASE ~Succeeded
    <2>1. Builds(here) /\ ret.code # "none" /\ Fail(here, ret.code)
      BY <1>1, <1>2, HereBuilds, FailureNamed
    <2> QED
      BY <1>1, <2>1, FailConforms
  <1>3. CASE Succeeded
    <2>1. PICK home \in Homes, s \in DOMAIN graph.kind : \E a, i :
            /\ Asks(graph, mode, top, here, home, s, a, i)
            /\ Succeeded =>
                 Conforms(graph, mode, Steps - Len(calls) - 1, ArenaOf(ret, home, here), ret.id, s, a, i)
      BY <1>1, <1>3, AnswerIs
    <2>2. PICK a, i :
            /\ Asks(graph, mode, top, here, home, s, a, i)
            /\ Succeeded =>
                 Conforms(graph, mode, Steps - Len(calls) - 1, ArenaOf(ret, home, here), ret.id, s, a, i)
      BY <2>1
    <2>3. Again(graph, top, here) /\ graph.kind[top.schema] = "model"
      BY <1>1 DEF Again, NeedsStrict, kind
    <2>4. home = "branch" /\ s = top.schema /\ a = here.input /\ i = top.input
      BY <2>2, <2>3 DEF Asks, Functions
    <2>5. Conforms(graph, mode, Steps - Len(calls) - 1, ret.values, ret.id, top.schema, here.input, top.input)
      BY <1>3, <2>2, <2>4 DEF ArenaOf
    <2>6. Ordered(ret.values) /\ Conforms(graph, mode, Steps - Len(calls), Imported(here.values, ret.values),
                  Len(here.values) + ret.id, top.schema, here.input, top.input)
      BY <1>1, <2>5, AnswerHere
    <2> QED
      BY <1>1, <1>3, <2>6, GiveImportConforms
  <1> QED
    BY <1>2, <1>3

(* The next part of a sequence or a model, or all of them.                 *)
LEMMA NextPartConforms ==
  ASSUME IInv, Conformity, calls # << >>, UNCHANGED given, kind \in {"sequence", "model"}, ~NeedsStrict,
         Fits, NEW caller, IsCall(caller), SamePlace(caller, top), caller.stage \in Nat,
         Collected(graph, mode, Steps - Len(calls) - 1, caller, here),
         caller.failure = "none" => Len(caller.kids) = caller.stage, NextPart(caller)
  PROVE  Conformity'
  <1> DEFINE a == here.input
             i == top.input
             t == top.schema
             n == Steps - Len(calls) - 1
  <1>1. /\ IsGraph(graph) /\ Formed(a) /\ i \in 1 .. Len(a.nodes) /\ n \in 0 .. Steps - 1
        /\ Steps - Len(calls) = n + 1 /\ t \in DOMAIN graph.kind
        /\ Ordered(here.values) /\ graph.kind[t] \in {"sequence", "model"} /\ node = a.nodes[i]
        /\ kids = graph.kids[t] /\ kind = graph.kind[t]
    BY ConformityIs, TopIs DEF kind, node, kids
  <1>2. n \in 0 .. Steps /\ n \in n .. Steps
    BY <1>1, StepsAreNatural
  <1>3. /\ node.kind = "sequence" /\ (kind = "model" => Len(kids) = Len(node.kids))
        /\ Len(node.kids) \in Nat
        /\ \A k \in 1 .. Len(node.kids) : node.kids[k] \in 1 .. i - 1
    <2> HIDE DEF a, i
    <2>1. IsSequence(node.kids) /\ \A k \in 1 .. Len(node.kids) : node.kids[k] \in 1 .. i - 1
      BY <1>1 DEF Formed
    <2> QED
      BY <2>1, LengthIs DEF Fits
  <1>4. ~Again(graph, top, here)
    BY DEF Again, NeedsStrict, kind
  <1>5. caller.schema = t /\ caller.input = i
    BY DEF SamePlace
  <1>6. CASE caller.stage < Len(node.kids)
    <2> DEFINE next == [caller EXCEPT !.stage = @ + 1]
               p == caller.stage + 1
               s == PartSchema(p)
               j == node.kids[p]
    <2>1. Descend(next, here, s, j, caller.depth + 1)
      BY <1>6 DEF NextPart
    <2>2. /\ next.schema = t /\ next.input = i /\ next.stage = p /\ next.kids = caller.kids
          /\ next.failure = caller.failure /\ next.best = caller.best /\ SamePlace(next, top)
      BY <1>5 DEF IsCall, SamePlace
    <2>3. p \in 1 .. Len(node.kids) /\ p - 1 = caller.stage
      BY <1>3, <1>6
    <2> HIDE DEF next
    <2>4. Collected(graph, mode, Steps - Len(calls) - 1, next, here)
      BY <1>5, <2>2 DEF Collected, PartOf
    <2>5. j \in 1 .. Len(a.nodes)
      <3>1. Len(a.nodes) \in Nat
        BY <1>1 DEF Formed
      <3>2. j \in 1 .. i - 1
        BY <1>3, <2>3
      <3> HIDE DEF a, i, j
      <3> QED
        BY <1>1, <3>1, <3>2
    <2>6. ~Again(graph, next, here)
      BY <1>4, <2>2 DEF Again
    <2>7. s = PartOf(graph, next, p)
      BY <1>1, <2>2 DEF PartSchema, PartOf
    <2>8. Asks(graph, mode, next, here, "shared", s, here.input, j)
      <3>1. graph.kind[next.schema] \in {"sequence", "model"}
        BY <1>1, <2>2
      <3>2. here.input.nodes[next.input] = node /\ graph.kids[next.schema] = kids
            /\ graph.kind[next.schema] = kind
        BY <1>1, <2>2
      <3>3. next.failure = "none" => Len(next.kids) = next.stage - 1
        BY <2>2, <2>3
      <3> HIDE DEF a, i, t, n, p, s, j
      <3>4. next.stage \in 1 .. Len(node.kids) /\ s = PartOf(graph, next, next.stage)
            /\ j = node.kids[next.stage]
        BY <2>2, <2>3, <2>7 DEF j
      <3> QED
        BY <1>3, <2>6, <3>1, <3>2, <3>3, <3>4 DEF Asks
    <2> QED
      BY <2>1, <2>2, <2>4, <2>5, <2>8, DescendConforms
  <1>7. CASE ~(caller.stage < Len(node.kids)) /\ caller.failure # "none"
    <2>1. Fail(here, caller.failure) /\ Builds(here)
      BY <1>7, HereBuilds DEF NextPart
    <2> QED
      BY <1>7, <2>1, FailConforms
  <1>8. CASE ~(caller.stage < Len(node.kids)) /\ caller.failure = "none"
    <2> DEFINE parts == caller.kids
               before == here.values
               state == Pushed(here, "sequence", node.label, parts)
               values == state.values
               v == Len(before) + 1
    <2>1. Give(state, v)
      BY <1>8 DEF NextPart
    <2>2. /\ IsSequence(parts) /\ Len(parts) <= Len(node.kids)
          /\ \A k \in 1 .. Len(parts) :
               Conforms(graph, mode, n, before, parts[k], PartOf(graph, caller, k), a, node.kids[k])
      BY <1>1, <1>5, <1>8 DEF Collected
    <2>3. Len(parts) = Len(node.kids)
      BY <1>3, <1>8, <2>2
    <2> HIDE DEF a, i, t, n, parts
    <2>4. \A k \in 1 .. Len(parts) : parts[k] \in 1 .. Len(before)
      BY <2>2 DEF Conforms
    <2>5. IsValue([kind |-> "sequence", label |-> node.label, kids |-> parts])
      BY <2>2 DEF IsValue
    <2>6. /\ Builds(state) /\ Ordered(values) /\ Extends(before, values)
          /\ v \in 1 .. Len(values)
          /\ values[v] = [kind |-> "sequence", label |-> node.label, kids |-> parts]
      BY <2>4, <2>5, PushedIs
    <2>7. /\ values[v].kind = "sequence" /\ values[v].label = node.label /\ values[v].kids = parts
      BY <2>6
    <2> HIDE DEF state, values, v, before
    <2>8. ASSUME NEW k \in 1 .. Len(parts)
          PROVE  Conforms(graph, mode, n, values, parts[k],
                          graph.kids[t][IF graph.kind[t] = "model" THEN k ELSE 1], a, node.kids[k])
      <3> DEFINE u == parts[k]
                 s == PartOf(graph, caller, k)
                 j == node.kids[k]
      <3>1. Conforms(graph, mode, n, before, u, s, a, j)
        BY <2>2
      <3>2. s = graph.kids[t][IF graph.kind[t] = "model" THEN k ELSE 1]
        BY <1>5 DEF PartOf
      <3> HIDE DEF u, s, j
      <3>3. Same(a, j, a, j)
        BY <3>1, ConformsThere
      <3>4. Conforms(graph, mode, n, values, u, s, a, j)
        BY <1>1, <1>2, <2>6, <3>1, <3>3, ConformsInMore
      <3> QED
        BY <3>2, <3>4 DEF u, j
    <2>9. Conforms(graph, mode, n + 1, values, v, t, a, i)
      <3>1. a.nodes[i].kind = "sequence" /\ a.nodes[i].label = values[v].label
            /\ Len(values[v].kids) = Len(a.nodes[i].kids)
            /\ (graph.kind[t] = "model" => Len(graph.kids[t]) = Len(a.nodes[i].kids))
        BY <1>1, <1>3, <2>3, <2>7
      <3>2. \A k \in 1 .. Len(values[v].kids) :
              Conforms(graph, mode, n, values, values[v].kids[k],
                       graph.kids[t][IF graph.kind[t] = "model" THEN k ELSE 1], a, a.nodes[i].kids[k])
        BY <1>1, <2>7, <2>8
      <3> QED
        BY <1>1, <2>6, <2>7, <3>1, <3>2, ConformsParts
    <2> QED
      BY <1>1, <2>1, <2>6, <2>9, GiveConforms DEF a, i, t, values
  <1> QED
    BY <1>6, <1>7, <1>8

LEMMA EnterAggregateConforms == IInv /\ Conformity /\ EnterAggregate => Conformity'
  <1> SUFFICES ASSUME IInv, Conformity, EnterAggregate PROVE Conformity'
    OBVIOUS
  <1>1. PICK kd \in {"sequence", "model"} :
          /\ Entering(kd) /\ ~NeedsStrict
          /\ IF Fits THEN NextPart(top) ELSE Fail(here, "value_error")
    BY DEF EnterAggregate
  <1>2. calls # << >> /\ UNCHANGED given /\ kind \in {"sequence", "model"} /\ ret = Pending
    BY <1>1 DEF Entering
  <1>3. /\ IsCall(top) /\ SamePlace(top, top) /\ top.stage \in Nat
        /\ Collected(graph, mode, Steps - Len(calls) - 1, top, here) /\ Builds(here)
    BY <1>2, TopIs, SamePlaceAs, ConformityIs, HereBuilds
  <1>4. Len(top.kids) = top.stage
    <2>1. top.kids = << >> /\ top.stage = 0
      BY <1>2 DEF Conformity, StartsEmpty
    <2> QED
      BY <2>1, EmptySeq
  <1>5. CASE Fits
    BY <1>1, <1>2, <1>3, <1>4, <1>5, NextPartConforms
  <1>6. CASE ~Fits
    BY <1>1, <1>2, <1>3, <1>6, FailConforms
  <1> QED
    BY <1>5, <1>6

LEMMA LeavePartConforms == IInv /\ Conformity /\ LeavePart => Conformity'
  <1> SUFFICES ASSUME IInv, Conformity, LeavePart PROVE Conformity'
    OBVIOUS
  <1>1. PICK kd \in {"sequence", "model"} :
          /\ Returning(kd) /\ ~NeedsStrict
          /\ IF Succeeded THEN NextPart([top EXCEPT !.kids = Append(@, ret.id)])
             ELSE \/ NextPart([top EXCEPT !.failure = FirstFailure])
                  \/ Fail(here, FirstFailure)
    BY DEF LeavePart
  <1>2. calls # << >> /\ UNCHANGED given /\ kind \in {"sequence", "model"} /\ ret # Pending
    BY <1>1 DEF Returning
  <1>3. /\ IsCall(top) /\ top.stage \in Nat
        /\ Collected(graph, mode, Steps - Len(calls) - 1, top, here) /\ Builds(here)
    BY <1>2, TopIs, ConformityIs, HereBuilds
  <1>4. ~Again(graph, top, here)
    BY <1>1 DEF Again, NeedsStrict, kind
  <1>5. PICK home \in Homes, s \in DOMAIN graph.kind : \E a, i :
          /\ Asks(graph, mode, top, here, home, s, a, i)
          /\ Succeeded =>
               Conforms(graph, mode, Steps - Len(calls) - 1, ArenaOf(ret, home, here), ret.id, s, a, i)
    BY <1>2, AnswerIs
  <1>6. PICK a, i :
          /\ Asks(graph, mode, top, here, home, s, a, i)
          /\ Succeeded =>
               Conforms(graph, mode, Steps - Len(calls) - 1, ArenaOf(ret, home, here), ret.id, s, a, i)
    BY <1>5
  <1>7. /\ home = "shared" /\ a = here.input /\ node.kind = "sequence"
        /\ kind = "model" => Len(kids) = Len(node.kids)
        /\ top.stage \in 1 .. Len(node.kids) /\ s = PartOf(graph, top, top.stage)
        /\ i = node.kids[top.stage]
        /\ top.failure = "none" => Len(top.kids) = top.stage - 1
    BY <1>2, <1>4, <1>6 DEF Asks, Functions, kind, kids, node
  <1>8. Fits
    BY <1>7 DEF Fits
  <1>9. CASE Succeeded
    <2> DEFINE caller == [top EXCEPT !.kids = Append(@, ret.id)]
               n == Steps - Len(calls) - 1
    <2>1. Conforms(graph, mode, n, here.values, ret.id, s, here.input, i)
      BY <1>9, <1>6, <1>7 DEF ArenaOf
    <2>2. /\ caller.schema = top.schema /\ caller.input = top.input /\ caller.stage = top.stage
          /\ caller.failure = top.failure /\ caller.best = top.best /\ caller.kids = Append(top.kids, ret.id)
          /\ IsCall(caller)
      <3> DEFINE list == Append(top.kids, ret.id)
      <3>1. caller = [top EXCEPT !.kids = list]
        OBVIOUS
      <3> HIDE DEF list, caller
      <3>2. /\ caller.schema = top.schema /\ caller.input = top.input /\ caller.stage = top.stage
            /\ caller.failure = top.failure /\ caller.best = top.best /\ caller.kids = list
            /\ IsCall(caller)
        BY <1>3, <3>1 DEF IsCall
      <3> QED
        BY <3>2 DEF list
    <2>3. SamePlace(caller, top)
      BY <1>3, SamePlaceAs
    <2>4. NextPart(caller)
      BY <1>1, <1>9
    <2> HIDE DEF caller, n
    <2>5. caller.failure = "none" =>
            /\ IsSequence(caller.kids) /\ Len(caller.kids) = caller.stage
            /\ Len(caller.kids) <= Len(node.kids)
            /\ \A k \in 1 .. Len(caller.kids) :
                 Conforms(graph, mode, n, here.values, caller.kids[k], PartOf(graph, caller, k),
                          here.input, node.kids[k])
      <3> SUFFICES ASSUME caller.failure = "none"
                   PROVE  /\ IsSequence(caller.kids) /\ Len(caller.kids) = caller.stage
                          /\ Len(caller.kids) <= Len(node.kids)
                          /\ \A k \in 1 .. Len(caller.kids) :
                               Conforms(graph, mode, n, here.values, caller.kids[k],
                                        PartOf(graph, caller, k), here.input, node.kids[k])
        OBVIOUS
      <3>1. /\ IsSequence(top.kids) /\ Len(top.kids) = top.stage - 1
            /\ \A k \in 1 .. Len(top.kids) :
                 Conforms(graph, mode, n, here.values, top.kids[k], PartOf(graph, top, k),
                          here.input, node.kids[k])
        BY <1>2, <1>3, <1>7, <2>2 DEF Collected, kind, node, n
      <3>2. /\ IsSequence(caller.kids) /\ Len(caller.kids) = Len(top.kids) + 1
            /\ \A k \in 1 .. Len(top.kids) : caller.kids[k] = top.kids[k]
            /\ caller.kids[Len(top.kids) + 1] = ret.id
        BY <2>2, <3>1, AppendIs
      <3>3. /\ Len(caller.kids) = top.stage /\ caller.kids[top.stage] = ret.id
            /\ Len(caller.kids) <= Len(node.kids)
        BY <1>3, <1>7, <3>1, <3>2
      <3>4. ASSUME NEW k \in 1 .. Len(caller.kids)
            PROVE  Conforms(graph, mode, n, here.values, caller.kids[k], PartOf(graph, caller, k),
                            here.input, node.kids[k])
        <4>1. PartOf(graph, caller, k) = PartOf(graph, top, k)
          BY <2>2 DEF PartOf
        <4>2. CASE k = top.stage
          BY <1>7, <2>1, <3>3, <4>1, <4>2
        <4>3. CASE k \in 1 .. Len(top.kids)
          BY <3>1, <3>2, <4>1, <4>3
        <4>4. k = top.stage \/ k \in 1 .. Len(top.kids)
          BY <1>3, <3>1, <3>3
        <4> QED
          BY <4>2, <4>3, <4>4
      <3> QED
        BY <2>2, <3>2, <3>3, <3>4
    <2>6. Collected(graph, mode, Steps - Len(calls) - 1, caller, here)
      <3>1. graph.kind[caller.schema] = kind /\ here.input.nodes[caller.input] = node
        BY <2>2 DEF kind, node
      <3> QED
        BY <1>2, <2>5, <3>1 DEF Collected, n
    <2> QED
      BY <1>1, <1>2, <1>3, <1>8, <2>2, <2>3, <2>4, <2>5, <2>6, NextPartConforms
  <1>10. CASE ~Succeeded
    <2>1. FirstFailure # "none"
      BY <1>2, <1>10, FailureNamed
    <2> DEFINE caller == [top EXCEPT !.failure = FirstFailure]
    <2>2. /\ caller.schema = top.schema /\ caller.input = top.input /\ caller.stage = top.stage
          /\ caller.failure # "none" /\ caller.best = top.best /\ IsCall(caller)
      BY <1>3, <2>1 DEF IsCall
    <2>3. SamePlace(caller, top)
      BY <1>3, SamePlaceAs
    <2>4. CASE Fail(here, FirstFailure)
      BY <1>2, <1>3, <2>1, <2>4, FailConforms
    <2>5. CASE NextPart(caller)
      <3> HIDE DEF caller
      <3>1. Collected(graph, mode, Steps - Len(calls) - 1, caller, here)
        BY <1>2, <2>2 DEF Collected, kind
      <3> QED
        BY <1>1, <1>2, <1>3, <1>8, <2>2, <2>3, <2>5, <3>1, NextPartConforms
    <2> QED
      BY <1>1, <1>10, <2>4, <2>5
  <1> QED
    BY <1>9, <1>10

LEMMA EnterNullableConforms == IInv /\ Conformity /\ EnterNullable => Conformity'
  <1> SUFFICES ASSUME IInv, Conformity, EnterNullable PROVE Conformity'
    OBVIOUS
  <1>1. calls # << >> /\ UNCHANGED given /\ kind = "nullable"
    BY DEF EnterNullable, Entering
  <1>2. CASE node.kind = "null"
    <2> DEFINE a == here.input
               i == top.input
               t == top.schema
               n == Steps - Len(calls) - 1
               state == Pushed(here, "wrap", 0, << >>)
               values == state.values
               v == Len(here.values) + 1
    <2>1. /\ Formed(a) /\ i \in 1 .. Len(a.nodes) /\ n \in 0 .. Steps - 1 /\ Steps - Len(calls) = n + 1
          /\ t \in DOMAIN graph.kind /\ graph.kind[t] = "nullable" /\ node = a.nodes[i]
      BY <1>1, ConformityIs, TopIs DEF kind, node
    <2>2. Give(state, v)
      BY <1>2 DEF EnterNullable
    <2> HIDE DEF a, i, t, n
    <2>3. /\ Builds(state) /\ Ordered(values) /\ v \in 1 .. Len(values)
          /\ values[v].kind = "wrap" /\ values[v].kids = << >>
      BY <1>1, LeafIs
    <2> HIDE DEF state, values, v
    <2>4. Conforms(graph, mode, n + 1, values, v, t, a, i)
      BY <1>2, <2>1, <2>3, ConformsNull
    <2> QED
      BY <1>1, <2>1, <2>2, <2>3, <2>4, GiveConforms DEF a, i, t, values
  <1>3. CASE node.kind # "null"
    <2>1. Branch(top, here.options, kids[1], top.input, top.depth + 1)
      BY <1>3 DEF EnterNullable
    <2>2. Collected(graph, mode, Steps - Len(calls) - 1, top, here)
      BY <1>1, ConformityIs
    <2>3. Asks(graph, mode, top, here, "branch", kids[1], here.input, top.input)
      BY <1>1, <1>3 DEF Asks, kind, kids, node
    <2> QED
      BY <1>1, <2>1, <2>2, <2>3, SamePlaceAs, BranchConforms
  <1> QED
    BY <1>2, <1>3

LEMMA LeaveNullableConforms == IInv /\ Conformity /\ LeaveNullable => Conformity'
  <1> SUFFICES ASSUME IInv, Conformity, LeaveNullable PROVE Conformity'
    OBVIOUS
  <1>1. /\ calls # << >> /\ UNCHANGED given /\ kind = "nullable" /\ ret # Pending
        /\ IF Succeeded THEN GiveSelected(ret) ELSE Fail(here, ret.code)
    BY DEF LeaveNullable, Returning
  <1>2. CASE ~Succeeded
    <2>1. Builds(here) /\ ret.code # "none" /\ Fail(here, ret.code)
      BY <1>1, <1>2, HereBuilds, FailureNamed
    <2> QED
      BY <1>1, <2>1, FailConforms
  <1>3. CASE Succeeded
    <2>1. PICK home \in Homes, s \in DOMAIN graph.kind : \E a, i :
            /\ Asks(graph, mode, top, here, home, s, a, i)
            /\ Succeeded =>
                 Conforms(graph, mode, Steps - Len(calls) - 1, ArenaOf(ret, home, here), ret.id, s, a, i)
      BY <1>1, AnswerIs
    <2>2. PICK a, i :
            /\ Asks(graph, mode, top, here, home, s, a, i)
            /\ Succeeded =>
                 Conforms(graph, mode, Steps - Len(calls) - 1, ArenaOf(ret, home, here), ret.id, s, a, i)
      BY <2>1
    <2>3. home = "branch" /\ s = kids[1] /\ a = here.input /\ i = top.input /\ node.kind # "null"
      BY <1>1, <2>2 DEF Asks, Again, Functions, kind, kids, node
    <2>4. Conforms(graph, mode, Steps - Len(calls) - 1, ret.values, ret.id, kids[1], here.input, top.input)
      BY <1>3, <2>2, <2>3 DEF ArenaOf
    <2>5. 1 \in 1 .. Len(kids)
      <3>1. Len(kids) = 1
        BY ReturningIs DEF LeaveNullable, Arity
      <3> QED
        BY <3>1
    <2> QED
      BY <1>1, <1>3, <2>3, <2>4, <2>5, GiveSelectedConforms
  <1> QED
    BY <1>2, <1>3

(* The next choice of a union, or the best that was tried. *)
LEMMA NextChoiceConforms ==
  ASSUME IInv, Conformity, calls # << >>, UNCHANGED given, kind = "union", Len(kids) \in Nat \ {0},
         NEW caller, IsCall(caller), SamePlace(caller, top), caller.stage \in Nat,
         Collected(graph, mode, Steps - Len(calls) - 1, caller, here),
         caller.stage > 0 => caller.best # << >> \/ caller.failure # "none", NextChoice(caller)
  PROVE  Conformity'
  <1>1. caller.schema = top.schema /\ caller.input = top.input
    BY DEF SamePlace
  <1>2. CASE caller.stage < Len(kids)
    <2> DEFINE next == [caller EXCEPT !.stage = @ + 1]
               p == caller.stage + 1
    <2>1. Branch(next, here.options, kids[p], top.input, caller.depth + 1)
      BY <1>1, <1>2 DEF NextChoice
    <2>2. /\ next.schema = top.schema /\ next.input = top.input /\ next.stage = p
          /\ next.kids = caller.kids /\ next.failure = caller.failure /\ next.best = caller.best
          /\ SamePlace(next, top)
      BY <1>1 DEF IsCall, SamePlace
    <2>3. p \in 1 .. Len(kids) /\ (p > 1 => caller.stage > 0)
      BY <1>2
    <2> HIDE DEF next, p
    <2>4. Collected(graph, mode, Steps - Len(calls) - 1, next, here)
      BY <1>1, <2>2 DEF Collected, PartOf
    <2>5. Asks(graph, mode, next, here, "branch", kids[p], here.input, top.input)
      BY <2>2, <2>3 DEF Asks, kind, kids
    <2> QED
      BY <2>1, <2>2, <2>4, <2>5, BranchConforms
  <1>3. CASE ~(caller.stage < Len(kids)) /\ caller.best # << >>
    <2>1. GiveSelected(caller.best[1])
      BY <1>3 DEF NextChoice
    <2> DEFINE candidate == caller.best[1]
    <2>2. PICK k \in 1 .. Len(kids) :
            Conforms(graph, mode, Steps - Len(calls) - 1, candidate.values, candidate.id, kids[k],
                     here.input, top.input)
      BY <1>1, <1>3 DEF Collected, kind, kids
    <2> HIDE DEF candidate
    <2>3. GiveSelected(candidate)
      BY <2>1 DEF candidate
    <2> QED
      BY <2>2, <2>3, GiveSelectedConforms
  <1>4. CASE ~(caller.stage < Len(kids)) /\ caller.best = << >>
    <2>1. Fail(here, caller.failure) /\ Builds(here)
      BY <1>4, HereBuilds DEF NextChoice
    <2>2. caller.failure # "none"
      BY <1>4
    <2> QED
      BY <2>1, <2>2, FailConforms
  <1> QED
    BY <1>2, <1>3, <1>4

LEMMA EnterUnionConforms == IInv /\ Conformity /\ EnterUnion => Conformity'
  <1> SUFFICES ASSUME IInv, Conformity, EnterUnion PROVE Conformity'
    OBVIOUS
  <1>1. /\ calls # << >> /\ UNCHANGED given /\ kind = "union" /\ ret = Pending /\ NextChoice(top)
        /\ Len(kids) \in Nat \ {0}
    BY EnteringIs DEF EnterUnion, Arity
  <1>2. /\ IsCall(top) /\ SamePlace(top, top) /\ top.stage \in Nat
        /\ Collected(graph, mode, Steps - Len(calls) - 1, top, here)
    BY <1>1, TopIs, SamePlaceAs, ConformityIs
  <1>3. top.stage = 0
    BY <1>1 DEF Conformity, StartsEmpty
  <1>4. top.stage > 0 => top.best # << >> \/ top.failure # "none"
    BY <1>3
  <1> QED
    BY <1>1, <1>2, <1>4, NextChoiceConforms

LEMMA LeaveChoiceConforms == IInv /\ Conformity /\ LeaveChoice => Conformity'
  <1> SUFFICES ASSUME IInv, Conformity, LeaveChoice PROVE Conformity'
    OBVIOUS
  <1>1. /\ calls # << >> /\ UNCHANGED given /\ kind = "union" /\ ret # Pending
        /\ Len(kids) \in Nat \ {0}
    BY ReturningIs DEF LeaveChoice, Arity
  <1>2. /\ IsCall(top) /\ SamePlace(top, top) /\ top.stage \in Nat
        /\ Collected(graph, mode, Steps - Len(calls) - 1, top, here)
    BY <1>1, TopIs, SamePlaceAs, ConformityIs
  <1>3. CASE Succeeded
    <2>1. PICK home \in Homes, s \in DOMAIN graph.kind : \E a, i :
            /\ Asks(graph, mode, top, here, home, s, a, i)
            /\ Succeeded =>
                 Conforms(graph, mode, Steps - Len(calls) - 1, ArenaOf(ret, home, here), ret.id, s, a, i)
      BY <1>1, AnswerIs
    <2>2. PICK a, i :
            /\ Asks(graph, mode, top, here, home, s, a, i)
            /\ Succeeded =>
                 Conforms(graph, mode, Steps - Len(calls) - 1, ArenaOf(ret, home, here), ret.id, s, a, i)
      BY <2>1
    <2>3. /\ home = "branch" /\ s = kids[top.stage] /\ a = here.input /\ i = top.input
          /\ top.stage \in 1 .. Len(kids)
      BY <1>1, <2>2 DEF Asks, Again, Functions, kind, kids
    <2>4. Conforms(graph, mode, Steps - Len(calls) - 1, ret.values, ret.id, kids[top.stage],
                   here.input, top.input)
      BY <1>3, <2>2, <2>3 DEF ArenaOf
    <2>5. CASE GiveSelected(ret)
      BY <1>1, <2>3, <2>4, <2>5, GiveSelectedConforms
    <2>6. CASE NextChoice([top EXCEPT !.best = <<ret>>])
      <3> DEFINE caller == [top EXCEPT !.best = <<ret>>]
      <3>1. /\ caller.schema = top.schema /\ caller.input = top.input /\ caller.stage = top.stage
            /\ caller.best = <<ret>> /\ IsCall(caller)
        BY <1>2 DEF IsCall
      <3>2. SamePlace(caller, top) /\ NextChoice(caller)
        BY <1>2, <2>6, SamePlaceAs
      <3>3. <<ret>> # << >> /\ <<ret>>[1] = ret
        OBVIOUS
      <3> HIDE DEF caller
      <3>4. Collected(graph, mode, Steps - Len(calls) - 1, caller, here)
        BY <1>1, <2>3, <2>4, <3>1, <3>3 DEF Collected, kind, kids
      <3>5. caller.best # << >>
        BY <3>1, <3>3
      <3> QED
        BY <1>1, <1>2, <3>1, <3>2, <3>4, <3>5, NextChoiceConforms
    <2>7. CASE top.best # << >> /\ NextChoice(top)
      BY <1>1, <1>2, <2>7, NextChoiceConforms
    <2> QED
      BY <1>3, <2>5, <2>6, <2>7 DEF LeaveChoice
  <1>4. CASE ~Succeeded
    <2> DEFINE caller == [top EXCEPT !.failure = FirstFailure]
    <2>1. FirstFailure # "none" /\ NextChoice(caller)
      BY <1>1, <1>4, FailureNamed DEF LeaveChoice
    <2>2. /\ caller.schema = top.schema /\ caller.input = top.input /\ caller.stage = top.stage
          /\ caller.failure # "none" /\ caller.best = top.best /\ IsCall(caller)
      BY <1>2, <2>1 DEF IsCall
    <2>3. SamePlace(caller, top)
      BY <1>2, SamePlaceAs
    <2> HIDE DEF caller
    <2>4. Collected(graph, mode, Steps - Len(calls) - 1, caller, here)
      BY <1>1, <1>2, <2>2 DEF Collected, kind
    <2> QED
      BY <1>1, <1>2, <2>1, <2>2, <2>3, <2>4, NextChoiceConforms
  <1> QED
    BY <1>3, <1>4

-----------------------------------------------------------------------------
(* A value that conforms to the kid k of the schema of the innermost call  *)
(* conforms to the schema too.                                             *)
Above(k) ==
  \/ kind \in {"definitions", "reference", "field"} /\ k = 1
  \/ kind = "lax_or_strict" /\ k \in {1, 2}
  \/ kind = "json_or_structural" /\ k = IF here.profile = "json" THEN 1 ELSE 2
  \/ kind = "chain" /\ k = Len(kids)
  \/ kind \in Functions /\ mode = "serialization" /\ k = IF kind = "function_after" THEN 1 ELSE 2

LEMMA AboveConforms ==
  ASSUME IInv, Conformity, calls # << >>, NEW k, Above(k), NEW values, NEW v,
         Conforms(graph, mode, Steps - Len(calls) - 1, values, v, kids[k], here.input, top.input)
  PROVE  Conforms(graph, mode, Steps - Len(calls), values, v, top.schema, here.input, top.input)
  <1> DEFINE n == Steps - Len(calls) - 1
             a == here.input
             i == top.input
             t == top.schema
  <1>1. /\ IsGraph(graph) /\ n \in 0 .. Steps - 1 /\ Steps - Len(calls) = n + 1
        /\ t \in DOMAIN graph.kind /\ here.profile = a.profile
    BY ConformityIs, TopIs
  <1>2. \/ graph.kind[t] \in {"definitions", "reference", "field"} /\ k = 1
        \/ graph.kind[t] = "lax_or_strict" /\ k \in {1, 2}
        \/ graph.kind[t] = "json_or_structural" /\ k = IF a.profile = "json" THEN 1 ELSE 2
        \/ graph.kind[t] = "chain" /\ k = Len(graph.kids[t])
        \/ graph.kind[t] \in Functions /\ mode = "serialization"
           /\ k = IF graph.kind[t] = "function_after" THEN 1 ELSE 2
    BY <1>1 DEF Above, kind, kids
  <1>3. Conforms(graph, mode, n, values, v, graph.kids[t][k], a, i)
    BY DEF kids
  <1> HIDE DEF n, a, i, t
  <1>4. Conforms(graph, mode, n + 1, values, v, t, a, i)
    BY <1>1, <1>2, <1>3, ConformsAbove
  <1> QED
    BY <1>1, <1>4 DEF a, i, t

LEMMA PassOnConforms ==
  ASSUME IInv, Conformity, calls # << >>, ret # Pending, UNCHANGED given,
         NEW state, Builds(state), state.values = here.values, PassOn(state), NEW k, Above(k),
         Succeeded =>
           Conforms(graph, mode, Steps - Len(calls) - 1, here.values, ret.id, kids[k], here.input, top.input)
  PROVE  Conformity'
  <1>1. CASE Succeeded
    <2>1. Conforms(graph, mode, Steps - Len(calls), state.values, ret.id, top.schema, here.input, top.input)
      BY <1>1, AboveConforms
    <2>2. Give(state, ret.id)
      BY <1>1 DEF PassOn
    <2> DEFINE id == ret.id
    <2> HIDE DEF id
    <2>3. Give(state, id) /\ Conforms(graph, mode, Steps - Len(calls), state.values, id, top.schema, here.input, top.input)
      BY <2>1, <2>2 DEF id
    <2> QED
      BY <2>3, GiveConforms
  <1>2. CASE ~Succeeded
    <2> DEFINE code == ret.code
    <2>1. code # "none" /\ Fail(state, code)
      BY <1>2, FailureNamed DEF PassOn
    <2> HIDE DEF code
    <2> QED
      BY <2>1, FailConforms
  <1> QED
    BY <1>1, <1>2

(* The arena of a branch is imported, or its failure is passed on.         *)
LEMMA ImportConforms ==
  ASSUME IInv, Conformity, calls # << >>, ret # Pending, UNCHANGED given,
         IF Succeeded THEN GiveImport ELSE Fail(here, ret.code), NEW k, Above(k),
         Succeeded =>
           Conforms(graph, mode, Steps - Len(calls) - 1, ret.values, ret.id, kids[k], here.input, top.input)
  PROVE  Conformity'
  <1>1. CASE Succeeded
    <2> DEFINE s == kids[k]
    <2>1. Conforms(graph, mode, Steps - Len(calls) - 1, ret.values, ret.id, s, here.input, top.input)
      BY <1>1
    <2> HIDE DEF s
    <2>2. /\ Ordered(ret.values)
          /\ Conforms(graph, mode, Steps - Len(calls) - 1, Imported(here.values, ret.values),
                      Len(here.values) + ret.id, s, here.input, top.input)
      BY <2>1, AnswerHere
    <2>3. Conforms(graph, mode, Steps - Len(calls), Imported(here.values, ret.values),
                   Len(here.values) + ret.id, top.schema, here.input, top.input)
      <3> DEFINE values == Imported(here.values, ret.values)
                 v == Len(here.values) + ret.id
      <3>1. Conforms(graph, mode, Steps - Len(calls) - 1, values, v, kids[k], here.input, top.input)
        BY <2>2 DEF s
      <3> HIDE DEF values, v
      <3>2. Conforms(graph, mode, Steps - Len(calls), values, v, top.schema, here.input, top.input)
        BY <3>1, AboveConforms
      <3> QED
        BY <3>2 DEF values, v
    <2> QED
      BY <1>1, <2>2, <2>3, GiveImportConforms
  <1>2. CASE ~Succeeded
    <2>1. Builds(here) /\ ret.code # "none" /\ Fail(here, ret.code)
      BY <1>2, HereBuilds, FailureNamed
    <2> QED
      BY <2>1, FailConforms
  <1> QED
    BY <1>1, <1>2

(* Changes of the brackets build nothing.                                  *)
LEMMA BracketsBuild ==
  ASSUME IInv, Conformity, calls # << >>, NEW state,
         \/ \E scopes : state = [here EXCEPT !.scopes = scopes]
         \/ \E active : state = [here EXCEPT !.active = active]
         \/ state = here
  PROVE  Builds(state) /\ state.input = here.input /\ state.options = here.options
         /\ state.values = here.values
  <1>1. Builds(here) /\ IsState(here)
    BY HereBuilds, TopIs
  <1>2. state.input = here.input /\ state.options = here.options /\ state.values = here.values
    BY <1>1 DEF IsState
  <1> QED
    BY <1>1, <1>2 DEF Builds

LEMMA EnterDefinitionsConforms == IInv /\ Conformity /\ EnterDefinitions => Conformity'
  <1> SUFFICES ASSUME IInv, Conformity, EnterDefinitions PROVE Conformity'
    OBVIOUS
  <1> DEFINE state == [here EXCEPT !.scopes = Append(@, top.schema)]
             s == kids[1]
             i == top.input
             d == top.depth
  <1>1. /\ calls # << >> /\ UNCHANGED given /\ kind = "definitions"
        /\ Descend(top, state, s, i, d)
    BY DEF EnterDefinitions, Entering
  <1>2. state.input = here.input /\ state.options = here.options /\ state.values = here.values
    BY <1>1, BracketsBuild
  <1>3. /\ Collected(graph, mode, Steps - Len(calls) - 1, top, here) /\ SamePlace(top, top)
        /\ i \in 1 .. Len(here.input.nodes)
    BY <1>1, ConformityIs, SamePlaceAs
  <1>4. Asks(graph, mode, top, here, "shared", s, here.input, i)
    BY <1>1 DEF Asks, kind, kids
  <1> HIDE DEF state, s, i, d
  <1> QED
    BY <1>1, <1>2, <1>3, <1>4, DescendConforms

(* What is asked for in the own state, about the own node.                 *)
LEMMA AnswerBelow ==
  ASSUME IInv, Conformity, calls # << >>, ret # Pending, NEW k,
         \A home, s, a, i : Asks(graph, mode, top, here, home, s, a, i) =>
           home = "shared" /\ s = kids[k] /\ a = here.input /\ i = top.input
  PROVE  Succeeded =>
           Conforms(graph, mode, Steps - Len(calls) - 1, here.values, ret.id, kids[k], here.input, top.input)
  <1>1. PICK home \in Homes, s \in DOMAIN graph.kind : \E a, i :
          /\ Asks(graph, mode, top, here, home, s, a, i)
          /\ Succeeded =>
               Conforms(graph, mode, Steps - Len(calls) - 1, ArenaOf(ret, home, here), ret.id, s, a, i)
    BY AnswerIs
  <1>2. PICK a, i :
          /\ Asks(graph, mode, top, here, home, s, a, i)
          /\ Succeeded =>
               Conforms(graph, mode, Steps - Len(calls) - 1, ArenaOf(ret, home, here), ret.id, s, a, i)
    BY <1>1
  <1>3. home = "shared" /\ s = kids[k] /\ a = here.input /\ i = top.input
    BY <1>2
  <1> QED
    BY <1>2, <1>3 DEF ArenaOf

LEMMA LeaveDefinitionsConforms == IInv /\ Conformity /\ LeaveDefinitions => Conformity'
  <1> SUFFICES ASSUME IInv, Conformity, LeaveDefinitions PROVE Conformity'
    OBVIOUS
  <1> DEFINE state == [here EXCEPT !.scopes = Pop(@)]
  <1>1. /\ calls # << >> /\ UNCHANGED given /\ kind = "definitions" /\ ret # Pending /\ PassOn(state)
    BY DEF LeaveDefinitions, Returning
  <1>2. Builds(state) /\ state.values = here.values
    BY <1>1, BracketsBuild
  <1>3. \A home, s, a, i : Asks(graph, mode, top, here, home, s, a, i) =>
          home = "shared" /\ s = kids[1] /\ a = here.input /\ i = top.input
    BY <1>1 DEF Asks, Again, Functions, kind, kids
  <1> HIDE DEF state
  <1>4. Above(1)
    BY <1>1 DEF Above
  <1>5. Succeeded =>
          Conforms(graph, mode, Steps - Len(calls) - 1, here.values, ret.id, kids[1], here.input, top.input)
    BY <1>1, <1>3, AnswerBelow
  <1> QED
    BY <1>1, <1>2, <1>4, <1>5, PassOnConforms

LEMMA EnterReferenceConforms == IInv /\ Conformity /\ EnterReference => Conformity'
  <1> SUFFICES ASSUME IInv, Conformity, EnterReference PROVE Conformity'
    OBVIOUS
  <1> DEFINE state == [here EXCEPT !.active = Append(@, <<top.input, kids[1]>>)]
             s == kids[1]
             i == top.input
             d == top.depth + 1
  <1>1. /\ calls # << >> /\ UNCHANGED given /\ kind = "reference"
        /\ \/ Fail(here, "schema_invalid") \/ Fail(here, "recursion_loop")
           \/ Descend(top, state, s, i, d)
    BY DEF EnterReference, Entering
  <1>2. state.input = here.input /\ state.options = here.options /\ state.values = here.values
        /\ Builds(here)
    BY <1>1, BracketsBuild
  <1>3. /\ Collected(graph, mode, Steps - Len(calls) - 1, top, here) /\ SamePlace(top, top)
        /\ i \in 1 .. Len(here.input.nodes)
    BY <1>1, ConformityIs, SamePlaceAs
  <1>4. Asks(graph, mode, top, here, "shared", s, here.input, i)
    BY <1>1 DEF Asks, kind, kids
  <1> HIDE DEF state, s, i, d
  <1>5. CASE Fail(here, "schema_invalid") \/ Fail(here, "recursion_loop")
    BY <1>1, <1>2, <1>5, FailConforms
  <1>6. CASE Descend(top, state, s, i, d)
    BY <1>1, <1>2, <1>3, <1>4, <1>6, DescendConforms
  <1> QED
    BY <1>1, <1>5, <1>6

LEMMA LeaveReferenceConforms == IInv /\ Conformity /\ LeaveReference => Conformity'
  <1> SUFFICES ASSUME IInv, Conformity, LeaveReference PROVE Conformity'
    OBVIOUS
  <1> DEFINE state == Without(<<top.input, kids[1]>>)
  <1>1. /\ calls # << >> /\ UNCHANGED given /\ kind = "reference" /\ ret # Pending /\ PassOn(state)
    BY DEF LeaveReference, Returning
  <1>2. Builds(state) /\ state.values = here.values
    <2>1. (\E active : state = [here EXCEPT !.active = active]) \/ state = here
      BY Zenon DEF Without
    <2> HIDE DEF state
    <2> QED
      BY ZenonT(30), <1>1, <2>1, BracketsBuild
  <1>3. \A home, s, a, i : Asks(graph, mode, top, here, home, s, a, i) =>
          home = "shared" /\ s = kids[1] /\ a = here.input /\ i = top.input
    BY <1>1 DEF Asks, Again, Functions, kind, kids
  <1> HIDE DEF state
  <1>4. Above(1)
    BY <1>1 DEF Above
  <1>5. Succeeded =>
          Conforms(graph, mode, Steps - Len(calls) - 1, here.values, ret.id, kids[1], here.input, top.input)
    BY <1>1, <1>3, AnswerBelow
  <1> QED
    BY <1>1, <1>2, <1>4, <1>5, PassOnConforms

(* A field with an option asks in a branch, or in the own state.           *)
LEMMA EnterFieldConforms == IInv /\ Conformity /\ EnterField => Conformity'
  <1> SUFFICES ASSUME IInv, Conformity, EnterField PROVE Conformity'
    OBVIOUS
  <1> DEFINE its == [here.options EXCEPT !.override = graph.option[top.schema]]
             s == kids[1]
             i == top.input
             d == top.depth
  <1>1. /\ calls # << >> /\ UNCHANGED given /\ kind = "field"
        /\ IF Opted THEN Branch(top, its, s, top.input, d) ELSE Descend(top, here, s, i, d)
    BY DEF EnterField, Entering
  <1>2. /\ Collected(graph, mode, Steps - Len(calls) - 1, top, here) /\ SamePlace(top, top)
        /\ i \in 1 .. Len(here.input.nodes)
    BY <1>1, ConformityIs, SamePlaceAs
  <1>3. Asks(graph, mode, top, here, IF Opted THEN "branch" ELSE "shared", s, here.input, i)
    BY <1>1 DEF Asks, Opted, kind, kids
  <1>4. CASE Opted
    <2>1. /\ Branch(top, its, s, top.input, d)
          /\ Asks(graph, mode, top, here, "branch", s, here.input, top.input)
      BY <1>1, <1>3, <1>4
    <2> HIDE DEF its, s, i, d
    <2> QED
      BY <1>1, <1>2, <2>1, BranchConforms
  <1>5. CASE ~Opted
    <2>1. /\ Descend(top, here, s, i, d)
          /\ Asks(graph, mode, top, here, "shared", s, here.input, i)
      BY <1>1, <1>3, <1>5
    <2> HIDE DEF its, s, i, d
    <2> QED
      BY <1>1, <1>2, <2>1, DescendConforms
  <1> QED
    BY <1>4, <1>5

LEMMA LeaveFieldConforms == IInv /\ Conformity /\ LeaveField => Conformity'
  <1> SUFFICES ASSUME IInv, Conformity, LeaveField PROVE Conformity'
    OBVIOUS
  <1>1. /\ calls # << >> /\ UNCHANGED given /\ kind = "field" /\ ret # Pending
        /\ IF Opted /\ Succeeded THEN GiveImport ELSE PassOn(here)
    BY DEF LeaveField, Returning
  <1>2. \A home, s, a, i : Asks(graph, mode, top, here, home, s, a, i) =>
          /\ s = kids[1] /\ a = here.input /\ i = top.input
          /\ home = IF Opted THEN "branch" ELSE "shared"
    BY <1>1 DEF Asks, Again, Functions, Opted, kind, kids
  <1>3. Above(1)
    BY <1>1 DEF Above
  <1>4. CASE Opted
    <2>1. IF Succeeded THEN GiveImport ELSE Fail(here, ret.code)
      BY <1>1, <1>4 DEF PassOn
    <2>2. PICK home \in Homes, s \in DOMAIN graph.kind : \E a, i :
            /\ Asks(graph, mode, top, here, home, s, a, i)
            /\ Succeeded =>
                 Conforms(graph, mode, Steps - Len(calls) - 1, ArenaOf(ret, home, here), ret.id, s, a, i)
      BY <1>1, AnswerIs
    <2>3. PICK a, i :
            /\ Asks(graph, mode, top, here, home, s, a, i)
            /\ Succeeded =>
                 Conforms(graph, mode, Steps - Len(calls) - 1, ArenaOf(ret, home, here), ret.id, s, a, i)
      BY <2>2
    <2>4. home = "branch" /\ s = kids[1] /\ a = here.input /\ i = top.input
      BY <1>2, <1>4, <2>3
    <2>5. Succeeded =>
            Conforms(graph, mode, Steps - Len(calls) - 1, ret.values, ret.id, kids[1], here.input, top.input)
      BY <2>3, <2>4 DEF ArenaOf
    <2> QED
      BY <1>1, <1>3, <2>1, <2>5, ImportConforms
  <1>5. CASE ~Opted
    <2>1. Builds(here) /\ PassOn(here)
      BY <1>1, <1>5, HereBuilds
    <2>2. \A home, s, a, i : Asks(graph, mode, top, here, home, s, a, i) =>
            home = "shared" /\ s = kids[1] /\ a = here.input /\ i = top.input
      BY <1>2, <1>5
    <2>3. Succeeded =>
            Conforms(graph, mode, Steps - Len(calls) - 1, here.values, ret.id, kids[1], here.input, top.input)
      BY <1>1, <2>2, AnswerBelow
    <2> QED
      BY <1>1, <1>3, <2>1, <2>3, PassOnConforms
  <1> QED
    BY <1>4, <1>5

LEMMA EnterLaxOrStrictConforms == IInv /\ Conformity /\ EnterLaxOrStrict => Conformity'
  <1> SUFFICES ASSUME IInv, Conformity, EnterLaxOrStrict PROVE Conformity'
    OBVIOUS
  <1> DEFINE s == kids[IF Strictly THEN 2 ELSE 1]
             d == top.depth + 1
  <1>1. /\ calls # << >> /\ UNCHANGED given /\ kind = "lax_or_strict"
        /\ Branch(top, here.options, s, top.input, d)
    BY DEF EnterLaxOrStrict, Entering
  <1>2. Collected(graph, mode, Steps - Len(calls) - 1, top, here) /\ SamePlace(top, top)
    BY <1>1, ConformityIs, SamePlaceAs
  <1>3. s \in {kids[1], kids[2]}
    OBVIOUS
  <1> HIDE DEF s, d
  <1>4. Asks(graph, mode, top, here, "branch", s, here.input, top.input)
    BY <1>1, <1>3 DEF Asks, kind, kids
  <1> QED
    BY <1>1, <1>2, <1>4, BranchConforms

LEMMA EnterJsonOrStructuralConforms == IInv /\ Conformity /\ EnterJsonOrStructural => Conformity'
  <1> SUFFICES ASSUME IInv, Conformity, EnterJsonOrStructural PROVE Conformity'
    OBVIOUS
  <1> DEFINE s == kids[IF here.profile = "json" THEN 1 ELSE 2]
             d == top.depth + 1
  <1>1. /\ calls # << >> /\ UNCHANGED given /\ kind = "json_or_structural"
        /\ Branch(top, here.options, s, top.input, d)
    BY DEF EnterJsonOrStructural, Entering
  <1>2. /\ Collected(graph, mode, Steps - Len(calls) - 1, top, here) /\ SamePlace(top, top)
        /\ here.profile = here.input.profile
    BY <1>1, ConformityIs, SamePlaceAs, TopIs
  <1>3. s = kids[IF here.input.profile = "json" THEN 1 ELSE 2]
    BY <1>2
  <1> HIDE DEF s, d
  <1>4. Asks(graph, mode, top, here, "branch", s, here.input, top.input)
    BY <1>1, <1>3 DEF Asks, kind, kids
  <1> QED
    BY <1>1, <1>2, <1>4, BranchConforms

LEMMA LeaveControlConforms == IInv /\ Conformity /\ LeaveControl => Conformity'
  <1> SUFFICES ASSUME IInv, Conformity, LeaveControl PROVE Conformity'
    OBVIOUS
  <1>1. /\ calls # << >> /\ UNCHANGED given /\ ret # Pending
        /\ kind \in {"lax_or_strict", "json_or_structural"}
        /\ IF Succeeded THEN GiveImport ELSE Fail(here, ret.code)
    BY DEF LeaveControl, Returning
  <1>2. PICK home \in Homes, s \in DOMAIN graph.kind : \E a, i :
          /\ Asks(graph, mode, top, here, home, s, a, i)
          /\ Succeeded =>
               Conforms(graph, mode, Steps - Len(calls) - 1, ArenaOf(ret, home, here), ret.id, s, a, i)
    BY <1>1, AnswerIs
  <1>3. PICK a, i :
          /\ Asks(graph, mode, top, here, home, s, a, i)
          /\ Succeeded =>
               Conforms(graph, mode, Steps - Len(calls) - 1, ArenaOf(ret, home, here), ret.id, s, a, i)
    BY <1>2
  <1>4. home = "branch" /\ a = here.input /\ i = top.input /\ \E k : Above(k) /\ s = kids[k]
    <2>1. here.profile = here.input.profile
      BY <1>1, TopIs
    <2>2. CASE kind = "lax_or_strict"
      <3>1. home = "branch" /\ a = here.input /\ i = top.input /\ s \in {kids[1], kids[2]}
        BY <1>3, <2>2 DEF Asks, Again, Functions, kind, kids
      <3>2. Above(1) /\ Above(2)
        BY <2>2 DEF Above
      <3> QED
        BY <3>1, <3>2
    <2>3. CASE kind = "json_or_structural"
      <3>1. home = "branch" /\ a = here.input /\ i = top.input
            /\ s = kids[IF a.profile = "json" THEN 1 ELSE 2]
        BY <1>3, <2>3 DEF Asks, Again, Functions, kind, kids
      <3>2. Above(IF here.profile = "json" THEN 1 ELSE 2)
        BY <2>3 DEF Above
      <3> QED
        BY <2>1, <3>1, <3>2
    <2> QED
      BY <1>1, <2>2, <2>3
  <1>5. PICK k : Above(k) /\ s = kids[k]
    BY <1>4
  <1>6. Succeeded =>
          Conforms(graph, mode, Steps - Len(calls) - 1, ret.values, ret.id, kids[k], here.input, top.input)
    BY <1>3, <1>4, <1>5 DEF ArenaOf
  <1> QED
    BY <1>1, <1>5, <1>6, ImportConforms

LEMMA SkipFunctionConforms == IInv /\ Conformity /\ SkipFunction => Conformity'
  <1> SUFFICES ASSUME IInv, Conformity, SkipFunction PROVE Conformity'
    OBVIOUS
  <1> DEFINE s == kids[IF kind = "function_after" THEN 1 ELSE 2]
             i == top.input
             d == top.depth + 1
  <1>1. /\ calls # << >> /\ UNCHANGED given /\ kind \in Functions /\ mode = "serialization"
        /\ Descend(top, here, s, i, d)
    BY DEF SkipFunction, Entering
  <1>2. /\ Collected(graph, mode, Steps - Len(calls) - 1, top, here) /\ SamePlace(top, top)
        /\ i \in 1 .. Len(here.input.nodes)
    BY <1>1, ConformityIs, SamePlaceAs
  <1>3. Asks(graph, mode, top, here, "shared", s, here.input, i)
    BY <1>1 DEF Asks, kind, kids
  <1> HIDE DEF s, i, d
  <1> QED
    BY <1>1, <1>2, <1>3, DescendConforms

LEMMA LeaveSkippedConforms == IInv /\ Conformity /\ LeaveSkipped => Conformity'
  <1> SUFFICES ASSUME IInv, Conformity, LeaveSkipped PROVE Conformity'
    OBVIOUS
  <1> DEFINE k == IF kind = "function_after" THEN 1 ELSE 2
  <1>1. /\ calls # << >> /\ UNCHANGED given /\ ret # Pending /\ kind \in Functions
        /\ mode = "serialization" /\ PassOn(here)
    BY DEF LeaveSkipped, Returning
  <1>2. Builds(here)
    BY <1>1, HereBuilds
  <1>3. \A home, s, a, i : Asks(graph, mode, top, here, home, s, a, i) =>
          home = "shared" /\ s = kids[k] /\ a = here.input /\ i = top.input
    BY <1>1 DEF Asks, Again, Functions, kind, kids
  <1>4. Above(k)
    BY <1>1 DEF Above
  <1> HIDE DEF k
  <1>5. Succeeded =>
          Conforms(graph, mode, Steps - Len(calls) - 1, here.values, ret.id, kids[k], here.input, top.input)
    BY <1>1, <1>3, AnswerBelow
  <1> QED
    BY <1>1, <1>2, <1>4, <1>5, PassOnConforms

-----------------------------------------------------------------------------
(* A chain: the first step is asked about the node itself.                 *)
LEMMA CollectedElsewhere ==
  ASSUME NEW md, NEW n, NEW call, NEW state,
         graph.kind[call.schema] \notin {"sequence", "model", "union"}
  PROVE  Collected(graph, md, n, call, state)
  BY DEF Collected

LEMMA ChainedIs ==
  ASSUME IInv, calls # << >>
  PROVE  /\ Chained(top).schema = top.schema /\ Chained(top).input = top.input
         /\ Chained(top).stage = top.stage + 1 /\ SamePlace(Chained(top), top)
  <1>1. IsCall(top)
    BY TopIs
  <1> QED
    BY <1>1, SamePlaceAs DEF Chained, IsCall

LEMMA EnterChainConforms == IInv /\ Conformity /\ EnterChain => Conformity'
  <1> SUFFICES ASSUME IInv, Conformity, EnterChain PROVE Conformity'
    OBVIOUS
  <1> DEFINE caller == Chained(top)
             a == here.input
             i == top.input
  <1>1. /\ calls # << >> /\ UNCHANGED given /\ kind = "chain" /\ ret = Pending
        /\ Branch(caller, here.options, kids[1], top.input, top.depth + 1)
        /\ Len(kids) \in Nat \ {0}
    BY EnteringIs DEF EnterChain, Arity
  <1>2. /\ caller.schema = top.schema /\ caller.input = top.input /\ caller.stage = 1
        /\ SamePlace(caller, top)
    <2>1. top.stage = 0
      BY <1>1 DEF Conformity, StartsEmpty
    <2> QED
      BY <1>1, <2>1, ChainedIs
  <1> HIDE DEF caller
  <1>3. Collected(graph, mode, Steps - Len(calls) - 1, caller, here)
    BY <1>1, <1>2, CollectedElsewhere DEF kind
  <1>4. Same(a, i, a, i)
    <2>1. Formed(a) /\ i \in 1 .. Len(a.nodes)
      BY <1>1, ConformityIs
    <2> HIDE DEF a, i
    <2> QED
      BY <2>1, SameSelf
  <1>5. Asks(graph, mode, caller, here, "branch", kids[1], here.input, top.input)
    BY <1>1, <1>2, <1>4 DEF Asks, kind, kids
  <1> QED
    BY <1>1, <1>2, <1>3, <1>5, BranchConforms

LEMMA LeaveStepConforms == IInv /\ Conformity /\ LeaveStep => Conformity'
  <1> SUFFICES ASSUME IInv, Conformity, LeaveStep PROVE Conformity'
    OBVIOUS
  <1>1. /\ calls # << >> /\ UNCHANGED given /\ kind = "chain" /\ ret # Pending
        /\ Len(kids) \in Nat \ {0}
        /\ IF ~Succeeded THEN Fail(here, ret.code)
           ELSE IF top.stage < Len(kids)
           THEN OpenInput(Chained(top), Handoff(ret, here.profile), here.profile,
                          kids[top.stage + 1], top.depth + 1)
           ELSE GiveImport
    BY ReturningIs DEF LeaveStep, Arity
  <1>2. CASE ~Succeeded
    <2>1. Builds(here) /\ ret.code # "none" /\ Fail(here, ret.code)
      BY <1>1, <1>2, HereBuilds, FailureNamed
    <2> QED
      BY <1>1, <2>1, FailConforms
  <1>3. CASE Succeeded
    <2>1. PICK home \in Homes, s \in DOMAIN graph.kind : \E a, i :
            /\ Asks(graph, mode, top, here, home, s, a, i)
            /\ Succeeded =>
                 Conforms(graph, mode, Steps - Len(calls) - 1, ArenaOf(ret, home, here), ret.id, s, a, i)
      BY <1>1, AnswerIs
    <2>2. PICK a, i :
            /\ Asks(graph, mode, top, here, home, s, a, i)
            /\ Succeeded =>
                 Conforms(graph, mode, Steps - Len(calls) - 1, ArenaOf(ret, home, here), ret.id, s, a, i)
      BY <2>1
    <2>3. /\ home # "shared" /\ top.stage \in 1 .. Len(kids) /\ s = kids[top.stage]
          /\ HandsOnInput(graph, mode, top.schema) => Same(a, i, here.input, top.input)
      BY <1>1, <2>2 DEF Asks, Again, Functions, kind, kids
    <2>4. Conforms(graph, mode, Steps - Len(calls) - 1, ret.values, ret.id, s, a, i)
      BY <1>3, <2>2, <2>3 DEF ArenaOf
    <2>5. Ordered(ret.values) /\ ret.id \in 1 .. Len(ret.values) /\ Formed(a)
      BY <2>4 DEF Conforms
    <2>6. CASE top.stage < Len(kids)
      <3> DEFINE next == Handoff(ret, here.profile)
                 caller == Chained(top)
                 p == top.stage + 1
      <3>1. OpenInput(caller, next, here.profile, kids[p], top.depth + 1)
        BY <1>1, <1>3, <2>6
      <3>2. Formed(next)
        BY <2>5, HandoffIsFormed
      <3>3. /\ caller.schema = top.schema /\ caller.input = top.input /\ caller.stage = p
            /\ SamePlace(caller, top)
        BY <1>1, ChainedIs
      <3>4. HandsOnInput(graph, mode, top.schema) =>
              Same(next, next.root, here.input, top.input)
        <4> SUFFICES ASSUME HandsOnInput(graph, mode, top.schema)
                     PROVE  Same(next, next.root, here.input, top.input)
          OBVIOUS
        <4>1. KeepsInput(graph, mode, s)
          <5>1. top.stage \in 1 .. Len(kids) - 1
            BY <1>1, <2>3, <2>6
          <5> QED
            BY <2>3, <5>1 DEF HandsOnInput, kids
        <4>2. Same(a, i, here.input, top.input)
          BY <2>3
        <4>3. here.profile = a.profile
          <5>1. a.profile = here.input.profile
            BY <4>2, SameParts
          <5> QED
            BY <1>1, <5>1, TopIs
        <4>4. Same(Handoff(ret, a.profile), Handoff(ret, a.profile).root, a, i)
          <5> DEFINE n == Steps - Len(calls) - 1
          <5>1. IsGraph(graph) /\ n \in 0 .. Steps - 1
            BY <1>1, ConformityIs
          <5>2. n \in 0 .. Steps
            BY <5>1, StepsAreNatural
          <5>3. Conforms(graph, mode, n, ret.values, ret.id, s, a, i)
            BY <2>4
          <5> HIDE DEF n
          <5> QED
            BY <4>1, <5>1, <5>2, <5>3, HandoffMirrors
        <4>5. Same(next, next.root, a, i)
          BY <4>3, <4>4
        <4> HIDE DEF next
        <4> QED
          BY <4>2, <4>5, SameAll
      <3>5. p \in 1 .. Len(kids)
        BY <1>1, <2>3, <2>6
      <3> HIDE DEF next, caller, p
      <3>6. Collected(graph, mode, Steps - Len(calls) - 1, caller, here)
        BY <1>1, <3>3, CollectedElsewhere DEF kind
      <3>7. Asks(graph, mode, caller, here, "input", kids[p], next, next.root)
        BY <1>1, <3>3, <3>4, <3>5 DEF Asks, kind, kids
      <3> QED
        BY <1>1, <3>1, <3>2, <3>3, <3>6, <3>7, InputConforms
    <2>7. CASE ~(top.stage < Len(kids))
      <3> DEFINE values == Imported(here.values, ret.values)
                 v == Len(here.values) + ret.id
                 n == Steps - Len(calls) - 1
      <3>1. GiveImport
        BY <1>1, <1>3, <2>7
      <3>2. top.stage = Len(kids) /\ s = kids[Len(kids)]
        BY <1>1, <2>3, <2>7
      <3>3. Conforms(graph, mode, n, values, v, s, a, i)
        <4>1. i \in 1 .. Len(a.nodes)
          BY <2>4 DEF Conforms
        <4>2. Same(a, i, a, i)
          BY <2>5, <4>1, SameSelf
        <4> QED
          BY <1>1, <2>4, <2>5, <4>2, AnswerImported
      <3>4. CASE HandsOnInput(graph, mode, top.schema)
        <4> DEFINE b == here.input
                   j == top.input
        <4>1. Formed(b) /\ Same(a, i, b, j)
          BY <1>1, <2>3, <3>4, ConformityIs
        <4> HIDE DEF b, j
        <4>2. Conforms(graph, mode, n, values, v, s, b, j)
          BY <1>1, <2>4, <4>1, AnswerImported
        <4>3. Conforms(graph, mode, n, values, v, kids[Len(kids)], here.input, top.input)
          BY <3>2, <4>2 DEF b, j
        <4>4. Above(Len(kids))
          BY <1>1 DEF Above
        <4> HIDE DEF values, v
        <4>5. Conforms(graph, mode, Steps - Len(calls), values, v, top.schema, here.input, top.input)
          BY <1>1, <4>3, <4>4, AboveConforms
        <4> QED
          BY <1>1, <2>5, <3>1, <4>5, GiveImportConforms DEF values, v
      <3>5. CASE ~HandsOnInput(graph, mode, top.schema)
        <4> DEFINE b == here.input
                   j == top.input
                   t == top.schema
        <4>1. /\ n \in 0 .. Steps - 1 /\ Steps - Len(calls) = n + 1
              /\ t \in DOMAIN graph.kind /\ graph.kind[t] = "chain"
              /\ Formed(b) /\ j \in 1 .. Len(b.nodes)
          BY <1>1, ConformityIs, TopIs DEF kind
        <4>2. Ordered(values) /\ v \in 1 .. Len(values)
          BY <3>3 DEF Conforms
        <4>3. ~HandsOnInput(graph, mode, t)
          BY <3>5
        <4> HIDE DEF b, j, t, values, v, n
        <4>4. Conforms(graph, mode, n + 1, values, v, t, b, j)
          BY <4>1, <4>2, <4>3, ConformsReplaced
        <4>5. Conforms(graph, mode, Steps - Len(calls), values, v, top.schema, here.input, top.input)
          BY <4>1, <4>4 DEF b, j, t
        <4> QED
          BY <1>1, <2>5, <3>1, <4>5, GiveImportConforms DEF values, v
      <3> QED
        BY <3>4, <3>5
    <2> QED
      BY <2>6, <2>7
  <1> QED
    BY <1>2, <1>3

-----------------------------------------------------------------------------
(* Callbacks.                                                              *)
LEMMA EnterFunctionConforms == IInv /\ Conformity /\ EnterFunction => Conformity'
  <1> SUFFICES ASSUME IInv, Conformity, EnterFunction PROVE Conformity'
    OBVIOUS
  <1> DEFINE caller == [top EXCEPT !.stage = 1]
  <1>1. /\ calls # << >> /\ UNCHANGED given /\ kind \in Functions /\ mode # "serialization"
        /\ Branch(caller, here.options, kids[1], top.input, top.depth + 1)
    BY DEF EnterFunction, Entering
  <1>2. /\ caller.schema = top.schema /\ caller.input = top.input /\ caller.stage = 1
        /\ SamePlace(caller, top)
    <2>1. IsCall(top)
      BY <1>1, TopIs
    <2> QED
      BY <2>1, SamePlaceAs DEF IsCall
  <1> HIDE DEF caller
  <1>3. Collected(graph, mode, Steps - Len(calls) - 1, caller, here)
    BY <1>1, <1>2, CollectedElsewhere DEF kind, Functions
  <1>4. Asks(graph, mode, caller, here, "branch", kids[1], here.input, top.input)
    BY <1>1, <1>2 DEF Asks, kind, kids
  <1> QED
    BY <1>1, <1>2, <1>3, <1>4, BranchConforms

LEMMA InvokeConforms == IInv /\ Conformity /\ Invoke => Conformity'
  <1> SUFFICES ASSUME IInv, Conformity, Invoke PROVE Conformity'
    OBVIOUS
  <1> DEFINE caller == [top EXCEPT !.stage = 2]
             code == ret.code
             d == top.depth + 1
  <1>1. /\ calls # << >> /\ UNCHANGED given /\ kind \in Functions /\ mode # "serialization"
        /\ ret # Pending
        /\ \/ ~Succeeded /\ Fail(here, code)
           \/ Fail(here, "validator_unavailable")
           \/ Fail(here, "validator_error")
           \/ \E output \in Outputs : OpenInput(caller, output, OutputProfile, kids[2], d)
    BY DEF Invoke, Returning
  <1>2. ~Succeeded => code # "none"
    BY <1>1, FailureNamed
  <1>3. /\ caller.schema = top.schema /\ caller.input = top.input /\ caller.stage = 2
        /\ SamePlace(caller, top)
    <2>1. IsCall(top)
      BY <1>1, TopIs
    <2> QED
      BY <2>1, SamePlaceAs DEF IsCall
  <1> HIDE DEF caller, code, d
  <1>4. CASE \/ ~Succeeded /\ Fail(here, code)
             \/ Fail(here, "validator_unavailable") \/ Fail(here, "validator_error")
    <2>1. Builds(here)
      BY <1>1, HereBuilds
    <2> QED
      BY <1>1, <1>2, <1>4, <2>1, FailConforms
  <1>5. ASSUME NEW output \in Outputs, OpenInput(caller, output, OutputProfile, kids[2], d)
        PROVE  Conformity'
    <2>1. Formed(output)
      BY InputsAssumption, InputIsFormed
    <2>2. Collected(graph, mode, Steps - Len(calls) - 1, caller, here)
      BY <1>1, <1>3, CollectedElsewhere DEF kind, Functions
    <2>3. Asks(graph, mode, caller, here, "input", kids[2], output, output.root)
      BY <1>1, <1>3 DEF Asks, kind, kids
    <2> QED
      BY <1>1, <1>3, <1>5, <2>1, <2>2, <2>3, InputConforms
  <1> QED
    BY <1>1, <1>4, <1>5

LEMMA LeaveFunctionConforms == IInv /\ Conformity /\ LeaveFunction => Conformity'
  <1> SUFFICES ASSUME IInv, Conformity, LeaveFunction PROVE Conformity'
    OBVIOUS
  <1>1. /\ calls # << >> /\ UNCHANGED given /\ kind \in Functions /\ mode # "serialization"
        /\ ret # Pending /\ top.stage = 2
        /\ IF Succeeded THEN GiveImport ELSE Fail(here, ret.code)
    BY DEF LeaveFunction, Returning
  <1>2. CASE ~Succeeded
    <2>1. Builds(here) /\ ret.code # "none" /\ Fail(here, ret.code)
      BY <1>1, <1>2, HereBuilds, FailureNamed
    <2> QED
      BY <1>1, <2>1, FailConforms
  <1>3. CASE Succeeded
    <2>1. PICK home \in Homes, s \in DOMAIN graph.kind : \E a, i :
            /\ Asks(graph, mode, top, here, home, s, a, i)
            /\ Succeeded =>
                 Conforms(graph, mode, Steps - Len(calls) - 1, ArenaOf(ret, home, here), ret.id, s, a, i)
      BY <1>1, AnswerIs
    <2>2. PICK a, i :
            /\ Asks(graph, mode, top, here, home, s, a, i)
            /\ Succeeded =>
                 Conforms(graph, mode, Steps - Len(calls) - 1, ArenaOf(ret, home, here), ret.id, s, a, i)
      BY <2>1
    <2>3. home = "input" /\ s = kids[2] /\ a \in Outputs /\ i = a.root
      BY <1>1, <2>2 DEF Asks, Again, Functions, kind, kids
    <2>4. Conforms(graph, mode, Steps - Len(calls) - 1, ret.values, ret.id, s, a, i)
      BY <1>3, <2>2, <2>3 DEF ArenaOf
    <2> DEFINE values == Imported(here.values, ret.values)
               v == Len(here.values) + ret.id
               n == Steps - Len(calls) - 1
               b == here.input
               j == top.input
               t == top.schema
    <2>5. Ordered(ret.values) /\ Conforms(graph, mode, n, values, v, s, a, i)
      <3>1. Formed(a) /\ i \in 1 .. Len(a.nodes)
        BY <2>4 DEF Conforms
      <3>2. Same(a, i, a, i)
        BY <3>1, SameSelf
      <3> QED
        BY <1>1, <2>4, <3>1, <3>2, AnswerImported
    <2>6. /\ IsGraph(graph) /\ n \in 0 .. Steps - 1 /\ Steps - Len(calls) = n + 1
          /\ t \in DOMAIN graph.kind /\ graph.kind[t] \in Functions
          /\ Formed(b) /\ j \in 1 .. Len(b.nodes)
      BY <1>1, ConformityIs, TopIs DEF kind
    <2>7. Conforms(graph, mode, n, values, v, graph.kids[t][2], a, a.root)
      BY <2>3, <2>5 DEF kids
    <2> HIDE DEF values, v, n, b, j, t
    <2>8. Conforms(graph, mode, n + 1, values, v, t, b, j)
      BY <1>1, <2>3, <2>6, <2>7, ConformsOutput
    <2>9. Conforms(graph, mode, Steps - Len(calls), values, v, top.schema, here.input, top.input)
      BY <2>6, <2>8 DEF b, j, t
    <2> QED
      BY <1>1, <1>3, <2>5, <2>9, GiveImportConforms DEF values, v
  <1> QED
    BY <1>2, <1>3

-----------------------------------------------------------------------------
LEMMA InitConforms == Init => Conformity
  <1> SUFFICES ASSUME Init PROVE Conformity
    OBVIOUS
  <1>1. CASE states = << >> /\ calls = << >> /\ ret = Failed("recursion_limit")
    <2>1. Len(calls) = 0 /\ Len(states) = 0
      BY <1>1, EmptySeq
    <2>2. ret.outcome = "error" /\ ret.code # "none"
      BY <1>1 DEF Failed
    <2>3. FormedStates /\ CollectedParts /\ AskedParts
      BY <2>1 DEF FormedStates, CollectedParts, AskedParts
    <2>4. RootAsked /\ StartsEmpty /\ Answered /\ FailuresNamed
      BY <1>1, <2>2 DEF RootAsked, StartsEmpty, Answered, FailuresNamed
    <2> QED
      BY <2>3, <2>4 DEF Conformity
  <1>2. ASSUME states = <<State(asked, options, asked.profile, << >>, << >>)>>,
               calls = <<Call(graph.root, asked.root, 0, "input", 1)>>,
               ret = Pending
        PROVE  Conformity
    <2> DEFINE first == Call(graph.root, asked.root, 0, "input", 1)
               state == State(asked, options, asked.profile, << >>, << >>)
    <2>1. /\ first.schema = graph.root /\ first.input = asked.root /\ first.state = 1
          /\ first.stage = 0 /\ first.kids = << >> /\ first.failure = "none" /\ first.best = << >>
          /\ state.input = asked /\ state.values = << >>
      BY DEF Call, State
    <2> HIDE DEF first, state
    <2>2. /\ Len(calls) = 1 /\ calls[1] = first /\ Len(states) = 1 /\ states[1] = state
          /\ calls # << >> /\ top = first
      BY <1>2 DEF first, state, top, Last
    <2>3. Formed(asked) /\ asked.root \in 1 .. Len(asked.nodes)
      <3>1. Formed(asked)
        BY InputsAssumption, InputIsFormed DEF Init
      <3> QED
        BY <3>1 DEF Formed
    <2>4. Ordered(<< >>)
      <3>1. IsSequence(<< >>) /\ Len(<< >>) = 0
        BY EmptySeq, IsSequenceOf
      <3> QED
        BY <3>1 DEF Ordered
    <2>5. FormedStates
      BY <2>1, <2>2, <2>3, <2>4 DEF FormedStates
    <2>6. CollectedParts
      <3>1. Collected(graph, mode, Steps - 1 - 1, first, state)
        BY <2>1, <2>3, CollectedNothing
      <3> QED
        BY <2>1, <2>2, <2>3, <3>1 DEF CollectedParts, StateOf
    <2>7. AskedParts
      BY <2>2 DEF AskedParts
    <2>8. RootAsked /\ StartsEmpty
      BY <2>1, <2>2 DEF RootAsked, StartsEmpty
    <2>9. ret.outcome # "ok" /\ ret.outcome # "error"
      BY <1>2 DEF Pending
    <2>10. Answered /\ FailuresNamed
      BY <1>2, <2>9 DEF Answered, FailuresNamed
    <2> QED
      BY <2>5, <2>6, <2>7, <2>8, <2>10 DEF Conformity
  <1> QED
    BY <1>1, <1>2 DEF Init

LEMMA StutterConforms == Conformity /\ UNCHANGED vars => Conformity'
  <1> SUFFICES ASSUME Conformity, UNCHANGED vars PROVE Conformity'
    OBVIOUS
  <1>1. /\ graph' = graph /\ options' = options /\ mode' = mode /\ asked' = asked
        /\ states' = states /\ calls' = calls /\ ret' = ret
    BY DEF vars, given
  <1>2. FormedStates' /\ CollectedParts' /\ AskedParts'
    BY <1>1 DEF Conformity, FormedStates, CollectedParts, AskedParts, StateOf
  <1>3. RootAsked' /\ StartsEmpty' /\ FailuresNamed'
    BY <1>1 DEF Conformity, RootAsked, StartsEmpty, FailuresNamed, top
  <1>4. Answered'
    BY <1>1 DEF Conformity, Answered, top, here
  <1> QED
    BY <1>2, <1>3, <1>4 DEF Conformity

LEMMA NextConforms == IInv /\ Conformity /\ [Next]_vars => Conformity'
  <1> SUFFICES ASSUME IInv, Conformity PROVE [Next]_vars => Conformity'
    OBVIOUS
  <1>1. TooDeep \/ Scalar \/ EnterField \/ LeaveField \/ UNCHANGED vars => Conformity'
    BY TooDeepConforms, ScalarConforms, EnterFieldConforms, LeaveFieldConforms, StutterConforms
  <1>2. EnterStrictModel \/ LeaveStrictModel \/ EnterAggregate \/ LeavePart => Conformity'
    BY EnterStrictModelConforms, LeaveStrictModelConforms, EnterAggregateConforms, LeavePartConforms
  <1>3. EnterNullable \/ LeaveNullable \/ EnterUnion \/ LeaveChoice => Conformity'
    BY EnterNullableConforms, LeaveNullableConforms, EnterUnionConforms, LeaveChoiceConforms
  <1>4. EnterDefinitions \/ LeaveDefinitions \/ EnterReference \/ LeaveReference => Conformity'
    BY EnterDefinitionsConforms, LeaveDefinitionsConforms, EnterReferenceConforms,
       LeaveReferenceConforms
  <1>5. EnterLaxOrStrict \/ EnterJsonOrStructural \/ LeaveControl => Conformity'
    BY EnterLaxOrStrictConforms, EnterJsonOrStructuralConforms, LeaveControlConforms
  <1>6. EnterChain \/ LeaveStep => Conformity'
    BY EnterChainConforms, LeaveStepConforms
  <1>7. SkipFunction \/ LeaveSkipped \/ EnterFunction \/ Invoke \/ LeaveFunction => Conformity'
    BY SkipFunctionConforms, LeaveSkippedConforms, EnterFunctionConforms, InvokeConforms,
       LeaveFunctionConforms
  <1> QED
    BY <1>1, <1>2, <1>3, <1>4, <1>5, <1>6, <1>7 DEF Next

(* The claim that ResultConforms makes, once a step more is allowed.       *)
LEMMA ConformityConforms == IInv /\ Conformity => ResultConforms
  <1> SUFFICES ASSUME IInv, Conformity, calls = << >>, ret.outcome = "ok"
               PROVE  Conforming(graph, mode, ret.values, asked)[Steps]
                                [Claim(ret.id, graph.root, asked, asked.root)]
    BY DEF ResultConforms
  <1> DEFINE n == Steps - 1
             m == Steps
             values == ret.values
             v == ret.id
             s == graph.root
             a == asked
             i == asked.root
  <1>1. Conforms(graph, mode, n, values, v, s, a, i)
    BY DEF Conformity, Answered
  <1>2. n \in 0 .. Steps /\ m \in n .. Steps
    BY DepthAssumption DEF Steps
  <1>3. IsGraph(graph)
    BY GraphsAssumption DEF IInv, TypeOK
  <1> HIDE DEF n, m, values, v, s, a, i
  <1>4. Same(a, i, a, i) /\ Formed(a) /\ Extends(values, values)
    BY <1>1, ConformsThere
  <1>5. Conforms(graph, mode, m, values, v, s, a, i)
    BY <1>1, <1>2, <1>3, <1>4, ConformsInMore
  <1>6. Conforming(graph, mode, values, a)[m][Claim(v, s, a, i)]
    BY <1>5 DEF Conforms
  <1> QED
    BY <1>6 DEF m, values, v, s, a, i

(* What a successful validation returns mirrors its input along the        *)
(* schema, whatever branches were tried and imported, whatever callbacks   *)
(* returned and however often chains handed a value on: no node of a       *)
(* losing branch is in it and no id points into another arena.             *)
THEOREM ResultsConform == Spec => []ResultConforms
  <1>1. Init => IInv /\ Conformity
    BY InitInv, InitConforms
  <1>2. IInv /\ Conformity /\ [Next]_vars => IInv' /\ Conformity'
    BY NextInv, NextConforms
  <1>3. IInv /\ Conformity => ResultConforms
    BY ConformityConforms
  <1> QED
    BY <1>1, <1>2, <1>3, PTL DEF Spec
-----------------------------------------------------------------------------
(* The documents that are generated for a schema follow its references as  *)
(* well: the definitions of a finished document are the least set closed   *)
(* under references, whatever the schema refers to and however deep the    *)
(* references go, for schemas that refer to themselves too.                *)
CONSTANT Names
VARIABLES needs, refers, begun, listed, handled, status

Worklist == INSTANCE DefinitionWorklist

WorklistTypeOK ==
  /\ needs \in Seq(SUBSET Names)
  /\ refers \in [Names -> SUBSET Names]
  /\ begun \in 0 .. Len(needs)
  /\ listed \in Seq(Names)
  /\ handled \in 0 .. Len(listed)
  /\ status \in {"working", "done", "failed"}

(* What the generated parts and definitions refer to is listed.            *)
Covered ==
  /\ \A p \in 1 .. begun : needs[p] \subseteq Worklist!Listing(listed)
  /\ \A h \in 1 .. handled : refers[listed[h]] \subseteq Worklist!Listing(listed)

(* Whatever is listed is in every set that is closed under references.     *)
Needed ==
  \A names \in SUBSET Names : Worklist!Mentioned(names) => Worklist!Listing(listed) \subseteq names

AllGenerated == status = "done" => begun = Len(needs) /\ handled = Len(listed)

WorklistInv == WorklistTypeOK /\ Worklist!Distinct(listed) /\ Covered /\ Needed /\ AllGenerated

(* Appending names to the list keeps what is known of it.                  *)
LEMMA MentionKeeps ==
  ASSUME NEW names \in SUBSET Names, listed \in Seq(Names), Worklist!Mention(names)
  PROVE  /\ listed' \in Seq(Names)
         /\ Len(listed) <= Len(listed')
         /\ \A i \in 1 .. Len(listed) : listed'[i] = listed[i]
         /\ Worklist!Distinct(listed')
         /\ Worklist!Listing(listed') = Worklist!Listing(listed) \cup names
  BY DEF Worklist!Mention

(* The beginning of a generation satisfies the invariant.                  *)
LEMMA WorklistInitInv == Worklist!Init => WorklistInv
  <1> SUFFICES ASSUME Worklist!Init PROVE WorklistInv
    OBVIOUS
  <1>1. WorklistTypeOK
    BY DEF Worklist!Init, WorklistTypeOK
  <1>2. Worklist!Distinct(listed) /\ Worklist!Listing(listed) = {}
    BY DEF Worklist!Init, Worklist!Distinct, Worklist!Listing
  <1>3. Covered
    BY DEF Worklist!Init, Covered
  <1>4. Needed
    BY <1>2 DEF Needed
  <1>5. AllGenerated
    BY DEF Worklist!Init, AllGenerated
  <1> QED
    BY <1>1, <1>2, <1>3, <1>4, <1>5 DEF WorklistInv

(* Generating a part of the schema itself.                                 *)
LEMMA VisitPartInv == WorklistInv /\ Worklist!VisitPart => WorklistInv'
  <1> SUFFICES ASSUME WorklistInv, Worklist!VisitPart PROVE WorklistInv'
    OBVIOUS
  <1> DEFINE names == needs[begun + 1]
  <1>1. names \in SUBSET Names /\ begun + 1 \in 1 .. Len(needs)
    BY DEF WorklistInv, WorklistTypeOK, Worklist!VisitPart
  <1>2. /\ listed' \in Seq(Names)
        /\ Len(listed) <= Len(listed')
        /\ \A i \in 1 .. Len(listed) : listed'[i] = listed[i]
        /\ Worklist!Distinct(listed')
        /\ Worklist!Listing(listed') = Worklist!Listing(listed) \cup names
    <2>1. listed \in Seq(Names) /\ Worklist!Mention(names)
      BY DEF WorklistInv, WorklistTypeOK, Worklist!VisitPart
    <2> QED
      BY <1>1, <2>1, MentionKeeps
  <1>3. /\ needs' = needs /\ refers' = refers /\ handled' = handled
        /\ status' = status /\ begun' = begun + 1
    BY DEF Worklist!VisitPart
  <1>4. WorklistTypeOK'
    BY <1>1, <1>2, <1>3 DEF WorklistInv, WorklistTypeOK
  <1>5. Covered'
    <2>1. \A p \in 1 .. begun + 1 : needs[p] \subseteq Worklist!Listing(listed')
      BY <1>1, <1>2 DEF WorklistInv, WorklistTypeOK, Covered
    <2>2. \A h \in 1 .. handled : refers[listed'[h]] \subseteq Worklist!Listing(listed')
      <3> SUFFICES ASSUME NEW h \in 1 .. handled
                   PROVE  refers[listed'[h]] \subseteq Worklist!Listing(listed')
        OBVIOUS
      <3>1. listed'[h] = listed[h]
        BY <1>2 DEF WorklistInv, WorklistTypeOK
      <3>2. refers[listed[h]] \subseteq Worklist!Listing(listed)
        BY DEF WorklistInv, Covered
      <3> QED
        BY <1>2, <3>1, <3>2
    <2> QED
      BY <1>3, <2>1, <2>2 DEF Covered
  <1>6. Needed'
    <2> SUFFICES ASSUME NEW closed \in SUBSET Names, Worklist!Mentioned(closed)
                 PROVE  Worklist!Listing(listed') \subseteq closed
      BY <1>3 DEF Needed, Worklist!Mentioned
    <2>1. Worklist!Listing(listed) \subseteq closed
      BY DEF WorklistInv, Needed
    <2>2. names \subseteq closed
      BY <1>1 DEF Worklist!Mentioned
    <2> QED
      BY <1>2, <2>1, <2>2
  <1>7. AllGenerated'
    BY <1>3 DEF Worklist!VisitPart, AllGenerated
  <1> QED
    BY <1>2, <1>4, <1>5, <1>6, <1>7 DEF WorklistInv

(* Generating a definition that is listed.                                 *)
LEMMA VisitDefinitionInv == WorklistInv /\ Worklist!VisitDefinition => WorklistInv'
  <1> SUFFICES ASSUME WorklistInv, Worklist!VisitDefinition PROVE WorklistInv'
    OBVIOUS
  <1> DEFINE name == listed[handled + 1]
  <1>1. name \in Names /\ name \in Worklist!Listing(listed) /\ handled + 1 \in 1 .. Len(listed)
    BY DEF WorklistInv, WorklistTypeOK, Worklist!VisitDefinition, Worklist!Listing
  <1>2. refers[name] \in SUBSET Names
    BY <1>1 DEF WorklistInv, WorklistTypeOK
  <1>3. /\ listed' \in Seq(Names)
        /\ Len(listed) <= Len(listed')
        /\ \A i \in 1 .. Len(listed) : listed'[i] = listed[i]
        /\ Worklist!Distinct(listed')
        /\ Worklist!Listing(listed') = Worklist!Listing(listed) \cup refers[name]
    <2>1. listed \in Seq(Names) /\ Worklist!Mention(refers[name])
      BY DEF WorklistInv, WorklistTypeOK, Worklist!VisitDefinition
    <2> QED
      BY <1>2, <2>1, MentionKeeps
  <1>4. /\ needs' = needs /\ refers' = refers /\ begun' = begun
        /\ status' = status /\ handled' = handled + 1
    BY DEF Worklist!VisitDefinition
  <1>5. WorklistTypeOK'
    BY <1>1, <1>3, <1>4 DEF WorklistInv, WorklistTypeOK
  <1>6. Covered'
    <2>1. \A p \in 1 .. begun : needs[p] \subseteq Worklist!Listing(listed')
      BY <1>3 DEF WorklistInv, WorklistTypeOK, Covered
    <2>2. \A h \in 1 .. handled + 1 : refers[listed'[h]] \subseteq Worklist!Listing(listed')
      <3> SUFFICES ASSUME NEW h \in 1 .. handled + 1
                   PROVE  refers[listed'[h]] \subseteq Worklist!Listing(listed')
        OBVIOUS
      <3>1. listed'[h] = listed[h]
        BY <1>1, <1>3 DEF WorklistInv, WorklistTypeOK
      <3>2. CASE h = handled + 1
        BY <1>3, <3>1, <3>2
      <3>3. CASE h \in 1 .. handled
        BY <1>3, <3>1, <3>3 DEF WorklistInv, Covered
      <3> QED
        BY <3>2, <3>3 DEF WorklistInv, WorklistTypeOK
    <2> QED
      BY <1>4, <2>1, <2>2 DEF Covered
  <1>7. Needed'
    <2> SUFFICES ASSUME NEW closed \in SUBSET Names, Worklist!Mentioned(closed)
                 PROVE  Worklist!Listing(listed') \subseteq closed
      BY <1>4 DEF Needed, Worklist!Mentioned
    <2>1. Worklist!Listing(listed) \subseteq closed
      BY DEF WorklistInv, Needed
    <2>2. refers[name] \subseteq closed
      BY <1>1, <2>1 DEF Worklist!Mentioned
    <2> QED
      BY <1>3, <2>1, <2>2
  <1>8. AllGenerated'
    BY <1>4 DEF Worklist!VisitDefinition, AllGenerated
  <1> QED
    BY <1>3, <1>5, <1>6, <1>7, <1>8 DEF WorklistInv

(* Steps that leave the list alone.                                        *)
LEMMA WorklistEndInv == WorklistInv /\ (Worklist!Finish \/ Worklist!Fail \/ UNCHANGED Worklist!vars) => WorklistInv'
  <1> SUFFICES ASSUME WorklistInv, Worklist!Finish \/ Worklist!Fail \/ UNCHANGED Worklist!vars PROVE WorklistInv'
    OBVIOUS
  <1>1. /\ needs' = needs /\ refers' = refers /\ begun' = begun
        /\ listed' = listed /\ handled' = handled
    BY DEF Worklist!Finish, Worklist!Fail, Worklist!vars
  <1>2. WorklistTypeOK' /\ AllGenerated'
    BY <1>1 DEF WorklistInv, WorklistTypeOK, AllGenerated, Worklist!Finish, Worklist!Fail, Worklist!vars
  <1>3. Worklist!Distinct(listed)' /\ Covered' /\ Needed'
    BY <1>1 DEF WorklistInv, Worklist!Distinct, Covered, Needed, Worklist!Mentioned, Worklist!Listing
  <1> QED
    BY <1>2, <1>3 DEF WorklistInv

(* When all that is listed has been generated, the list is closed, and it  *)
(* was the least such list all the way.                                    *)
LEMMA WorklistInvImplies == WorklistInv => Worklist!LeastClosed
  <1> SUFFICES ASSUME WorklistInv, status = "done" PROVE Worklist!LeastClosed
    BY DEF Worklist!LeastClosed
  <1>1. begun = Len(needs) /\ handled = Len(listed)
    BY DEF WorklistInv, AllGenerated
  <1>2. Worklist!Mentioned(Worklist!Listing(listed))
    <2>1. \A p \in 1 .. Len(needs) : needs[p] \subseteq Worklist!Listing(listed)
      BY <1>1 DEF WorklistInv, Covered
    <2>2. \A n \in Worklist!Listing(listed) : refers[n] \subseteq Worklist!Listing(listed)
      BY <1>1 DEF WorklistInv, Covered, Worklist!Listing
    <2> QED
      BY <2>1, <2>2 DEF Worklist!Mentioned
  <1> QED
    BY <1>2 DEF WorklistInv, Needed, Worklist!LeastClosed

(* A document that was generated defines exactly the names that are        *)
(* reachable from the schema by references, each once.                     *)
THEOREM DefinitionsAreLeastClosed == Worklist!Spec => []Worklist!LeastClosed
  <1>1. Worklist!Init => WorklistInv
    BY WorklistInitInv
  <1>2. WorklistInv /\ [Worklist!Next]_Worklist!vars => WorklistInv'
    BY VisitPartInv, VisitDefinitionInv, WorklistEndInv DEF Worklist!Next
  <1>3. WorklistInv => Worklist!LeastClosed
    BY WorklistInvImplies
  <1> QED
    BY <1>1, <1>2, <1>3, PTL DEF Worklist!Spec
=============================================================================
