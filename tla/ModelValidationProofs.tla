------------------------- MODULE ModelValidationProofs -------------------------
(***************************************************************************)
(* Proofs about validate_model of validation/models.rs, for every cap,     *)
(* every set of models and inputs and whatever fields, defaults and extras *)
(* report, in three parts: its own report is exact and its verdict does    *)
(* not depend on the cap; its extras are the entries no field selects; and *)
(* a built model has every field from its own source, in order.            *)
(***************************************************************************)
EXTENDS ModelValidation, ErrorReportProofs, FiniteSetTheorems, WellFoundedInduction

TypeOK ==
  /\ case \in Cases
  /\ stage \in {"enter", "fields", "extras", "build", "done"}
  /\ at \in Nat
  /\ consumed \subseteq 1 .. Len(Entries)
  /\ errors \in Report
  /\ found \in Seq(Detail)
  /\ left \in BOOLEAN

FreshAtEntry ==
  stage = "enter" => /\ at = 0 /\ consumed = {}
                     /\ errors = Nothing /\ found = << >> /\ left = FALSE

Selects(f) == Fields[f].input /\ SelectField(Fields[f]).entry # 0

FieldInvalid(f) ==
  \/ Selects(f) /\ ~IsFine(Fields[f].outcome)
  \/ ~Selects(f) /\ Fields[f].default = "value" /\ ~IsFine(Fields[f].ofDefault)
  \/ ~Selects(f) /\ Fields[f].input /\ Fields[f].default = "required"

EntryInvalid(e) ==
  \/ case.model.extra = "forbid"
  \/ case.model.extra = "allow" /\ ~IsFine(Entries[e].outcome)

(* The entries that the first n fields select.                             *)
SelectedBy(n) ==
  {SelectField(Fields[f]).entry : f \in {g \in 1 .. n : Fields[g].input}} \ {0}

(* What the loops know of the verdict: errors were found exactly if a part *)
(* they have passed is invalid, and the fields have consumed exactly the   *)
(* entries they select, so that the second loop visits the right ones.     *)
Progress ==
  /\ stage \in {"fields", "extras", "build"} => case.accepted
  /\ stage = "fields" =>
       /\ at <= Len(Fields) /\ consumed = SelectedBy(at)
       /\ found # << >> <=> \E f \in 1 .. at : FieldInvalid(f)
  /\ stage = "extras" =>
       /\ at <= Len(Entries) /\ consumed = SelectedEntries
       /\ found # << >> <=> \/ \E f \in 1 .. Len(Fields) : FieldInvalid(f)
                            \/ \E e \in (1 .. at) \ SelectedEntries : EntryInvalid(e)
  /\ stage = "build" => errors = Nothing /\ ~Invalid

(* The contract alone would do for the report, but for the count of the    *)
(* consumed entries it needs to know that they are entries.                *)
IInv == TypeOK /\ FreshAtEntry /\ ReportContract /\ Progress /\ Verdict

-----------------------------------------------------------------------------
(* Schemas and inputs are typed.                                           *)
LEMMA CaseType ==
  ASSUME case \in Cases
  PROVE  /\ Len(Fields) \in Nat /\ Len(Entries) \in Nat
         /\ \A f \in 1 .. Len(Fields) : Fields[f] \in Field
         /\ \A e \in 1 .. Len(Entries) : Entries[e] \in Entry
  <1>1. case \in Case
    BY CasesAssumption
  <1>2. case.model \in Model /\ Entries \in Seq(Entry)
    BY <1>1 DEF Case, Entries
  <1>3. Fields \in Seq(Field)
    BY <1>2 DEF Model, Fields
  <1> QED BY <1>2, <1>3, ElementOfSeq

(* A set of naturals with a member has a least one.                        *)
LEMMA LeastMember ==
  ASSUME NEW T \in SUBSET Nat, T # {}
  PROVE  \E least \in T : \A t \in T : least <= t
  <1>1. \E least \in T : \A t \in T : ~(<<t, least>> \in OpToRel(<, Nat))
    BY NatLessThanWellFounded, WFMin
  <1>2. PICK least \in T : \A t \in T : ~(<<t, least>> \in OpToRel(<, Nat))
    BY <1>1
  <1>3. \A t \in T : ~(t < least)
    BY <1>2 DEF OpToRel
  <1> QED BY <1>3

(* The entry of a name is an entry or none.                                *)
LEMMA EntryNamedType ==
  ASSUME case \in Cases, NEW name
  PROVE  EntryNamed(name) \in 0 .. Len(Entries)
  <1> DEFINE T == {e \in 1 .. Len(Entries) : Entries[e].name = name}
  <1>1. Len(Entries) \in Nat
    BY CaseType
  <1>2. CASE T = {}
    <2>1. ~\E e \in 1 .. Len(Entries) : Entries[e].name = name
      BY <1>2
    <2> QED BY <1>1, <2>1 DEF EntryNamed
  <1>3. CASE T # {}
    <2>1. T \in SUBSET Nat
      BY <1>1
    <2>2. PICK least \in T : \A t \in T : least <= t
      BY <1>3, <2>1, LeastMember
    <2>3. least \in 1 .. Len(Entries) /\ Entries[least].name = name
      OBVIOUS
    <2>4. \A d \in 1 .. least - 1 : Entries[d].name # name
      <3> SUFFICES ASSUME NEW d \in 1 .. least - 1, Entries[d].name = name PROVE FALSE
        OBVIOUS
      <3>1. d \in 1 .. Len(Entries) /\ d < least
        BY <1>1, <2>3
      <3> QED BY <2>2, <3>1, <1>1
    <2>5. \E e \in 1 .. Len(Entries) :
            Entries[e].name = name /\ \A d \in 1 .. e - 1 : Entries[d].name # name
      BY <2>3, <2>4
    <2>6. \E e \in 1 .. Len(Entries) : Entries[e].name = name
      BY <2>3
    <2> DEFINE first == CHOOSE e \in 1 .. Len(Entries) :
                          Entries[e].name = name /\ \A d \in 1 .. e - 1 : Entries[d].name # name
    <2>7. first \in 1 .. Len(Entries)
      BY <2>5, Zenon
    <2>8. EntryNamed(name) = first
      BY <2>6, Zenon DEF EntryNamed
    <2> HIDE DEF first
    <2> QED BY <1>1, <2>7, <2>8
  <1> QED BY <1>2, <1>3

(* The paths under which a field's errors are reported.                    *)
LEMMA FieldPath ==
  ASSUME NEW name \in Name
  PROVE  <<<<"field", name>>>> \in Path
  <1>1. <<"field", name>> \in Item
    BY NamesAssumption DEF Item
  <1> QED BY <1>1 DEF Path

LEMMA AliasPath ==
  ASSUME NEW name \in Name, NEW field \in Field, NEW alias \in Alias, alias.top # Absent
  PROVE  ByField(field) \in Path /\ ByAliasPath(field, alias) \in Path
  <1>1. field.name \in Name /\ alias.top \in Name
    BY DEF Field, Alias
  <1>2. ByField(field) \in Path /\ <<<<"field", alias.top>>>> \in Path
    BY <1>1, FieldPath DEF ByField
  <1>3. <<<<"field", alias.top>>, <<"index", 0>>>> \in Path
    <2>1. <<"field", alias.top>> \in Item /\ <<"index", 0>> \in Item
      BY <1>1, NamesAssumption DEF Item
    <2> QED BY <2>1 DEF Path
  <1> QED BY <1>2, <1>3 DEF ByAliasPath

(* What a field selects is an entry under a path, or nothing.              *)
LEMMA SelectFieldType ==
  ASSUME case \in Cases, NEW field \in Field
  PROVE  /\ SelectField(field).entry \in 0 .. Len(Entries)
         /\ SelectField(field).entry # 0 => SelectField(field).path \in Path
         /\ ByField(field) \in Path /\ MissingPath(field) \in Path
  <1> DEFINE resolving == {i \in 1 .. Len(field.aliases) : Resolves(field.aliases[i])}
             first == CHOOSE i \in resolving : \A j \in resolving : i <= j
  <1>1. /\ field.name \in Name /\ field.aliases \in Seq(Alias) /\ Len(field.aliases) \in Nat
        /\ \A i \in 1 .. Len(field.aliases) : field.aliases[i] \in Alias
    <2>1. field.name \in Name /\ field.aliases \in Seq(Alias)
      BY DEF Field
    <2> QED BY <2>1, ElementOfSeq
  <1>2. ByField(field) \in Path
    BY <1>1, FieldPath DEF ByField
  <1>3. MissingPath(field) \in Path
    <2>1. CASE case.model.byAlias /\ field.aliases # << >> /\ field.aliases[1].top # Absent
      <3>1. field.aliases[1] \in Alias
        BY <1>1, <2>1, EmptySeq
      <3>2. field.aliases[1].top \in Name
        BY <2>1, <3>1 DEF Alias
      <3> QED BY <2>1, <3>2, FieldPath DEF MissingPath
    <2>2. CASE ~(case.model.byAlias /\ field.aliases # << >> /\ field.aliases[1].top # Absent)
      BY <1>2, <2>2 DEF MissingPath
    <2> QED BY <2>1, <2>2
  <1>4. CASE resolving # {}
    <2>1. resolving \in SUBSET Nat
      BY <1>1
    <2>2. \E i \in resolving : \A j \in resolving : i <= j
      <3> HIDE DEF resolving
      <3> QED BY <1>4, <2>1, LeastMember
    <2>3. first \in resolving
      BY <2>2, Zenon
    <2>4. SelectField(field) = [entry |-> EntryNamed(field.aliases[first].top),
                                path |-> ByAliasPath(field, field.aliases[first])]
      BY <1>4, Zenon DEF SelectField
    <2> HIDE DEF first
    <2>5. field.aliases[first] \in Alias /\ field.aliases[first].top # Absent
      BY <1>1, <2>3 DEF Resolves
    <2>6. ByAliasPath(field, field.aliases[first]) \in Path
      <3>1. field.aliases[first].top \in Name
        BY <2>5 DEF Alias
      <3> QED BY <2>5, <3>1, AliasPath
    <2>7. EntryNamed(field.aliases[first].top) \in 0 .. Len(Entries)
      BY EntryNamedType
    <2> QED BY <1>2, <1>3, <2>4, <2>6, <2>7
  <1>5. CASE resolving = {} /\ (field.aliases = << >> \/ case.model.byName)
    <2>1. SelectField(field) = [entry |-> EntryNamed(field.name), path |-> ByField(field)]
      BY <1>5, Zenon DEF SelectField
    <2> QED BY <1>2, <1>3, <2>1, EntryNamedType
  <1>6. CASE resolving = {} /\ ~(field.aliases = << >> \/ case.model.byName)
    <2>1. SelectField(field) = [entry |-> 0, path |-> << >>]
      BY <1>6, Zenon DEF SelectField
    <2>2. 0 \in 0 .. Len(Entries)
      BY CaseType
    <2> QED BY <1>2, <1>3, <2>1, <2>2
  <1> QED BY <1>4, <1>5, <1>6

(* The location-free errors of the loops.                                  *)
LEMMA OwnDetail ==
  ASSUME NEW c \in {"model_type", "missing", "extra_forbidden"}
  PROVE  /\ [location |-> << >>, code |-> c] \in Detail
         /\ Single([location |-> << >>, code |-> c]) \in Outcome(MaxErrors)
  <1> DEFINE d == [location |-> << >>, code |-> c]
  <1>1. c \in Code /\ << >> \in Seq(Item)
    BY CodesAssumption
  <1>2. d \in Detail
    BY <1>1 DEF Detail, Path
  <1> HIDE DEF d
  <1>3. Single(d) \in Outcome(MaxErrors)
    BY <1>2, SmallOutcomes, LimitAssumption
  <1> QED BY <1>2, <1>3 DEF d

(* A report has something to say exactly when errors were found; and one   *)
(* that is full has.                                                       *)
LEMMA ErrorsMeanFound ==
  ASSUME NEW e \in Report, NEW f \in Seq(Detail), NEW l \in BOOLEAN, Covers(e, f, l, MaxErrors)
  PROVE  /\ e # Nothing <=> f # << >>
         /\ IsFull(e, MaxErrors) => f # << >>
  <1>1. CASE e.details = << >>
    <2>1. f = << >> /\ e = Nothing
      BY <1>1, NothingCovers, LimitAssumption
    <2>2. Len(e.details) = 0
      BY <1>1
    <2> QED BY <2>1, <2>2, LimitAssumption DEF IsFull
  <1>2. CASE e.details # << >>
    <2>1. e # Nothing
      BY <1>2 DEF Nothing
    <2>2. f # << >>
      <3> SUFFICES ASSUME f = << >> PROVE FALSE
        OBVIOUS
      <3>1. Take(f, MaxErrors) = << >>
        <4>1. Len(f) <= MaxErrors
          BY EmptySeq, LimitAssumption
        <4> QED BY <4>1, TakeShort, LimitAssumption
      <3> QED BY <1>2, <3>1 DEF Covers
    <2> QED BY <2>1, <2>2
  <1> QED BY <1>1, <1>2

(* Collecting an outcome adds errors exactly when there are some.          *)
LEMMA FoundGrows ==
  ASSUME NEW f \in Seq(Detail), NEW path \in Path, NEW o \in Outcome(MaxErrors)
  PROVE  f \o LocateAll(path, o.found) # << >> <=> (f # << >> \/ ~IsFine(o))
  <1> DEFINE g == LocateAll(path, o.found)
  <1>1. o.found \in Seq(Detail) /\ Len(o.found) \in Nat
    BY DEF Outcome
  <1>2. g \in Seq(Detail) /\ Len(g) = Len(o.found)
    BY <1>1, LocateAllType
  <1>3. IsFine(o) <=> Len(o.found) = 0
    BY <1>1, EmptySeq DEF IsFine
  <1> HIDE DEF g
  <1>4. f \o g \in Seq(Detail) /\ Len(f \o g) = Len(f) + Len(g) /\ Len(f) \in Nat
    <2>1. f \o g \in Seq(Detail) /\ Len(f \o g) = Len(f) + Len(g)
      BY <1>2, ConcatElements
    <2>2. Len(f) \in Nat
      OBVIOUS
    <2> QED BY <2>1, <2>2
  <1>5. f \o g # << >> <=> Len(f) + Len(g) # 0
    BY <1>4, EmptySeq
  <1>6. f # << >> <=> Len(f) # 0
    BY EmptySeq
  <1> QED BY <1>1, <1>2, <1>3, <1>4, <1>5, <1>6 DEF g

(* The verdict's parts.                                                    *)
LEMMA InvalidMeans ==
  Invalid <=>
    \/ ~case.accepted
    \/ \E f \in 1 .. Len(Fields) : FieldInvalid(f)
    \/ \E e \in (1 .. Len(Entries)) \ SelectedEntries : EntryInvalid(e)
  BY DEF Invalid, FieldInvalid, EntryInvalid, Selects

LEMMA SelectedIsSelected == SelectedEntries = SelectedBy(Len(Fields))
  BY DEF SelectedEntries, SelectedBy

(* The next field selects its entry, or nothing.                           *)
LEMMA SelectedNext ==
  ASSUME NEW n \in Nat
  PROVE  SelectedBy(n + 1) =
           IF Selects(n + 1) THEN SelectedBy(n) \cup {SelectField(Fields[n + 1]).entry}
           ELSE SelectedBy(n)
  <1>1. \A g : g \in 1 .. n + 1 <=> g \in 1 .. n \/ g = n + 1
    OBVIOUS
  <1> DEFINE entry(f) == SelectField(Fields[f]).entry
  <1>2. \A x : x \in SelectedBy(n + 1) <=> x # 0 /\ \E f \in 1 .. n + 1 : Fields[f].input /\ x = entry(f)
    BY DEF SelectedBy
  <1>3. \A x : x \in SelectedBy(n) <=> x # 0 /\ \E f \in 1 .. n : Fields[f].input /\ x = entry(f)
    BY DEF SelectedBy
  <1>4. Selects(n + 1) <=> Fields[n + 1].input /\ entry(n + 1) # 0
    BY DEF Selects
  <1> HIDE DEF entry
  <1>5. \A x : x \in SelectedBy(n + 1) <=>
                 x \in SelectedBy(n) \/ (Selects(n + 1) /\ x = entry(n + 1))
    BY <1>1, <1>2, <1>3, <1>4
  <1> QED BY <1>5 DEF entry

(* Counting the consumed entries tells whether any is left.                *)
LEMMA CountTells ==
  ASSUME NEW n \in Nat, NEW T \in SUBSET (1 .. n)
  PROVE  Cardinality(T) < n <=> T # 1 .. n
  <1>1. IsFiniteSet(1 .. n) /\ Cardinality(1 .. n) = n
    BY FS_Interval
  <1>2. /\ Cardinality(T) <= Cardinality(1 .. n)
        /\ Cardinality(1 .. n) = Cardinality(T) => 1 .. n = T
        /\ IsFiniteSet(T)
    BY <1>1, FS_Subset
  <1>3. Cardinality(T) \in Nat
    BY <1>2, FS_CardinalityType
  <1> QED BY <1>1, <1>2, <1>3

(* What is said of the case is the same after a step.                      *)
LEMMA SameCase ==
  ASSUME case' = case
  PROVE  /\ Fields' = Fields /\ Entries' = Entries /\ SelectedEntries' = SelectedEntries
         /\ Invalid' = Invalid
         /\ \A n : SelectedBy(n)' = SelectedBy(n)
         /\ \A f : FieldInvalid(f)' <=> FieldInvalid(f)
         /\ \A e : EntryInvalid(e)' <=> EntryInvalid(e)
  <1>1. Fields' = Fields /\ Entries' = Entries
    BY DEF Fields, Entries
  <1>2. \A field : SelectField(field)' = SelectField(field)
    BY <1>1 DEF SelectField, EntryNamed, Resolves, ByAliasPath, ByField
  <1> QED BY <1>1, <1>2 DEF SelectedEntries, SelectedBy, Invalid, FieldInvalid, EntryInvalid, Selects

-----------------------------------------------------------------------------
LEMMA InitIInv == Init => IInv
  <1> SUFFICES ASSUME Init PROVE IInv
    OBVIOUS
  <1>1. Nothing \in Report /\ << >> \in Seq(Detail) /\ Covers(Nothing, << >>, FALSE, MaxErrors)
    BY EmptyCovers, LimitAssumption
  <1>2. TypeOK
    BY <1>1 DEF Init, TypeOK
  <1> QED BY <1>1, <1>2 DEF Init, IInv, FreshAtEntry, ReportContract, Progress, Verdict

(* The end of an iteration over a field keeps everything, when the field's *)
(* outcome is an error exactly if the field is invalid.                    *)
LEMMA EndFieldKeeps ==
  ASSUME IInv, InFields, NEW path \in Path, NEW o \in Outcome(MaxErrors), EndField(path, o),
         consumed' = SelectedBy(at + 1), consumed' \subseteq 1 .. Len(Entries),
         ~IsFine(o) <=> FieldInvalid(at + 1)
  PROVE  IInv'
  <1> DEFINE e == Collect(errors, path, o, MaxErrors)
             f == found \o LocateAll(path, o.found)
             l == left \/ o.left
             more == MoreFields \/ (case.model.extra # "ignore" /\ consumed' # 1 .. Len(Entries))
  <1>1. /\ TypeOK /\ Progress /\ ReportContract /\ stage = "fields" /\ at < Len(Fields)
        /\ case \in Cases /\ at \in Nat
    BY DEF IInv, InFields, TypeOK
  <1>2. Len(Entries) \in Nat /\ Len(Fields) \in Nat
    BY <1>1, CaseType
  <1>3. MoreExtras <=> case.model.extra # "ignore" /\ consumed' # 1 .. Len(Entries)
    BY <1>2, CountTells DEF MoreExtras
  <1>4. more \in BOOLEAN /\ l \in BOOLEAN
    BY DEF MoreFields
  <1>5. /\ errors' = StopAfterErrorCap(e, more, MaxErrors) /\ found' = f
        /\ left' = (l \/ (IsFull(e, MaxErrors) /\ more))
        /\ at' = at + 1 /\ UNCHANGED <<case, stage, extras, result>>
    BY <1>3 DEF EndField
  <1>6. e \in Report /\ f \in Seq(Detail) /\ Covers(e, f, l, MaxErrors)
    BY <1>1, CollectCovers, LimitAssumption DEF TypeOK, ReportContract
  <1>7. f # << >> <=> (found # << >> \/ ~IsFine(o))
    BY <1>1, FoundGrows DEF TypeOK
  <1>8. IsFull(e, MaxErrors) \in BOOLEAN
    BY DEF IsFull
  <1> HIDE DEF e, f, l, more
  <1>9. errors' \in Report /\ left' \in BOOLEAN /\ ReportContract'
    <2>1. StopAfterErrorCap(e, more, MaxErrors) \in Report
      BY <1>4, <1>6, StopType, LimitAssumption
    <2>2. Covers(StopAfterErrorCap(e, more, MaxErrors), f,
                 l \/ (IsFull(e, MaxErrors) /\ more), MaxErrors)
      BY <1>4, <1>6, StopCovers, LimitAssumption
    <2>3. (l \/ (IsFull(e, MaxErrors) /\ more)) \in BOOLEAN
      BY <1>4, <1>8
    <2> QED BY <1>5, <2>1, <2>2, <2>3 DEF ReportContract
  <1>10. Fields' = Fields /\ Entries' = Entries
         /\ (\A n : SelectedBy(n)' = SelectedBy(n)) /\ (\A g : FieldInvalid(g)' <=> FieldInvalid(g))
    BY <1>5, SameCase
  <1>11. TypeOK'
    <2>1. at' \in Nat
      BY <1>1, <1>5
    <2> QED BY <1>1, <1>5, <1>6, <1>9, <1>10, <2>1 DEF TypeOK
  <1>12. Progress'
    <2>1. \A g : g \in 1 .. at' <=> g \in 1 .. at \/ g = at + 1
      BY <1>1, <1>5
    <2>2. found' # << >> <=> \E g \in 1 .. at' : FieldInvalid(g)
      BY <1>1, <1>5, <1>7, <2>1 DEF Progress
    <2>3. at' <= Len(Fields')
      BY <1>1, <1>2, <1>5, <1>10
    <2>4. consumed' = SelectedBy(at)'
      <3>1. SelectedBy(at)' = SelectedBy(at')
        BY <1>10 DEF SelectedBy, SelectField, EntryNamed, Resolves, ByAliasPath, ByField
      <3> QED BY <1>5, <3>1
    <2>5. (\E g \in 1 .. at : FieldInvalid(g))' <=> \E g \in 1 .. at' : FieldInvalid(g)
      BY <1>10
    <2> QED BY <1>1, <1>5, <2>2, <2>3, <2>4, <2>5 DEF Progress
  <1> QED BY <1>1, <1>5, <1>9, <1>11, <1>12 DEF IInv, FreshAtEntry, Verdict

(* The field under visit.                                                  *)
LEMMA VisitedField ==
  ASSUME IInv, InFields
  PROVE  /\ Visited \in Field /\ Visited = Fields[at + 1] /\ at \in Nat
         /\ Visited.outcome \in Outcome(MaxErrors) /\ Visited.ofDefault \in Outcome(MaxErrors)
         /\ ByField(Visited) \in Path /\ MissingPath(Visited) \in Path
         /\ Selected.entry \in 0 .. Len(Entries) /\ (Selected.entry # 0 => Selected.path \in Path)
         /\ Selects(at + 1) <=> Visited.input /\ Selected.entry # 0
         /\ consumed = SelectedBy(at) /\ consumed \subseteq 1 .. Len(Entries)
         /\ Len(Entries) \in Nat
  <1>1. TypeOK /\ case \in Cases /\ at \in Nat /\ at < Len(Fields) /\ stage = "fields"
    BY DEF IInv, TypeOK, InFields
  <1>2. at + 1 \in 1 .. Len(Fields) /\ Len(Entries) \in Nat
    BY <1>1, CaseType
  <1>3. Visited \in Field /\ Visited = Fields[at + 1]
    BY <1>1, <1>2, CaseType DEF Visited
  <1>4. Visited.outcome \in Outcome(MaxErrors) /\ Visited.ofDefault \in Outcome(MaxErrors)
    BY <1>3 DEF Field
  <1>5. /\ ByField(Visited) \in Path /\ MissingPath(Visited) \in Path
        /\ Selected.entry \in 0 .. Len(Entries) /\ (Selected.entry # 0 => Selected.path \in Path)
    BY <1>1, <1>3, SelectFieldType DEF Selected
  <1>6. Selects(at + 1) <=> Visited.input /\ Selected.entry # 0
    BY <1>3 DEF Selects, Selected
  <1>7. consumed = SelectedBy(at) /\ consumed \subseteq 1 .. Len(Entries)
    BY <1>1 DEF IInv, Progress, TypeOK
  <1> QED BY <1>1, <1>2, <1>3, <1>4, <1>5, <1>6, <1>7

LEMMA ValidateInputKeeps == IInv /\ ValidateInput => IInv'
  <1> SUFFICES ASSUME IInv, ValidateInput PROVE IInv'
    OBVIOUS
  <1>1. /\ InFields /\ Visited.input /\ Selected.entry # 0
        /\ consumed' = consumed \cup {Selected.entry}
        /\ EndField(Selected.path, Visited.outcome)
    BY DEF ValidateInput
  <1>2. Selects(at + 1) /\ Selected.path \in Path /\ Visited.outcome \in Outcome(MaxErrors)
    BY <1>1, VisitedField
  <1>3. consumed' = SelectedBy(at + 1)
    BY <1>1, <1>2, VisitedField, SelectedNext DEF Selected
  <1>4. consumed' \subseteq 1 .. Len(Entries)
    <2>1. Selected.entry \in 1 .. Len(Entries)
      BY <1>1, VisitedField
    <2> QED BY <1>1, <2>1, VisitedField
  <1>5. ~IsFine(Visited.outcome) <=> FieldInvalid(at + 1)
    BY <1>1, <1>2, VisitedField DEF FieldInvalid
  <1> QED BY <1>1, <1>2, <1>3, <1>4, <1>5, EndFieldKeeps

LEMMA ValidateDefaultKeeps == IInv /\ ValidateDefault => IInv'
  <1> SUFFICES ASSUME IInv, ValidateDefault PROVE IInv'
    OBVIOUS
  <1>1. /\ InFields /\ Visited.default = "value" /\ (Visited.input => Selected.entry = 0)
        /\ consumed' = consumed /\ EndField(ByField(Visited), Visited.ofDefault)
    BY DEF ValidateDefault
  <1>2. ~Selects(at + 1) /\ ByField(Visited) \in Path /\ Visited.ofDefault \in Outcome(MaxErrors)
    BY <1>1, VisitedField
  <1>3. consumed' = SelectedBy(at + 1) /\ consumed' \subseteq 1 .. Len(Entries)
    BY <1>1, <1>2, VisitedField, SelectedNext
  <1>4. ~IsFine(Visited.ofDefault) <=> FieldInvalid(at + 1)
    BY <1>1, <1>2, VisitedField DEF FieldInvalid
  <1> QED BY <1>1, <1>2, <1>3, <1>4, EndFieldKeeps

LEMMA RequireKeeps == IInv /\ RequireField => IInv'
  <1> SUFFICES ASSUME IInv, RequireField PROVE IInv'
    OBVIOUS
  <1> DEFINE o == Single([location |-> << >>, code |-> "missing"])
  <1>1. /\ InFields /\ Visited.input /\ Selected.entry = 0 /\ Visited.default = "required"
        /\ consumed' = consumed /\ EndField(MissingPath(Visited), o)
    BY DEF RequireField
  <1>2. ~Selects(at + 1) /\ MissingPath(Visited) \in Path
    BY <1>1, VisitedField
  <1>3. o \in Outcome(MaxErrors) /\ ~IsFine(o)
    BY OwnDetail DEF Single, IsFine
  <1>4. consumed' = SelectedBy(at + 1) /\ consumed' \subseteq 1 .. Len(Entries)
    BY <1>1, <1>2, VisitedField, SelectedNext
  <1>5. FieldInvalid(at + 1)
    BY <1>1, <1>2, VisitedField DEF FieldInvalid
  <1> HIDE DEF o
  <1> QED BY <1>1, <1>2, <1>3, <1>4, <1>5, EndFieldKeeps

LEMMA PassOverKeeps == IInv /\ PassOverField => IInv'
  <1> SUFFICES ASSUME IInv, PassOverField PROVE IInv'
    OBVIOUS
  <1>1. /\ InFields
        /\ \/ Visited.input /\ Selected.entry = 0 /\ Visited.default = "construction"
           \/ ~Visited.input /\ Visited.default # "value"
        /\ consumed' = consumed /\ EndField(ByField(Visited), Fine)
    BY DEF PassOverField
  <1>2. ~Selects(at + 1) /\ ByField(Visited) \in Path
    BY <1>1, VisitedField
  <1>3. Fine \in Outcome(MaxErrors) /\ IsFine(Fine)
    BY DEF Fine, Outcome, IsFine
  <1>4. consumed' = SelectedBy(at + 1) /\ consumed' \subseteq 1 .. Len(Entries)
    BY <1>1, <1>2, VisitedField, SelectedNext
  <1>5. ~FieldInvalid(at + 1)
    BY <1>1, <1>2, VisitedField DEF FieldInvalid
  <1> QED BY <1>1, <1>2, <1>3, <1>4, <1>5, EndFieldKeeps

LEMMA RejectKeeps == IInv /\ Reject => IInv'
  <1> SUFFICES ASSUME IInv, Reject PROVE IInv'
    OBVIOUS
  <1> DEFINE d == [location |-> << >>, code |-> "model_type"]
  <1>1. d \in Detail
    BY OwnDetail
  <1>2. /\ errors' = One(d) /\ found' = <<d>> /\ stage' = "done" /\ ~case.accepted
        /\ UNCHANGED <<case, at, consumed, left>> /\ left = FALSE
    BY DEF Reject, IInv, FreshAtEntry
  <1> HIDE DEF d
  <1>3. One(d) \in Report /\ <<d>> \in Seq(Detail) /\ Covers(One(d), <<d>>, FALSE, MaxErrors)
    BY <1>1, OneCovers, LimitAssumption
  <1>4. TypeOK'
    BY <1>2, <1>3, SameCase DEF IInv, TypeOK
  <1>5. ReportContract'
    BY <1>2, <1>3 DEF ReportContract
  <1>6. Verdict'
    <2>1. One(d) # Nothing
      BY DEF One, Nothing
    <2>2. Invalid'
      BY <1>2, SameCase, InvalidMeans
    <2> QED BY <1>2, <2>1, <2>2 DEF Verdict
  <1> QED BY <1>2, <1>4, <1>5, <1>6 DEF IInv, FreshAtEntry, Progress

(* A step that leaves the report and the entries alone keeps their types.  *)
LEMMA ReportUntouched ==
  ASSUME IInv, UNCHANGED <<case, consumed, errors, found, left>>, at' \in Nat,
         stage' \in {"fields", "extras", "build", "done"}
  PROVE  TypeOK' /\ FreshAtEntry' /\ ReportContract'
  <1>1. Entries' = Entries
    BY SameCase
  <1> QED BY <1>1 DEF IInv, TypeOK, FreshAtEntry, ReportContract

LEMMA AcceptKeeps == IInv /\ Accept => IInv'
  <1> SUFFICES ASSUME IInv, Accept PROVE IInv'
    OBVIOUS
  <1>1. /\ case.accepted /\ stage' = "fields" /\ at' = 0 /\ consumed' = {} /\ found' = << >>
        /\ UNCHANGED <<case, at, consumed, errors, found, left>>
    BY DEF Accept, IInv, FreshAtEntry
  <1>2. TypeOK' /\ FreshAtEntry' /\ ReportContract'
    BY <1>1, ReportUntouched
  <1>3. Progress'
    <2>1. Len(Fields') \in Nat /\ Fields' = Fields
      BY <1>1, CaseType, SameCase DEF IInv, TypeOK
    <2>2. 1 .. at' = {}
      BY <1>1
    <2>3. SelectedBy(at)' = {}
      BY <2>2 DEF SelectedBy
    <2> QED BY <1>1, <2>1, <2>2, <2>3 DEF Progress
  <1> QED BY <1>1, <1>2, <1>3 DEF IInv, Verdict

LEMMA EndFieldsKeeps == IInv /\ EndFields => IInv'
  <1> SUFFICES ASSUME IInv, EndFields PROVE IInv'
    OBVIOUS
  <1>1. /\ TypeOK /\ Progress /\ stage = "fields" /\ ~InFields /\ at' = 0 /\ at \in Nat
        /\ stage' = IF IsFull(errors, MaxErrors) THEN "done" ELSE "extras"
        /\ UNCHANGED <<case, consumed, errors, found, left>>
    BY DEF EndFields, IInv, TypeOK
  <1>2. TypeOK' /\ FreshAtEntry' /\ ReportContract'
    BY <1>1, ReportUntouched
  <1>3. Len(Fields) \in Nat /\ Len(Entries) \in Nat /\ Fields' = Fields /\ Entries' = Entries
    BY <1>1, CaseType, SameCase DEF TypeOK
  <1>4. (errors # Nothing <=> found # << >>) /\ (IsFull(errors, MaxErrors) => found # << >>)
    BY ErrorsMeanFound DEF IInv, TypeOK, ReportContract
  <1>5. CASE IsFull(errors, MaxErrors)
    <2>1. PICK f \in 1 .. at : FieldInvalid(f)
      BY <1>1, <1>4, <1>5 DEF Progress
    <2>2. f \in 1 .. Len(Fields)
      BY <1>1, <1>3 DEF Progress
    <2>3. Invalid' /\ errors' # Nothing
      BY <1>1, <1>4, <1>5, <2>1, <2>2, InvalidMeans, SameCase
    <2> QED BY <1>1, <1>2, <1>5, <2>3 DEF IInv, Progress, Verdict
  <1>6. CASE ~IsFull(errors, MaxErrors)
    <2>1. at = Len(Fields)
      BY <1>1, <1>3, <1>6 DEF InFields, Progress
    <2>2. consumed = SelectedEntries
      BY <1>1, <2>1, SelectedIsSelected DEF Progress
    <2>3. found # << >> <=> \E f \in 1 .. Len(Fields) : FieldInvalid(f)
      BY <1>1, <2>1 DEF Progress
    <2>4. 1 .. at' = {} /\ at' <= Len(Entries)
      BY <1>1, <1>3
    <2>5. (\E f \in 1 .. Len(Fields) : FieldInvalid(f))' <=> \E f \in 1 .. Len(Fields) : FieldInvalid(f)
      BY <1>1, SameCase
    <2>6. SelectedEntries' = SelectedEntries
      BY <1>1, SameCase
    <2>7. Progress'
      BY <1>1, <1>3, <1>6, <2>2, <2>3, <2>4, <2>5, <2>6 DEF Progress
    <2> QED BY <1>1, <1>2, <1>6, <2>7 DEF IInv, Verdict
  <1> QED BY <1>5, <1>6

LEMMA SkipKeeps == IInv /\ SkipConsumed => IInv'
  <1> SUFFICES ASSUME IInv, SkipConsumed PROVE IInv'
    OBVIOUS
  <1>1. /\ TypeOK /\ Progress /\ stage = "extras" /\ at < Len(Entries) /\ at + 1 \in consumed
        /\ at \in Nat /\ at' = at + 1
        /\ UNCHANGED <<case, stage, consumed, errors, found, left>>
    BY DEF SkipConsumed, InExtras, IInv, TypeOK
  <1>2. TypeOK' /\ FreshAtEntry' /\ ReportContract'
    BY <1>1, ReportUntouched
  <1>3. Len(Entries) \in Nat /\ Entries' = Entries /\ Fields' = Fields
    BY <1>1, CaseType, SameCase DEF TypeOK
  <1>4. at + 1 \in SelectedEntries /\ SelectedEntries' = SelectedEntries
    BY <1>1, SameCase DEF Progress
  <1>5. (1 .. at') \ SelectedEntries = (1 .. at) \ SelectedEntries
    <2>1. \A e : e \in 1 .. at' <=> e \in 1 .. at \/ e = at + 1
      BY <1>1
    <2> QED BY <1>4, <2>1
  <1>6. (\E f \in 1 .. Len(Fields) : FieldInvalid(f))' <=> \E f \in 1 .. Len(Fields) : FieldInvalid(f)
    BY <1>1, SameCase
  <1>7. (\E e \in (1 .. at) \ SelectedEntries : EntryInvalid(e))'
          <=> \E e \in (1 .. at) \ SelectedEntries : EntryInvalid(e)
    BY <1>1, <1>4, <1>5, SameCase
  <1>8. Progress'
    BY <1>1, <1>3, <1>4, <1>6, <1>7 DEF Progress
  <1> QED BY <1>1, <1>2, <1>8 DEF IInv, Verdict

LEMMA VisitExtraKeeps == IInv /\ VisitExtra => IInv'
  <1> SUFFICES ASSUME IInv, VisitExtra PROVE IInv'
    OBVIOUS
  <1> DEFINE o == ExtraOutcome
             path == <<<<"field", Entries[at + 1].name>>>>
             e == Collect(errors, path, o, MaxErrors)
             more == \E next \in at + 2 .. Len(Entries) : next \notin consumed
             f == found \o LocateAll(path, o.found)
             l == left \/ o.left
  <1>1. /\ TypeOK /\ Progress /\ ReportContract /\ stage = "extras" /\ at < Len(Entries)
        /\ at + 1 \notin consumed /\ at \in Nat /\ case \in Cases
    BY DEF VisitExtra, InExtras, IInv, TypeOK
  <1>2. /\ errors' = StopAfterErrorCap(e, more, MaxErrors) /\ found' = f
        /\ left' = (l \/ (IsFull(e, MaxErrors) /\ more))
        /\ at' = at + 1 /\ UNCHANGED <<case, stage, consumed>>
    BY DEF VisitExtra
  <1>3. Len(Entries) \in Nat /\ Entries' = Entries /\ Fields' = Fields /\ Entries[at + 1] \in Entry
    <2>1. Len(Entries) \in Nat /\ Entries' = Entries /\ Fields' = Fields
      BY <1>1, <1>2, CaseType, SameCase
    <2>2. at + 1 \in 1 .. Len(Entries)
      BY <1>1, <2>1
    <2> QED BY <1>1, <2>1, <2>2, CaseType
  <1>4. path \in Path /\ Entries[at + 1].outcome \in Outcome(MaxErrors)
    BY <1>3, FieldPath DEF Entry
  <1>5. case.model.extra \in {"ignore", "forbid", "allow"}
    BY <1>1, CasesAssumption DEF Case, Model
  <1>6. o \in Outcome(MaxErrors) /\ (~IsFine(o) <=> EntryInvalid(at + 1))
    <2>1. Fine \in Outcome(MaxErrors) /\ IsFine(Fine)
      BY DEF Fine, Outcome, IsFine
    <2>2. /\ Single([location |-> << >>, code |-> "extra_forbidden"]) \in Outcome(MaxErrors)
          /\ ~IsFine(Single([location |-> << >>, code |-> "extra_forbidden"]))
      BY OwnDetail DEF Single, IsFine
    <2> QED BY <1>4, <1>5, <2>1, <2>2 DEF ExtraOutcome, EntryInvalid
  <1>7. more \in BOOLEAN /\ l \in BOOLEAN /\ IsFull(e, MaxErrors) \in BOOLEAN
    BY DEF IsFull
  <1> HIDE DEF o, path
  <1>8. e \in Report /\ f \in Seq(Detail) /\ Covers(e, f, l, MaxErrors)
    BY <1>1, <1>4, <1>6, CollectCovers, LimitAssumption DEF TypeOK, ReportContract
  <1>9. f # << >> <=> (found # << >> \/ ~IsFine(o))
    BY <1>1, <1>4, <1>6, FoundGrows DEF TypeOK
  <1> HIDE DEF e, f, l, more
  <1>10. errors' \in Report /\ left' \in BOOLEAN /\ ReportContract'
    <2>1. StopAfterErrorCap(e, more, MaxErrors) \in Report
      BY <1>7, <1>8, StopType, LimitAssumption
    <2>2. Covers(StopAfterErrorCap(e, more, MaxErrors), f,
                 l \/ (IsFull(e, MaxErrors) /\ more), MaxErrors)
      BY <1>7, <1>8, StopCovers, LimitAssumption
    <2>3. (l \/ (IsFull(e, MaxErrors) /\ more)) \in BOOLEAN
      BY <1>7
    <2> QED BY <1>2, <2>1, <2>2, <2>3 DEF ReportContract
  <1>11. TypeOK'
    <2>1. at' \in Nat
      BY <1>1, <1>2
    <2> QED BY <1>1, <1>2, <1>3, <1>8, <1>10, <2>1 DEF TypeOK
  <1>12. Progress'
    <2>1. at + 1 \notin SelectedEntries /\ SelectedEntries' = SelectedEntries /\ consumed = SelectedEntries
      BY <1>1, <1>2, SameCase DEF Progress
    <2>2. \A x : x \in 1 .. at' <=> x \in 1 .. at \/ x = at + 1
      BY <1>1, <1>2
    <2>3. (\E x \in (1 .. at') \ SelectedEntries : EntryInvalid(x))
            <=> (\E x \in (1 .. at) \ SelectedEntries : EntryInvalid(x)) \/ EntryInvalid(at + 1)
      BY <2>1, <2>2
    <2>4. found' # << >> <=> \/ \E g \in 1 .. Len(Fields) : FieldInvalid(g)
                             \/ \E x \in (1 .. at') \ SelectedEntries : EntryInvalid(x)
      BY <1>1, <1>2, <1>6, <1>9, <2>3 DEF Progress
    <2>5. (\E g \in 1 .. Len(Fields) : FieldInvalid(g))' <=> \E g \in 1 .. Len(Fields) : FieldInvalid(g)
      BY <1>2, SameCase
    <2>6. (\E x \in (1 .. at) \ SelectedEntries : EntryInvalid(x))'
            <=> \E x \in (1 .. at') \ SelectedEntries : EntryInvalid(x)
      BY <1>2, <2>1, SameCase
    <2>7. at' <= Len(Entries')
      BY <1>1, <1>2, <1>3
    <2> QED BY <1>1, <1>2, <2>1, <2>4, <2>5, <2>6, <2>7 DEF Progress
  <1> QED BY <1>1, <1>2, <1>10, <1>11, <1>12 DEF IInv, FreshAtEntry, Verdict

LEMMA EndExtrasKeeps == IInv /\ EndExtras => IInv'
  <1> SUFFICES ASSUME IInv, EndExtras PROVE IInv'
    OBVIOUS
  <1>1. /\ TypeOK /\ Progress /\ stage = "extras" /\ ~InExtras /\ at \in Nat
        /\ stage' = IF errors = Nothing THEN "build" ELSE "done"
        /\ UNCHANGED <<case, at, consumed, errors, found, left>> /\ case.accepted
    BY DEF EndExtras, IInv, TypeOK, Progress
  <1>2. TypeOK' /\ FreshAtEntry' /\ ReportContract'
    BY <1>1, ReportUntouched
  <1>3. (errors # Nothing <=> found # << >>) /\ (IsFull(errors, MaxErrors) => found # << >>)
    BY ErrorsMeanFound DEF IInv, TypeOK, ReportContract
  <1>4. Len(Entries) \in Nat /\ at <= Len(Entries)
    BY <1>1, CaseType DEF TypeOK, Progress
  <1>5. \A x \in 1 .. at : x \in 1 .. Len(Entries)
    BY <1>1, <1>4
  <1>6. errors # Nothing => Invalid
    BY <1>1, <1>3, <1>5, InvalidMeans DEF Progress
  <1>7. errors = Nothing => ~Invalid
    <2> SUFFICES ASSUME errors = Nothing PROVE ~Invalid
      OBVIOUS
    <2>1. at = Len(Entries)
      BY <1>1, <1>3, <1>4 DEF InExtras
    <2> QED BY <1>1, <1>3, <2>1, InvalidMeans DEF Progress
  <1>8. Invalid' = Invalid
    BY <1>1, SameCase
  <1> QED BY <1>1, <1>2, <1>6, <1>7, <1>8 DEF IInv, Progress, Verdict

LEMMA BuildKeeps == IInv /\ Build => IInv'
  <1> SUFFICES ASSUME IInv, Build PROVE IInv'
    OBVIOUS
  <1>1. /\ stage' = "done" /\ UNCHANGED <<case, at, consumed, errors, found, left>>
        /\ errors = Nothing /\ ~Invalid /\ at' \in Nat
    BY DEF Build, IInv, Progress, TypeOK
  <1>2. TypeOK' /\ FreshAtEntry' /\ ReportContract'
    BY <1>1, ReportUntouched
  <1>3. Invalid' = Invalid
    BY <1>1, SameCase
  <1> QED BY <1>1, <1>2, <1>3 DEF IInv, Progress, Verdict

LEMMA StutterKeeps == IInv /\ UNCHANGED vars => IInv'
  <1> SUFFICES ASSUME IInv, UNCHANGED vars PROVE IInv'
    OBVIOUS
  <1>1. UNCHANGED <<case, stage, at, consumed, errors, found, left>>
    BY DEF vars
  <1>2. /\ Fields' = Fields /\ Entries' = Entries /\ SelectedEntries' = SelectedEntries
        /\ Invalid' = Invalid
        /\ (\E f \in 1 .. Len(Fields) : FieldInvalid(f))' <=> \E f \in 1 .. Len(Fields) : FieldInvalid(f)
        /\ (\E f \in 1 .. at : FieldInvalid(f))' <=> \E f \in 1 .. at : FieldInvalid(f)
        /\ (\E e \in (1 .. at) \ SelectedEntries : EntryInvalid(e))'
             <=> \E e \in (1 .. at) \ SelectedEntries : EntryInvalid(e)
    BY <1>1, SameCase
  <1>3. SelectedBy(at)' = SelectedBy(at)
    BY <1>1, <1>2 DEF SelectedBy, SelectField, EntryNamed, Resolves, ByAliasPath, ByField
  <1>4. TypeOK' /\ FreshAtEntry' /\ ReportContract'
    BY <1>1, <1>2 DEF IInv, TypeOK, FreshAtEntry, ReportContract
  <1>5. Progress'
    BY <1>1, <1>2, <1>3 DEF IInv, Progress
  <1> QED BY <1>1, <1>2, <1>4, <1>5 DEF IInv, Verdict

LEMMA NextIInv == IInv /\ [Next]_vars => IInv'
  <1> SUFFICES ASSUME IInv, [Next]_vars PROVE IInv'
    OBVIOUS
  <1>1. CASE Reject           BY <1>1, RejectKeeps
  <1>2. CASE Accept           BY <1>2, AcceptKeeps
  <1>3. CASE ValidateInput    BY <1>3, ValidateInputKeeps
  <1>4. CASE ValidateDefault  BY <1>4, ValidateDefaultKeeps
  <1>5. CASE RequireField     BY <1>5, RequireKeeps
  <1>6. CASE PassOverField    BY <1>6, PassOverKeeps
  <1>7. CASE EndFields        BY <1>7, EndFieldsKeeps
  <1>8. CASE SkipConsumed     BY <1>8, SkipKeeps
  <1>9. CASE VisitExtra       BY <1>9, VisitExtraKeeps
  <1>10. CASE EndExtras       BY <1>10, EndExtrasKeeps
  <1>11. CASE Build           BY <1>11, BuildKeeps
  <1>12. CASE UNCHANGED vars  BY <1>12, StutterKeeps
  <1> QED
    BY <1>1, <1>2, <1>3, <1>4, <1>5, <1>6, <1>7, <1>8, <1>9, <1>10, <1>11, <1>12 DEF Next

-----------------------------------------------------------------------------
(* The report of a model is the capped prefix of the errors of its visited *)
(* fields and extras, flagged exactly when it is not everything: the count *)
(* of consumed entries tells truthfully whether extras are left unvisited. *)
THEOREM ReportsAreExact == Spec => []ReportContract
  <1>1. IInv => ReportContract
    BY DEF IInv
  <1> QED BY <1>1, InitIInv, NextIInv, PTL DEF Spec

(* A model is valid or not whatever the cap and wherever the loops stop.   *)
THEOREM VerdictIgnoresCap == Spec => []Verdict
  <1>1. IInv => Verdict
    BY DEF IInv
  <1> QED BY <1>1, InitIInv, NextIInv, PTL DEF Spec
-----------------------------------------------------------------------------
(* The extras that are among the first n entries: what the second loop has *)
(* made of them, be they collected, forbidden or ignored.                  *)
RestOf(n) == (1 .. n) \ SelectedEntries

Partition(n) ==
  /\ {extras[i] : i \in 1 .. Len(extras)} =
       IF case.model.extra = "allow" THEN {e \in RestOf(n) : IsFine(Entries[e].outcome)} ELSE {}
  /\ Told =>
       /\ Cardinality(Forbidden) = IF case.model.extra = "forbid" THEN Cardinality(RestOf(n)) ELSE 0
       /\ \A i \in Forbidden : \E e \in RestOf(n) : found[i].location = <<<<"field", Entries[e].name>>>>

(* When a loop has stopped at the cap and nothing was left, no extra is    *)
(* behind its position.                                                    *)
NothingBehind ==
  IsFull(errors, MaxErrors) /\ ~left =>
    /\ (stage = "fields" /\ case.model.extra # "ignore") => consumed = 1 .. Len(Entries)
    /\ stage = "extras" => at + 1 .. Len(Entries) \subseteq consumed

ExtrasInv ==
  /\ extras \in Seq(Nat)
  /\ stage \in {"enter", "fields"} => Partition(0)
  /\ stage = "extras" => Partition(at)
  /\ stage = "build" => Partition(Len(Entries))
  /\ stage = "done" => \E n \in 0 .. Len(Entries) : Partition(n)
  /\ (stage = "done" /\ case.accepted /\ ~left) => Partition(Len(Entries))
  /\ NothingBehind

(* Where the value of a field comes from before the extras have theirs.    *)
Given(f) ==
  IF Selects(f) THEN "input" ELSE IF Fields[f].default = "value" THEN "default" ELSE "none"

Inputs(n) == {f \in 1 .. n : Selects(f)}

(* The first n fields have their values, if none was invalid.              *)
Assigned(n) ==
  /\ values = [f \in 1 .. Len(Fields) |-> IF f <= n THEN Given(f) ELSE "none"]
  /\ count = Cardinality(Inputs(n))

ValuesInv ==
  /\ (stage \in {"enter", "fields"} /\ found = << >>) => Assigned(at)
  /\ (stage \in {"extras", "build"} /\ found = << >>) => Assigned(Len(Fields))
  /\ BuiltModel

-----------------------------------------------------------------------------
(* What is said of fields and entries stays while the case does.           *)
LEMMA SameSelections ==
  ASSUME case' = case
  PROVE  /\ \A n : RestOf(n)' = RestOf(n)
         /\ \A f : (Selects(f)' <=> Selects(f)) /\ Given(f)' = Given(f)
         /\ \A n : Inputs(n)' = Inputs(n)
         /\ Told' <=> Told
  <1>1. Fields' = Fields /\ Entries' = Entries /\ SelectedEntries' = SelectedEntries
    BY SameCase
  <1>2. \A field : SelectField(field)' = SelectField(field)
    BY <1>1 DEF SelectField, EntryNamed, Resolves, ByAliasPath, ByField
  <1>3. \A f : Selects(f)' <=> Selects(f)
    BY <1>1, <1>2 DEF Selects
  <1>4. Told' <=> Told
    BY <1>1 DEF Told
  <1> QED BY <1>1, <1>3, <1>4 DEF RestOf, Given, Inputs

LEMMA StopFull ==
  ASSUME NEW e \in Report, NEW more \in BOOLEAN, NEW L \in Nat
  PROVE  IsFull(StopAfterErrorCap(e, more, L), L) <=> IsFull(e, L)
  BY DEF StopAfterErrorCap, MarkTruncated, IsFull, Report

(* A located error.                                                        *)
LEMMA LocatedDetail ==
  ASSUME NEW path \in Path, NEW d \in Detail
  PROVE  /\ Locate(path, d).code = d.code
         /\ Locate(path, d).location = path \o d.location
         /\ Len(Locate(path, d).location) = Len(path) + Len(d.location)
         /\ Len(path) \in Nat /\ Len(d.location) \in Nat
  <1>1. path \in Seq(Item) /\ d.location \in Seq(Item)
    BY DEF Path, Detail
  <1>2. Locate(path, d).code = d.code /\ Locate(path, d).location = path \o d.location
    BY DEF Locate, Detail
  <1> QED BY <1>1, <1>2

(* What a part reports is about no extra of this model.                    *)
LEMMA ForbiddenKeeps ==
  ASSUME found \in Seq(Detail), NEW path \in Path, path # << >>,
         NEW o \in Outcome(MaxErrors), ForbidsBelow(o),
         found' = found \o LocateAll(path, o.found)
  PROVE  Forbidden' = Forbidden /\ \A i \in Forbidden : found'[i] = found[i]
  <1> DEFINE g == LocateAll(path, o.found)
             n == Len(found)
  <1>1. o.found \in Seq(Detail) /\ n \in Nat /\ Len(o.found) \in Nat
    BY DEF Outcome
  <1>2. g \in Seq(Detail) /\ Len(g) = Len(o.found) /\ \A i \in 1 .. Len(o.found) : g[i] = Locate(path, o.found[i])
    BY <1>1, LocateAllType
  <1> HIDE DEF g
  <1>3. /\ Len(found') = n + Len(o.found)
        /\ \A i \in 1 .. n + Len(o.found) : found'[i] = IF i <= n THEN found[i] ELSE g[i - n]
    <2>1. found' = found \o g
      BY DEF g
    <2>2. /\ Len(found \o g) = Len(found) + Len(g)
          /\ \A i \in 1 .. Len(found) + Len(g) :
               (found \o g)[i] = IF i <= Len(found) THEN found[i] ELSE g[i - Len(found)]
      BY <1>2, ConcatElements
    <2> QED BY <1>2, <2>1, <2>2
  <1>4. ASSUME NEW k \in 1 .. Len(o.found), g[k].code = "extra_forbidden"
        PROVE  Len(g[k].location) # 1
    <2>1. o.found[k] \in Detail /\ g[k] = Locate(path, o.found[k])
      BY <1>1, <1>2
    <2>2. o.found[k].code = "extra_forbidden"
      BY <1>4, <2>1, LocatedDetail
    <2>3. o.found[k].location \in Seq(Item) /\ o.found[k].location # << >> /\ path \in Seq(Item)
      BY <2>1, <2>2 DEF ForbidsBelow, Detail, Path
    <2>4. Len(o.found[k].location) # 0 /\ Len(path) # 0
      BY <2>3, EmptySeq
    <2>5. /\ Len(Locate(path, o.found[k]).location) = Len(path) + Len(o.found[k].location)
          /\ Len(path) \in Nat /\ Len(o.found[k].location) \in Nat
      BY <2>1, LocatedDetail
    <2>6. Len(g[k].location) = Len(path) + Len(o.found[k].location)
      BY <2>1, <2>5
    <2> QED BY <2>4, <2>5, <2>6
  <1>5. \A i \in 1 .. n : i \in 1 .. n + Len(o.found) /\ i <= n
    BY <1>1
  <1>6. \A i \in 1 .. n + Len(o.found) : i \in 1 .. n \/ (~(i <= n) /\ i - n \in 1 .. Len(o.found))
    BY <1>1
  <1>7. \A i \in 1 .. n : found'[i] = found[i]
    BY <1>3, <1>5
  <1>8. \A i \in 1 .. n + Len(o.found) :
          (found'[i].code = "extra_forbidden" /\ Len(found'[i].location) = 1) => i \in 1 .. n
    BY <1>3, <1>4, <1>6
  <1>9. Forbidden' = {i \in 1 .. n + Len(o.found) :
                        found'[i].code = "extra_forbidden" /\ Len(found'[i].location) = 1}
    BY <1>3 DEF Forbidden
  <1>10. Forbidden = {i \in 1 .. n : found[i].code = "extra_forbidden" /\ Len(found[i].location) = 1}
    BY DEF Forbidden
  <1>11. Forbidden' = Forbidden
    BY <1>5, <1>7, <1>8, <1>9, <1>10
  <1> QED BY <1>7, <1>10, <1>11

(* A forbidden extra adds one error, under its name.                       *)
LEMMA ForbiddenAdds ==
  ASSUME found \in Seq(Detail), NEW name \in Name,
         found' = found \o LocateAll(<<<<"field", name>>>>,
                                     Single([location |-> << >>, code |-> "extra_forbidden"]).found)
  PROVE  /\ Forbidden' = Forbidden \cup {Len(found) + 1}
         /\ Cardinality(Forbidden') = Cardinality(Forbidden) + 1
         /\ \A i \in Forbidden : found'[i] = found[i]
         /\ found'[Len(found) + 1].location = <<<<"field", name>>>>
  <1> DEFINE d == [location |-> << >>, code |-> "extra_forbidden"]
             path == <<<<"field", name>>>>
             g == LocateAll(path, <<d>>)
             n == Len(found)
  <1>1. d \in Detail /\ path \in Path /\ n \in Nat
    BY OwnDetail, FieldPath
  <1>2. <<d>> \in Seq(Detail) /\ Len(<<d>>) = 1 /\ <<d>>[1] = d
    BY <1>1
  <1>3. path \o << >> = path /\ Len(path) = 1
    OBVIOUS
  <1>4. g \in Seq(Detail) /\ Len(g) = 1 /\ g[1] = Locate(path, d)
    <2> HIDE DEF d, path, g
    <2>1. /\ LocateAll(path, <<d>>) \in Seq(Detail) /\ Len(LocateAll(path, <<d>>)) = Len(<<d>>)
          /\ \A i \in 1 .. Len(<<d>>) : LocateAll(path, <<d>>)[i] = Locate(path, <<d>>[i])
      BY <1>1, <1>2, LocateAllType
    <2>2. 1 \in 1 .. Len(<<d>>)
      BY <1>2
    <2> QED BY <1>2, <2>1, <2>2 DEF g
  <1>5. g[1].location = path /\ g[1].code = "extra_forbidden"
    <2>1. Locate(path, d).code = d.code /\ Locate(path, d).location = path \o d.location
      <3> HIDE DEF d, path
      <3> QED BY <1>1, LocatedDetail
    <2> QED BY <1>3, <1>4, <2>1
  <1>6. found' = found \o g
    BY DEF Single
  <1> HIDE DEF g, path
  <1>7. /\ Len(found') = n + 1
        /\ \A i \in 1 .. n + 1 : found'[i] = IF i <= n THEN found[i] ELSE g[i - n]
    <2>1. /\ Len(found \o g) = Len(found) + Len(g)
          /\ \A i \in 1 .. Len(found) + Len(g) :
               (found \o g)[i] = IF i <= Len(found) THEN found[i] ELSE g[i - Len(found)]
      BY <1>4, ConcatElements
    <2> QED BY <1>4, <1>6, <2>1
  <1>8. found'[n + 1] = g[1]
    <2>1. n + 1 \in 1 .. n + 1 /\ ~(n + 1 <= n) /\ n + 1 - n = 1
      BY <1>1
    <2> QED BY <1>7, <2>1
  <1>9. \A i \in 1 .. n : i \in 1 .. n + 1 /\ i <= n
    BY <1>1
  <1>10. \A i \in 1 .. n + 1 : i \in 1 .. n \/ i = n + 1
    BY <1>1
  <1>11. \A i \in 1 .. n : found'[i] = found[i]
    BY <1>7, <1>9
  <1>12. Forbidden' = {i \in 1 .. n + 1 :
                        found'[i].code = "extra_forbidden" /\ Len(found'[i].location) = 1}
    BY <1>7 DEF Forbidden
  <1>13. Forbidden = {i \in 1 .. n : found[i].code = "extra_forbidden" /\ Len(found[i].location) = 1}
    BY DEF Forbidden
  <1>14. n + 1 \in 1 .. n + 1 /\ n + 1 \notin 1 .. n
    BY <1>1
  <1>15. Forbidden' = Forbidden \cup {n + 1} /\ n + 1 \notin Forbidden
    BY <1>3, <1>5, <1>8, <1>9, <1>10, <1>11, <1>12, <1>13, <1>14
  <1>16. IsFiniteSet(Forbidden)
    <2>1. IsFiniteSet(1 .. n) /\ Forbidden \in SUBSET (1 .. n)
      BY <1>1, <1>13, FS_Interval
    <2> QED BY <2>1, FS_Subset
  <1>17. Cardinality(Forbidden') = Cardinality(Forbidden) + 1
    BY <1>15, <1>16, FS_AddElement
  <1> QED BY <1>5, <1>8, <1>11, <1>13, <1>15, <1>17 DEF path

(* Extras and errors about them that stay are those of the same entries.   *)
LEMMA PartitionStays ==
  ASSUME case' = case, extras' = extras,
         Told => Forbidden' = Forbidden /\ \A i \in Forbidden : found'[i] = found[i], NEW n
  PROVE  Partition(n) => Partition(n)'
  <1>1. RestOf(n)' = RestOf(n) /\ Entries' = Entries /\ (Told' <=> Told)
    BY SameSelections, SameCase
  <1> QED BY <1>1 DEF Partition

LEMMA SameRest ==
  ASSUME NEW n, NEW m, RestOf(n) = RestOf(m)
  PROVE  Partition(n) => Partition(m)
  BY DEF Partition

(* With extras ignored there is none to speak of.                          *)
LEMMA IgnoredRest ==
  ASSUME case.model.extra = "ignore", found \in Seq(Detail), NEW n, NEW m
  PROVE  Partition(n) => Partition(m)
  <1> SUFFICES ASSUME Partition(n) PROVE Partition(m)
    OBVIOUS
  <1>1. (Told => Cardinality(Forbidden) = 0) /\ {extras[i] : i \in 1 .. Len(extras)} = {}
    BY DEF Partition
  <1>2. IsFiniteSet(Forbidden)
    <2>1. IsFiniteSet(1 .. Len(found)) /\ Forbidden \in SUBSET (1 .. Len(found))
      BY FS_Interval DEF Forbidden
    <2> QED BY <2>1, FS_Subset
  <1>3. Told => Forbidden = {}
    BY <1>1, <1>2, FS_EmptySet
  <1> QED BY <1>1, <1>3 DEF Partition

(* An entry that is selected is no extra, and one that is not is.          *)
LEMMA NextRest ==
  ASSUME NEW n \in Nat
  PROVE  RestOf(n + 1) = IF n + 1 \in SelectedEntries THEN RestOf(n) ELSE RestOf(n) \cup {n + 1}
  <1>1. \A e : e \in 1 .. n + 1 <=> e \in 1 .. n \/ e = n + 1
    OBVIOUS
  <1> QED BY <1>1 DEF RestOf

(* The end of an iteration over a field leaves the extras alone.           *)
LEMMA EndFieldExtras ==
  ASSUME IInv, ExtrasInv, InFields, NEW path \in Path, path # << >>,
         NEW o \in Outcome(MaxErrors), Told => ForbidsBelow(o), EndField(path, o)
  PROVE  ExtrasInv'
  <1> DEFINE e == Collect(errors, path, o, MaxErrors)
  <1>1. /\ TypeOK /\ ReportContract /\ stage = "fields" /\ Partition(0) /\ extras \in Seq(Nat)
    BY DEF IInv, InFields, ExtrasInv
  <1>2. /\ UNCHANGED <<case, stage, extras>>
        /\ found' = found \o LocateAll(path, o.found)
        /\ errors' = StopAfterErrorCap(e, MoreFields \/ MoreExtras, MaxErrors)
        /\ left' = (left \/ o.left \/ (IsFull(e, MaxErrors) /\ (MoreFields \/
                     (case.model.extra # "ignore" /\ consumed' # 1 .. Len(Entries)))))
    BY DEF EndField
  <1>3. e \in Report
    BY <1>1, CollectCovers, LimitAssumption DEF TypeOK, ReportContract
  <1> HIDE DEF e
  <1>4. Told => Forbidden' = Forbidden /\ \A i \in Forbidden : found'[i] = found[i]
    BY <1>1, <1>2, ForbiddenKeeps DEF TypeOK
  <1>5. Partition(0)'
    BY <1>1, <1>2, <1>4, PartitionStays
  <1>6. IsFull(errors, MaxErrors)' <=> IsFull(e, MaxErrors)
    <2>1. (MoreFields \/ MoreExtras) \in BOOLEAN
      BY DEF MoreFields, MoreExtras
    <2>2. IsFull(StopAfterErrorCap(e, MoreFields \/ MoreExtras, MaxErrors), MaxErrors)
            <=> IsFull(e, MaxErrors)
      BY <1>3, <2>1, StopFull, LimitAssumption
    <2> QED BY <1>2, <2>2 DEF IsFull
  <1>7. NothingBehind'
    BY <1>1, <1>2, <1>6 DEF NothingBehind, Entries
  <1> QED BY <1>1, <1>2, <1>5, <1>7 DEF ExtrasInv

(* The loop's own outcomes for fields say nothing of extras.               *)
LEMMA PartsForbidBelow ==
  /\ ForbidsBelow(Fine)
  /\ ForbidsBelow(Single([location |-> << >>, code |-> "missing"]))
  <1>1. ForbidsBelow(Fine)
    <2>1. Len(Fine.found) = 0
      BY DEF Fine
    <2> QED BY <2>1 DEF ForbidsBelow
  <1>2. ForbidsBelow(Single([location |-> << >>, code |-> "missing"]))
    <2> DEFINE d == [location |-> << >>, code |-> "missing"]
    <2>1. Single(d).found = <<d>> /\ d.code # "extra_forbidden"
      BY DEF Single
    <2>2. \A i \in 1 .. 1 : <<d>>[i] = d
      OBVIOUS
    <2> HIDE DEF d
    <2>3. Len(<<d>>) = 1
      OBVIOUS
    <2>4. ForbidsBelow(Single(d))
      BY <2>1, <2>2, <2>3 DEF ForbidsBelow
    <2> QED BY <2>4 DEF d
  <1> QED BY <1>1, <1>2

(* A value that was found has a path.                                      *)
LEMMA PathsNotEmpty ==
  ASSUME NEW field
  PROVE  /\ ByField(field) # << >> /\ MissingPath(field) # << >>
         /\ SelectField(field).entry # 0 => SelectField(field).path # << >>
  <1>1. \A x, y : <<x>> # << >> /\ <<x, y>> # << >>
    OBVIOUS
  <1>2. ByField(field) # << >> /\ MissingPath(field) # << >> /\ \A alias : ByAliasPath(field, alias) # << >>
    BY <1>1 DEF ByField, MissingPath, ByAliasPath
  <1> DEFINE resolving == {i \in 1 .. Len(field.aliases) : Resolves(field.aliases[i])}
             first == CHOOSE i \in resolving : \A j \in resolving : i <= j
  <1>3. CASE resolving # {}
    <2>1. SelectField(field) = [entry |-> EntryNamed(field.aliases[first].top),
                                path |-> ByAliasPath(field, field.aliases[first])]
      BY <1>3, Zenon DEF SelectField
    <2> HIDE DEF first
    <2> QED BY <1>2, <2>1
  <1>4. CASE resolving = {} /\ (field.aliases = << >> \/ case.model.byName)
    <2>1. SelectField(field) = [entry |-> EntryNamed(field.name), path |-> ByField(field)]
      BY <1>4, Zenon DEF SelectField
    <2> QED BY <1>2, <2>1
  <1>5. CASE resolving = {} /\ ~(field.aliases = << >> \/ case.model.byName)
    <2>1. SelectField(field) = [entry |-> 0, path |-> << >>]
      BY <1>5, Zenon DEF SelectField
    <2> QED BY <1>2, <2>1
  <1> QED BY <1>3, <1>4, <1>5

(* The steps of the first loop.                                            *)
LEMMA FieldsExtras ==
  ASSUME IInv, ExtrasInv, ValidateInput \/ ValidateDefault \/ RequireField \/ PassOverField
  PROVE  ExtrasInv'
  <1>1. InFields
    BY DEF ValidateInput, ValidateDefault, RequireField, PassOverField
  <1>2. /\ Visited.outcome \in Outcome(MaxErrors) /\ Visited.ofDefault \in Outcome(MaxErrors)
        /\ ByField(Visited) \in Path /\ MissingPath(Visited) \in Path
        /\ Selected.entry # 0 => Selected.path \in Path
        /\ Fine \in Outcome(MaxErrors)
        /\ Single([location |-> << >>, code |-> "missing"]) \in Outcome(MaxErrors)
    <2>1. Fine \in Outcome(MaxErrors)
      BY DEF Fine, Outcome
    <2> QED BY <1>1, <2>1, VisitedField, OwnDetail
  <1>3. Told => ForbidsBelow(Visited.outcome) /\ ForbidsBelow(Visited.ofDefault)
    <2>1. at + 1 \in 1 .. Len(Fields) /\ Visited = Fields[at + 1]
      BY <1>1, CaseType DEF InFields, IInv, TypeOK, Visited
    <2> QED BY <2>1 DEF Told
  <1>4. /\ ByField(Visited) # << >> /\ MissingPath(Visited) # << >>
        /\ Selected.entry # 0 => Selected.path # << >>
    BY PathsNotEmpty DEF Selected
  <1>5. CASE ValidateInput
    <2>1. Selected.entry # 0 /\ EndField(Selected.path, Visited.outcome)
      BY <1>5 DEF ValidateInput
    <2> QED BY <1>1, <1>2, <1>3, <1>4, <2>1, EndFieldExtras
  <1>6. CASE ValidateDefault
    <2>1. EndField(ByField(Visited), Visited.ofDefault)
      BY <1>6 DEF ValidateDefault
    <2> QED BY <1>1, <1>2, <1>3, <1>4, <2>1, EndFieldExtras
  <1>7. CASE RequireField
    <2>1. EndField(MissingPath(Visited), Single([location |-> << >>, code |-> "missing"]))
      BY <1>7 DEF RequireField
    <2> QED BY <1>1, <1>2, <1>4, <2>1, EndFieldExtras, PartsForbidBelow
  <1>8. CASE PassOverField
    <2>1. EndField(ByField(Visited), Fine)
      BY <1>8 DEF PassOverField
    <2> QED BY <1>1, <1>2, <1>4, <2>1, EndFieldExtras, PartsForbidBelow
  <1> QED BY <1>5, <1>6, <1>7, <1>8

LEMMA NoneForbidden ==
  ASSUME found = << >>
  PROVE  Forbidden = {}
  <1>1. 1 .. Len(found) = {}
    OBVIOUS
  <1> QED BY <1>1 DEF Forbidden

LEMMA InitExtras == Init => ExtrasInv
  <1> SUFFICES ASSUME Init PROVE ExtrasInv
    OBVIOUS
  <1>1. extras = << >> /\ found = << >> /\ stage = "enter" /\ errors = Nothing
    BY DEF Init
  <1>2. Forbidden = {} /\ Cardinality(Forbidden) = 0
    BY <1>1, NoneForbidden, FS_EmptySet
  <1>3. RestOf(0) = {} /\ Cardinality(RestOf(0)) = 0
    BY FS_EmptySet DEF RestOf
  <1>4. {extras[i] : i \in 1 .. Len(extras)} = {}
    BY <1>1
  <1>5. Partition(0)
    BY <1>2, <1>3, <1>4 DEF Partition
  <1>6. NothingBehind
    BY <1>1 DEF NothingBehind
  <1> QED BY <1>1, <1>5, <1>6 DEF ExtrasInv

LEMMA RejectExtras == IInv /\ ExtrasInv /\ Reject => ExtrasInv'
  <1> SUFFICES ASSUME IInv, ExtrasInv, Reject PROVE ExtrasInv'
    OBVIOUS
  <1> DEFINE d == [location |-> << >>, code |-> "model_type"]
  <1>1. /\ stage = "enter" /\ ~case.accepted /\ stage' = "done" /\ found' = <<d>>
        /\ UNCHANGED <<case, extras>> /\ found = << >> /\ Partition(0) /\ extras \in Seq(Nat)
    BY DEF Reject, IInv, FreshAtEntry, ExtrasInv
  <1>2. d.code # "extra_forbidden"
    OBVIOUS
  <1> HIDE DEF d
  <1>3. \A i \in 1 .. Len(found') : found'[i] = d
    <2>1. Len(<<d>>) = 1 /\ \A i \in 1 .. 1 : <<d>>[i] = d
      OBVIOUS
    <2> QED BY <1>1, <2>1
  <1>4. Forbidden = {} /\ Forbidden' = {}
    BY <1>1, <1>2, <1>3, NoneForbidden DEF Forbidden
  <1>5. Partition(0)'
    BY <1>1, <1>4, PartitionStays
  <1>6. 0 \in 0 .. Len(Entries)'
    BY <1>1, CaseType, SameCase DEF IInv, TypeOK
  <1>7. (\E n \in 0 .. Len(Entries) : Partition(n))'
    <2>1. \E n \in 0 .. Len(Entries)' : Partition(n)'
      BY <1>5, <1>6
    <2> QED BY <2>1
  <1> QED BY <1>1, <1>7 DEF ExtrasInv, NothingBehind

LEMMA AcceptExtras == IInv /\ ExtrasInv /\ Accept => ExtrasInv'
  <1> SUFFICES ASSUME IInv, ExtrasInv, Accept PROVE ExtrasInv'
    OBVIOUS
  <1>1. /\ stage = "enter" /\ stage' = "fields" /\ Partition(0) /\ extras \in Seq(Nat)
        /\ UNCHANGED <<case, extras, errors, found, left>> /\ errors = Nothing
    BY DEF Accept, IInv, FreshAtEntry, ExtrasInv
  <1>2. Forbidden' = Forbidden /\ \A i \in Forbidden : found'[i] = found[i]
    BY <1>1 DEF Forbidden
  <1>3. Partition(0)'
    BY <1>1, <1>2, PartitionStays
  <1>4. ~IsFull(errors, MaxErrors)'
    <2>1. Nothing.details = << >> /\ Len(<< >>) = 0
      BY DEF Nothing
    <2> QED BY <1>1, <2>1, LimitAssumption DEF IsFull
  <1> QED BY <1>1, <1>3, <1>4 DEF ExtrasInv, NothingBehind

(* A loop that stops at the cap with nothing left has seen every extra.    *)
LEMMA EndFieldsExtras == IInv /\ ExtrasInv /\ EndFields => ExtrasInv'
  <1> SUFFICES ASSUME IInv, ExtrasInv, EndFields PROVE ExtrasInv'
    OBVIOUS
  <1>1. /\ stage = "fields" /\ Partition(0) /\ extras \in Seq(Nat) /\ at' = 0
        /\ stage' = IF IsFull(errors, MaxErrors) THEN "done" ELSE "extras"
        /\ UNCHANGED <<case, consumed, extras, errors, found, left>>
        /\ TypeOK /\ Progress /\ NothingBehind
    BY DEF EndFields, IInv, ExtrasInv
  <1>2. Forbidden' = Forbidden /\ \A i \in Forbidden : found'[i] = found[i]
    BY <1>1 DEF Forbidden
  <1>3. Len(Entries) \in Nat /\ Entries' = Entries /\ Len(Fields) \in Nat
    BY <1>1, CaseType, SameCase DEF TypeOK
  <1>4. Partition(0)'
    BY <1>1, <1>2, PartitionStays
  <1>5. CASE ~IsFull(errors, MaxErrors)
    <2>1. Partition(at)'
      BY <1>1, <1>4
    <2>2. ~IsFull(errors, MaxErrors)'
      BY <1>1, <1>5 DEF IsFull
    <2> QED BY <1>1, <1>5, <2>1, <2>2 DEF ExtrasInv, NothingBehind
  <1>6. CASE IsFull(errors, MaxErrors)
    <2>1. (\E n \in 0 .. Len(Entries) : Partition(n))'
      <3>1. \E n \in 0 .. Len(Entries)' : Partition(n)'
        BY <1>3, <1>4
      <3> QED BY <3>1
    <2>2. ~left => Partition(Len(Entries))
      <3> SUFFICES ASSUME ~left PROVE Partition(Len(Entries))
        OBVIOUS
      <3>1. CASE case.model.extra = "ignore"
        BY <1>1, <3>1, IgnoredRest DEF TypeOK
      <3>2. CASE case.model.extra # "ignore"
        <4>1. consumed = 1 .. Len(Entries) /\ consumed = SelectedBy(at) /\ at <= Len(Fields) /\ at \in Nat
          BY <1>1, <1>6, <3>2 DEF NothingBehind, Progress, TypeOK
        <4>2. SelectedBy(at) \subseteq SelectedEntries
          <5>1. \A g \in 1 .. at : g \in 1 .. Len(Fields)
            BY <1>3, <4>1
          <5> QED BY <5>1 DEF SelectedBy, SelectedEntries
        <4>3. RestOf(Len(Entries)) = {} /\ RestOf(0) = {}
          BY <4>1, <4>2 DEF RestOf
        <4> QED BY <1>1, <4>3, SameRest
      <3> QED BY <3>1, <3>2
    <2>3. ~left' => Partition(Len(Entries))'
      <3> SUFFICES ASSUME ~left' PROVE Partition(Len(Entries))'
        OBVIOUS
      <3>1. PICK n : n = Len(Entries)
        OBVIOUS
      <3>2. Partition(n)
        BY <1>1, <2>2, <3>1
      <3>3. Partition(n)'
        BY <1>1, <1>2, <3>2, PartitionStays
      <3> QED BY <1>3, <3>1, <3>3 DEF Partition, RestOf
    <2> QED BY <1>1, <1>6, <2>1, <2>3 DEF ExtrasInv, NothingBehind
  <1> QED BY <1>5, <1>6

LEMMA SkipExtras == IInv /\ ExtrasInv /\ SkipConsumed => ExtrasInv'
  <1> SUFFICES ASSUME IInv, ExtrasInv, SkipConsumed PROVE ExtrasInv'
    OBVIOUS
  <1>1. /\ stage = "extras" /\ Partition(at) /\ extras \in Seq(Nat) /\ at' = at + 1 /\ at \in Nat
        /\ UNCHANGED <<case, stage, consumed, extras, errors, found, left>>
        /\ at + 1 \in SelectedEntries /\ ~IsFull(errors, MaxErrors)
    BY DEF SkipConsumed, InExtras, IInv, ExtrasInv, Progress, TypeOK
  <1>2. Forbidden' = Forbidden /\ \A i \in Forbidden : found'[i] = found[i]
    BY <1>1 DEF Forbidden
  <1>3. Partition(at + 1)
    BY <1>1, NextRest, SameRest
  <1>4. PICK n : n = at + 1
    OBVIOUS
  <1>5. Partition(n)'
    BY <1>1, <1>2, <1>3, <1>4, PartitionStays
  <1>6. Partition(at)'
    BY <1>1, <1>4, <1>5 DEF Partition, RestOf
  <1>7. ~IsFull(errors, MaxErrors)'
    BY <1>1 DEF IsFull
  <1> QED BY <1>1, <1>6, <1>7 DEF ExtrasInv, NothingBehind

LEMMA EndExtrasExtras == IInv /\ ExtrasInv /\ EndExtras => ExtrasInv'
  <1> SUFFICES ASSUME IInv, ExtrasInv, EndExtras PROVE ExtrasInv'
    OBVIOUS
  <1>1. /\ stage = "extras" /\ ~InExtras /\ Partition(at) /\ extras \in Seq(Nat) /\ at \in Nat
        /\ stage' = IF errors = Nothing THEN "build" ELSE "done"
        /\ UNCHANGED <<case, extras, errors, found, left>>
        /\ TypeOK /\ Progress /\ NothingBehind
    BY DEF EndExtras, IInv, ExtrasInv, TypeOK
  <1>2. Forbidden' = Forbidden /\ \A i \in Forbidden : found'[i] = found[i]
    BY <1>1 DEF Forbidden
  <1>3. Len(Entries) \in Nat /\ Entries' = Entries /\ at <= Len(Entries) /\ consumed = SelectedEntries
    BY <1>1, CaseType, SameCase DEF TypeOK, Progress
  <1>4. ~left => Partition(Len(Entries))
    <2>1. CASE ~IsFull(errors, MaxErrors)
      <3>1. at = Len(Entries)
        BY <1>1, <1>3, <2>1 DEF InExtras
      <3> QED BY <1>1, <3>1
    <2>2. CASE IsFull(errors, MaxErrors) /\ ~left
      <3>1. at + 1 .. Len(Entries) \subseteq SelectedEntries
        BY <1>1, <1>3, <2>2 DEF NothingBehind
      <3>2. \A x : x \in 1 .. Len(Entries) <=> x \in 1 .. at \/ x \in at + 1 .. Len(Entries)
        BY <1>1, <1>3
      <3>3. RestOf(at) = RestOf(Len(Entries))
        BY <3>1, <3>2 DEF RestOf
      <3> QED BY <1>1, <3>3, SameRest
    <2> QED BY <2>1, <2>2
  <1>5. errors = Nothing => ~left
    <2>1. ASSUME errors = Nothing PROVE ~left
      <3>1. errors.truncated = FALSE
        BY <2>1 DEF Nothing
      <3>2. Len(found) = 0
        <4>1. found = << >>
          BY <1>1, <2>1, ErrorsMeanFound DEF IInv, TypeOK, ReportContract
        <4> QED BY <4>1
      <3> QED BY <1>1, <3>1, <3>2 DEF IInv, ReportContract, Covers, TypeOK
    <2> QED BY <2>1
  <1>6. ASSUME NEW n, Partition(n) PROVE Partition(n)'
    BY <1>1, <1>2, <1>6, PartitionStays
  <1>7. ~left => Partition(Len(Entries))'
    <2> SUFFICES ASSUME ~left PROVE Partition(Len(Entries))'
      OBVIOUS
    <2>1. PICK n : n = Len(Entries)
      OBVIOUS
    <2>2. Partition(n)'
      BY <1>4, <1>6, <2>1
    <2> QED BY <1>3, <2>1, <2>2 DEF Partition, RestOf
  <1>8. (\E n \in 0 .. Len(Entries) : Partition(n))'
    <2>1. PICK n \in 0 .. Len(Entries) : n = at
      BY <1>1, <1>3
    <2>2. Partition(n)'
      BY <1>1, <1>6, <2>1
    <2>3. \E k \in 0 .. Len(Entries)' : Partition(k)'
      BY <1>3, <2>2
    <2> QED BY <2>3
  <1> QED BY <1>1, <1>5, <1>7, <1>8 DEF ExtrasInv, NothingBehind

LEMMA BuildExtras == IInv /\ ExtrasInv /\ Build => ExtrasInv'
  <1> SUFFICES ASSUME IInv, ExtrasInv, Build PROVE ExtrasInv'
    OBVIOUS
  <1>1. /\ stage = "build" /\ stage' = "done" /\ Partition(Len(Entries)) /\ extras \in Seq(Nat)
        /\ UNCHANGED <<case, extras, errors, found, left>> /\ case \in Cases
    BY DEF Build, IInv, ExtrasInv, TypeOK
  <1>2. Forbidden' = Forbidden /\ \A i \in Forbidden : found'[i] = found[i]
    BY <1>1 DEF Forbidden
  <1>3. Len(Entries) \in Nat /\ Entries' = Entries
    BY <1>1, CaseType, SameCase
  <1>4. PICK n \in 0 .. Len(Entries) : n = Len(Entries)
    BY <1>3
  <1>5. Partition(n)'
    BY <1>1, <1>2, <1>4, PartitionStays
  <1>6. Partition(Len(Entries))'
    BY <1>3, <1>4, <1>5 DEF Partition, RestOf
  <1>7. (\E k \in 0 .. Len(Entries) : Partition(k))'
    <2>1. \E k \in 0 .. Len(Entries)' : Partition(k)'
      BY <1>3, <1>5
    <2> QED BY <2>1
  <1> QED BY <1>1, <1>6, <1>7 DEF ExtrasInv, NothingBehind

LEMMA StutterExtras == ExtrasInv /\ UNCHANGED vars => ExtrasInv'
  <1> SUFFICES ASSUME ExtrasInv, UNCHANGED vars PROVE ExtrasInv'
    OBVIOUS
  <1>1. UNCHANGED <<case, stage, at, consumed, extras, errors, found, left>>
    BY DEF vars
  <1>2. Entries' = Entries /\ SelectedEntries' = SelectedEntries /\ Forbidden' = Forbidden
    BY <1>1, SameCase DEF Forbidden
  <1>3. \A i \in Forbidden : found'[i] = found[i]
    BY <1>1
  <1>4. ASSUME NEW n, Partition(n) PROVE Partition(n)'
    BY <1>1, <1>2, <1>3, <1>4, PartitionStays
  <1>5. NothingBehind'
    BY <1>1, <1>2 DEF ExtrasInv, NothingBehind
  <1>6. (stage = "done" => \E n \in 0 .. Len(Entries) : Partition(n))'
    <2>1. stage = "done" => \E n \in 0 .. Len(Entries) : Partition(n)
      BY DEF ExtrasInv
    <2>2. stage = "done" => \E n \in 0 .. Len(Entries)' : Partition(n)'
      BY <1>2, <1>4, <2>1
    <2> QED BY <1>1, <2>2
  <1>7. Partition(0) => Partition(0)'
    BY <1>4
  <1>8. Partition(at) => Partition(at)'
    <2>1. PICK n : n = at
      OBVIOUS
    <2>2. Partition(at) => Partition(n)'
      BY <1>4, <2>1
    <2> QED BY <1>1, <2>1, <2>2 DEF Partition, RestOf
  <1>9. Partition(Len(Entries)) => Partition(Len(Entries))'
    <2>1. PICK n : n = Len(Entries)
      OBVIOUS
    <2>2. Partition(Len(Entries)) => Partition(n)'
      BY <1>4, <2>1
    <2> QED BY <1>2, <2>1, <2>2 DEF Partition, RestOf
  <1>10. extras' \in Seq(Nat)
    BY <1>1 DEF ExtrasInv
  <1> QED BY <1>1, <1>5, <1>6, <1>7, <1>8, <1>9, <1>10 DEF ExtrasInv

(* An iteration over an entry no field consumed: it becomes an extra, an   *)
(* error about one, or nothing.                                            *)
LEMMA VisitExtras == IInv /\ ExtrasInv /\ VisitExtra => ExtrasInv'
  <1> SUFFICES ASSUME IInv, ExtrasInv, VisitExtra PROVE ExtrasInv'
    OBVIOUS
  <1> DEFINE o == ExtraOutcome
             name == Entries[at + 1].name
             path == <<<<"field", name>>>>
             e == Collect(errors, path, o, MaxErrors)
             more == \E next \in at + 2 .. Len(Entries) : next \notin consumed
             n == at + 1
  <1>1. /\ TypeOK /\ Progress /\ ReportContract /\ stage = "extras" /\ at < Len(Entries)
        /\ n \notin consumed /\ at \in Nat /\ case \in Cases /\ Partition(at) /\ extras \in Seq(Nat)
    BY DEF VisitExtra, InExtras, IInv, TypeOK, ExtrasInv
  <1>2. /\ extras' = IF case.model.extra = "allow" /\ IsFine(o) THEN Append(extras, n) ELSE extras
        /\ errors' = StopAfterErrorCap(e, more, MaxErrors)
        /\ found' = found \o LocateAll(path, o.found)
        /\ left' = (left \/ o.left \/ (IsFull(e, MaxErrors) /\ more))
        /\ at' = n /\ UNCHANGED <<case, stage, consumed>>
    BY DEF VisitExtra
  <1>3. n \in 1 .. Len(Entries) /\ Len(Entries) \in Nat /\ Entries' = Entries /\ Entries[n] \in Entry
    <2>1. Len(Entries) \in Nat /\ Entries' = Entries
      BY <1>1, <1>2, CaseType, SameCase
    <2>2. n \in 1 .. Len(Entries)
      BY <1>1, <2>1
    <2> QED BY <1>1, <2>1, <2>2, CaseType
  <1>4. name \in Name /\ path \in Path /\ path # << >> /\ Entries[n].outcome \in Outcome(MaxErrors)
    <2>1. name \in Name /\ Entries[n].outcome \in Outcome(MaxErrors)
      BY <1>3 DEF Entry
    <2> QED BY <2>1, FieldPath
  <1>5. case.model.extra \in {"ignore", "forbid", "allow"}
    BY <1>1, CasesAssumption DEF Case, Model
  <1>6. /\ Fine \in Outcome(MaxErrors)
        /\ Single([location |-> << >>, code |-> "extra_forbidden"]) \in Outcome(MaxErrors)
    <2>1. Fine \in Outcome(MaxErrors)
      BY DEF Fine, Outcome
    <2> QED BY <2>1, OwnDetail
  <1>7. /\ case.model.extra = "ignore" => o = Fine
        /\ case.model.extra = "forbid" => o = Single([location |-> << >>, code |-> "extra_forbidden"])
        /\ case.model.extra = "allow" => o = Entries[n].outcome
    BY DEF ExtraOutcome
  <1>8. o \in Outcome(MaxErrors)
    BY <1>4, <1>5, <1>6, <1>7
  <1>9. RestOf(n) = RestOf(at) \cup {n} /\ n \notin RestOf(at)
    <2>1. n \notin SelectedEntries
      BY <1>1 DEF Progress
    <2>2. n \notin 1 .. at
      BY <1>1
    <2> QED BY <1>1, <2>1, <2>2, NextRest DEF RestOf
  <1> HIDE DEF o, name, path, e, more
  <1>10. e \in Report
    BY <1>1, <1>4, <1>8, CollectCovers, LimitAssumption DEF TypeOK, ReportContract, e
  <1>11. IsFull(errors, MaxErrors)' <=> IsFull(e, MaxErrors)
    <2>1. more \in BOOLEAN
      BY DEF more
    <2>2. IsFull(StopAfterErrorCap(e, more, MaxErrors), MaxErrors) <=> IsFull(e, MaxErrors)
      BY <1>10, <2>1, StopFull, LimitAssumption
    <2> QED BY <1>2, <2>2 DEF IsFull
  <1>12. NothingBehind'
    <2> SUFFICES ASSUME IsFull(e, MaxErrors), ~left' PROVE (at + 1 .. Len(Entries) \subseteq consumed)'
      BY <1>1, <1>2, <1>11 DEF NothingBehind
    <2>1. ~more
      BY <1>2
    <2>2. \A x \in n + 1 .. Len(Entries) : x \in at + 2 .. Len(Entries)
      BY <1>1, <1>3
    <2>3. n + 1 .. Len(Entries) \subseteq consumed
      BY <2>1, <2>2 DEF more
    <2> QED BY <1>2, <1>3, <2>3
  <1>13. Partition(at)'
    <2>1. CASE case.model.extra = "ignore"
      <3>1. ForbidsBelow(o)
        BY <1>7, <2>1, PartsForbidBelow
      <3>2. Forbidden' = Forbidden /\ \A i \in Forbidden : found'[i] = found[i]
        BY <1>1, <1>2, <1>4, <1>8, <3>1, ForbiddenKeeps DEF TypeOK
      <3>3. Partition(n)
        BY <1>1, <2>1, IgnoredRest DEF TypeOK
      <3>4. PICK k : k = n
        OBVIOUS
      <3>5. extras' = extras
        BY <1>2, <2>1
      <3>6. Partition(k)'
        BY <1>2, <3>2, <3>3, <3>4, <3>5, PartitionStays
      <3> QED BY <1>2, <3>4, <3>6 DEF Partition, RestOf
    <2>2. CASE case.model.extra = "forbid"
      <3>1. found' = found \o LocateAll(<<<<"field", name>>>>,
                                Single([location |-> << >>, code |-> "extra_forbidden"]).found)
        BY <1>2, <1>7, <2>2 DEF path
      <3>2. /\ Forbidden' = Forbidden \cup {Len(found) + 1}
            /\ Cardinality(Forbidden') = Cardinality(Forbidden) + 1
            /\ \A i \in Forbidden : found'[i] = found[i]
            /\ found'[Len(found) + 1].location = <<<<"field", name>>>>
        BY <1>1, <1>4, <3>1, ForbiddenAdds DEF TypeOK
      <3>3. Cardinality(RestOf(n)) = Cardinality(RestOf(at)) + 1
        <4>1. IsFiniteSet(1 .. at) /\ RestOf(at) \in SUBSET (1 .. at)
          BY <1>1, FS_Interval DEF RestOf
        <4>2. IsFiniteSet(RestOf(at))
          BY <4>1, FS_Subset
        <4> QED BY <1>9, <4>2, FS_AddElement
      <3>4. extras' = extras
        BY <1>2, <2>2
      <3>5. /\ {extras[i] : i \in 1 .. Len(extras)} = {}
            /\ Told => Cardinality(Forbidden) = Cardinality(RestOf(at))
            /\ Told => \A i \in Forbidden :
                         \E x \in RestOf(at) : found[i].location = <<<<"field", Entries[x].name>>>>
        BY <1>1, <2>2 DEF Partition
      <3>6. Told => \A i \in Forbidden' :
                     \E x \in RestOf(n) : found'[i].location = <<<<"field", Entries[x].name>>>>
        <4> SUFFICES ASSUME Told, NEW i \in Forbidden'
                     PROVE  \E x \in RestOf(n) : found'[i].location = <<<<"field", Entries[x].name>>>>
          OBVIOUS
        <4>1. CASE i \in Forbidden
          BY <1>9, <3>2, <3>5, <4>1
        <4>2. CASE i = Len(found) + 1
          BY <1>9, <3>2, <4>2 DEF name
        <4> QED BY <3>2, <4>1, <4>2
      <3>7. Told => Cardinality(Forbidden') = Cardinality(RestOf(n))
        BY <3>2, <3>3, <3>5
      <3>8. RestOf(at)' = RestOf(n) /\ (Told' <=> Told)
        BY <1>2, SameCase, SameSelections DEF RestOf
      <3> QED BY <1>2, <1>3, <2>2, <3>4, <3>5, <3>6, <3>7, <3>8 DEF Partition
    <2>3. CASE case.model.extra = "allow"
      <3>1. o = Entries[n].outcome /\ (Told => ForbidsBelow(o))
        BY <1>3, <1>7, <2>3 DEF Told
      <3>2. Told => Forbidden' = Forbidden /\ \A i \in Forbidden : found'[i] = found[i]
        BY <1>1, <1>2, <1>4, <1>8, <3>1, ForbiddenKeeps DEF TypeOK
      <3>3. /\ {extras[i] : i \in 1 .. Len(extras)} = {x \in RestOf(at) : IsFine(Entries[x].outcome)}
            /\ Told => Cardinality(Forbidden) = 0
            /\ Told => \A i \in Forbidden :
                         \E x \in RestOf(at) : found[i].location = <<<<"field", Entries[x].name>>>>
        BY <1>1, <2>3 DEF Partition
      <3>4. {extras'[i] : i \in 1 .. Len(extras')} = {x \in RestOf(n) : IsFine(Entries[x].outcome)}
        <4>1. CASE ~IsFine(o)
          BY <1>2, <1>9, <3>1, <3>3, <4>1
        <4>2. CASE IsFine(o)
          <5>1. extras' = Append(extras, n)
            BY <1>2, <2>3, <4>2
          <5>2. /\ Len(extras') = Len(extras) + 1 /\ Len(extras) \in Nat
                /\ \A i \in 1 .. Len(extras) : extras'[i] = extras[i]
                /\ extras'[Len(extras) + 1] = n
            BY <1>1, <5>1
          <5>3. \A i : i \in 1 .. Len(extras') <=> i \in 1 .. Len(extras) \/ i = Len(extras) + 1
            BY <5>2
          <5>4. {extras'[i] : i \in 1 .. Len(extras')} = {extras[i] : i \in 1 .. Len(extras)} \cup {n}
            BY <5>2, <5>3
          <5> QED BY <1>9, <3>1, <3>3, <4>2, <5>4
        <4> QED BY <4>1, <4>2
      <3>5. RestOf(at)' = RestOf(n) /\ (Told' <=> Told)
        BY <1>2, SameCase, SameSelections DEF RestOf
      <3>6. Told => \A i \in Forbidden' : \E x \in RestOf(n) : found'[i].location = <<<<"field", Entries[x].name>>>>
        BY <1>9, <3>2, <3>3
      <3> QED BY <1>2, <1>3, <2>3, <3>2, <3>3, <3>4, <3>5, <3>6 DEF Partition
    <2> QED BY <1>5, <2>1, <2>2, <2>3
  <1>14. extras' \in Seq(Nat)
    <2>1. n \in Nat
      BY <1>1
    <2> QED BY <1>1, <1>2, <2>1
  <1> QED BY <1>1, <1>2, <1>12, <1>13, <1>14 DEF ExtrasInv

LEMMA NextExtras == IInv /\ ExtrasInv /\ [Next]_vars => ExtrasInv'
  <1> SUFFICES ASSUME IInv, ExtrasInv, [Next]_vars PROVE ExtrasInv'
    OBVIOUS
  <1>1. CASE Reject           BY <1>1, RejectExtras
  <1>2. CASE Accept           BY <1>2, AcceptExtras
  <1>3. CASE ValidateInput \/ ValidateDefault \/ RequireField \/ PassOverField
    BY <1>3, FieldsExtras
  <1>4. CASE EndFields        BY <1>4, EndFieldsExtras
  <1>5. CASE SkipConsumed     BY <1>5, SkipExtras
  <1>6. CASE VisitExtra       BY <1>6, VisitExtras
  <1>7. CASE EndExtras        BY <1>7, EndExtrasExtras
  <1>8. CASE Build            BY <1>8, BuildExtras
  <1>9. CASE UNCHANGED vars   BY <1>9, StutterExtras
  <1> QED BY <1>1, <1>2, <1>3, <1>4, <1>5, <1>6, <1>7, <1>8, <1>9 DEF Next

(* The parts of the invariant that are the property.                       *)
LEMMA ExtrasAre == IInv /\ ExtrasInv => ExtrasAreTheRest
  <1> SUFFICES ASSUME IInv, ExtrasInv PROVE ExtrasAreTheRest
    OBVIOUS
  <1> DEFINE rest == (1 .. Len(Entries)) \ SelectedEntries
  <1>1. Len(Entries) \in Nat /\ case.model.extra \in {"ignore", "forbid", "allow"} /\ at \in Nat
    BY CaseType, CasesAssumption DEF IInv, TypeOK, Case, Model
  <1>2. RestOf(Len(Entries)) = rest
    BY DEF RestOf
  <1>3. PICK n \in 0 .. Len(Entries) : Partition(n)
    <2>1. CASE stage \in {"enter", "fields"}
      BY <1>1, <2>1 DEF ExtrasInv
    <2>2. CASE stage = "extras"
      BY <1>1, <2>2 DEF ExtrasInv, IInv, Progress
    <2>3. CASE stage \in {"build", "done"}
      BY <1>1, <2>3 DEF ExtrasInv
    <2> QED BY <2>1, <2>2, <2>3 DEF IInv, TypeOK
  <1>4. RestOf(n) \subseteq rest
    <2>1. \A x \in 1 .. n : x \in 1 .. Len(Entries)
      BY <1>1
    <2> QED BY <2>1 DEF RestOf
  <1> HIDE DEF rest
  <1>5. \A i \in 1 .. Len(extras) : extras[i] \in rest
    <2>1. \A i \in 1 .. Len(extras) : extras[i] \in {extras[j] : j \in 1 .. Len(extras)}
      OBVIOUS
    <2>2. {extras[j] : j \in 1 .. Len(extras)} \subseteq RestOf(n)
      BY <1>3 DEF Partition
    <2> QED BY <1>4, <2>1, <2>2
  <1>6. Told => \A i \in Forbidden :
                 \E x \in rest : found[i].location = <<<<"field", Entries[x].name>>>>
    BY <1>3, <1>4 DEF Partition
  <1>7. ASSUME stage = "done", case.accepted, ~errors.truncated
        PROVE  /\ case.model.extra = "forbid" /\ Told => Cardinality(Forbidden) = Cardinality(rest)
               /\ case.model.extra = "allow" =>
                    {extras[i] : i \in 1 .. Len(extras)} = {x \in rest : IsFine(Entries[x].outcome)}
    <2>1. ~left
      BY <1>7 DEF IInv, ReportContract, Covers
    <2>2. Partition(Len(Entries))
      BY <1>7, <2>1 DEF ExtrasInv
    <2> QED BY <1>2, <2>2 DEF Partition
  <1> QED BY <1>5, <1>6, <1>7 DEF ExtrasAreTheRest, rest

(* What a field selects is never an extra, an entry that none selects is   *)
(* one, whatever the aliases share, and no error about an extra is about   *)
(* anything else.                                                          *)
THEOREM ExtrasAreExact == Spec => []ExtrasAreTheRest
  <1>1. Init => IInv /\ ExtrasInv
    BY InitIInv, InitExtras
  <1>2. (IInv /\ ExtrasInv) /\ [Next]_vars => (IInv /\ ExtrasInv)'
    BY NextIInv, NextExtras
  <1>3. IInv /\ ExtrasInv => ExtrasAreTheRest
    BY ExtrasAre
  <1> QED BY <1>1, <1>2, <1>3, PTL DEF Spec

-----------------------------------------------------------------------------
(* Numbers can be put in order; every one of them has its place then.      *)
LEMMA InOrderLists ==
  ASSUME NEW n \in Nat, NEW P \in SUBSET (1 .. n)
  PROVE  /\ Len(InOrder(P)) \in Nat
         /\ \A i \in 1 .. Len(InOrder(P)) : InOrder(P)[i] \in P
         /\ \A i, j \in 1 .. Len(InOrder(P)) : i < j => InOrder(P)[i] < InOrder(P)[j]
         /\ \A p \in P : \E i \in 1 .. Len(InOrder(P)) : InOrder(P)[i] = p
  <1> DEFINE Upto(k) == P \cap 1 .. k
             Lists(s, T) == \A i, j \in 1 .. Cardinality(T) : i < j => s[i] < s[j]
             Listed(T) == \E s \in [1 .. Cardinality(T) -> T] : Lists(s, T)
             Failing == {k \in 0 .. n : ~Listed(Upto(k))}
  <1>1. \A k \in 0 .. n : IsFiniteSet(Upto(k)) /\ Cardinality(Upto(k)) \in Nat
    <2> SUFFICES ASSUME NEW k \in 0 .. n PROVE IsFiniteSet(Upto(k)) /\ Cardinality(Upto(k)) \in Nat
      OBVIOUS
    <2>1. IsFiniteSet(1 .. k)
      BY FS_Interval
    <2>2. Upto(k) \in SUBSET (1 .. k)
      OBVIOUS
    <2>3. IsFiniteSet(Upto(k))
      BY <2>1, <2>2, FS_Subset
    <2> QED BY <2>3, FS_CardinalityType
  <1>2. Listed(Upto(0))
    <2>1. Upto(0) = {}
      OBVIOUS
    <2>2. Cardinality({}) = 0
      BY FS_EmptySet
    <2>3. Listed({})
      <3> DEFINE s == [i \in 1 .. 0 |-> i]
      <3>1. s \in [1 .. 0 -> {}] /\ 1 .. 0 = {}
        OBVIOUS
      <3> QED BY <2>2, <3>1
    <2> HIDE DEF Listed, Upto
    <2> QED BY <2>1, <2>3
  <1>3. ASSUME NEW k \in 1 .. n, Listed(Upto(k - 1)) PROVE Listed(Upto(k))
    <2> DEFINE T == Upto(k - 1)
               total == Cardinality(T)
    <2>1. IsFiniteSet(T) /\ total \in Nat /\ k \notin T /\ \A x \in T : x < k /\ x \in Nat
      <3>1. k - 1 \in 0 .. n
        OBVIOUS
      <3>2. IsFiniteSet(T) /\ total \in Nat
        BY <1>1, <3>1
      <3>3. k \notin T /\ \A x \in T : x < k /\ x \in Nat
        OBVIOUS
      <3> QED BY <3>2, <3>3
    <2>2. Upto(k) = IF k \in P THEN T \cup {k} ELSE T
      <3>1. \A x : x \in 1 .. k <=> x \in 1 .. k - 1 \/ x = k
        OBVIOUS
      <3> QED BY <3>1
    <2>3. PICK s \in [1 .. total -> T] : \A i, j \in 1 .. total : i < j => s[i] < s[j]
      BY <1>3
    <2> HIDE DEF Upto
    <2>4. CASE k \notin P
      <3>1. Upto(k) = Upto(k - 1)
        BY <2>2, <2>4
      <3> HIDE DEF Listed
      <3> QED BY <1>3, <3>1
    <2>5. CASE k \in P
      <3> DEFINE u == [i \in 1 .. total + 1 |-> IF i <= total THEN s[i] ELSE k]
      <3>1. Cardinality(T \cup {k}) = total + 1
        BY <2>1, FS_AddElement
      <3> HIDE DEF T, total
      <3>2. \A i \in 1 .. total + 1 : i \in 1 .. total \/ (i = total + 1 /\ ~(i <= total))
        BY <2>1
      <3>3. \A i \in 1 .. total : i \in 1 .. total + 1 /\ i <= total /\ u[i] = s[i] /\ s[i] \in T
        BY <2>1, <2>3
      <3>4. u[total + 1] = k
        BY <2>1
      <3>5. u \in [1 .. total + 1 -> T \cup {k}]
        BY <2>3, <3>2
      <3>6. \A i, j \in 1 .. total + 1 : i < j => u[i] < u[j]
        <4> HIDE DEF u
        <4> SUFFICES ASSUME NEW i \in 1 .. total + 1, NEW j \in 1 .. total + 1, i < j PROVE u[i] < u[j]
          OBVIOUS
        <4>1. i \in 1 .. total
          BY <2>1
        <4>2. CASE j \in 1 .. total
          BY <2>3, <3>3, <4>1, <4>2
        <4>3. CASE j = total + 1
          BY <2>1, <3>3, <3>4, <4>1, <4>3
        <4> QED BY <3>2, <4>2, <4>3
      <3> HIDE DEF u
      <3>7. Upto(k) = T \cup {k}
        BY <2>2, <2>5
      <3>8. Listed(T \cup {k})
        BY <3>1, <3>5, <3>6
      <3> HIDE DEF Listed
      <3> QED BY <3>7, <3>8
    <2> QED BY <2>4, <2>5
  <1>4. Listed(Upto(n))
    <2> HIDE DEF Listed, Upto
    <2> SUFFICES ASSUME Failing # {} PROVE FALSE
      OBVIOUS
    <2>1. Failing \in SUBSET Nat
      OBVIOUS
    <2>2. PICK k \in Failing : \A m \in Failing : k <= m
      BY <2>1, LeastMember
    <2>3. k \in 1 .. n
      BY <1>2, <2>2
    <2>4. k - 1 \in 0 .. n /\ ~(k <= k - 1)
      BY <2>3
    <2>5. Listed(Upto(k - 1))
      BY <2>2, <2>4
    <2> QED BY <1>3, <2>2, <2>3, <2>5
  <1>5. Upto(n) = P
    OBVIOUS
  <1>6. IsFiniteSet(P) /\ Cardinality(P) \in Nat
    BY <1>1, <1>5
  <1>7. \E s \in [1 .. Cardinality(P) -> P] : \A i, j \in 1 .. Cardinality(P) : i < j => s[i] < s[j]
    BY <1>4, <1>5
  <1> DEFINE list == InOrder(P)
             total == Cardinality(P)
  <1>8. list \in [1 .. total -> P] /\ \A i, j \in 1 .. total : i < j => list[i] < list[j]
    <2> HIDE DEF Upto, Listed, Failing
    <2> QED BY <1>7, Zenon DEF InOrder
  <1> HIDE DEF list, total, Upto, Lists, Listed, Failing
  <1>9. list \in Seq(P) /\ Len(list) = total
    <2>1. list \in Seq(P)
      BY <1>6, <1>8, SeqDef DEF total
    <2>2. DOMAIN list = 1 .. Len(list) /\ Len(list) \in Nat
      BY <2>1, LenProperties
    <2>3. DOMAIN list = 1 .. total
      BY <1>8
    <2>4. total \in Nat
      BY <1>6 DEF total
    <2>5. \A a, b \in Nat : 1 .. a = 1 .. b => a = b
      <3> SUFFICES ASSUME NEW a \in Nat, NEW b \in Nat, 1 .. a = 1 .. b, a # b PROVE FALSE
        OBVIOUS
      <3>1. a < b \/ b < a
        OBVIOUS
      <3>2. (a < b => b \in 1 .. b /\ b \notin 1 .. a) /\ (b < a => a \in 1 .. a /\ a \notin 1 .. b)
        OBVIOUS
      <3> QED BY <3>1, <3>2
    <2>6. Len(list) = total
      BY <2>2, <2>3, <2>4, <2>5, Zenon
    <2> QED BY <2>1, <2>6
  <1>10. \A p \in P : \E i \in 1 .. total : list[i] = p
    <2>1. \A i, j \in 1 .. total : list[i] = list[j] => i = j
      <3> SUFFICES ASSUME NEW i \in 1 .. total, NEW j \in 1 .. total, list[i] = list[j], i # j PROVE FALSE
        OBVIOUS
      <3>1. i \in Nat /\ j \in Nat /\ list[i] \in Nat
        <4>1. list[i] \in P /\ total \in Nat
          BY <1>6, <1>8 DEF total
        <4>2. \A p \in P : p \in Nat
          OBVIOUS
        <4>3. i \in Nat /\ j \in Nat
          BY <4>1
        <4> QED BY <4>1, <4>2, <4>3
      <3>2. i < j \/ j < i
        BY <3>1
      <3> QED BY <1>8, <3>1, <3>2
    <2>2. list \in Injection(1 .. total, P)
      BY <1>8, <2>1 DEF Injection, IsInjective
    <2>3. Cardinality(1 .. total) = total
      BY <1>6, FS_Interval DEF total
    <2>4. list \in Surjection(1 .. total, P)
      BY <1>6, <2>2, <2>3, FS_Injection DEF total
    <2> QED BY <2>4 DEF Surjection
  <1> QED BY <1>6, <1>8, <1>9, <1>10 DEF list, total

(* The inputs among the first n fields are finitely many.                  *)
LEMMA InputsGrow ==
  ASSUME NEW n \in Nat
  PROVE  /\ IsFiniteSet(Inputs(n)) /\ Cardinality(Inputs(n)) \in Nat
         /\ Cardinality(Inputs(n + 1)) =
              IF Selects(n + 1) THEN Cardinality(Inputs(n)) + 1 ELSE Cardinality(Inputs(n))
         /\ Cardinality(Inputs(0)) = 0
  <1>1. IsFiniteSet(1 .. n) /\ Inputs(n) \in SUBSET (1 .. n)
    BY FS_Interval DEF Inputs
  <1>2. IsFiniteSet(Inputs(n)) /\ Cardinality(Inputs(n)) \in Nat
    BY <1>1, FS_Subset, FS_CardinalityType
  <1>3. \A f : f \in 1 .. n + 1 <=> f \in 1 .. n \/ f = n + 1
    OBVIOUS
  <1>4. Inputs(n + 1) = IF Selects(n + 1) THEN Inputs(n) \cup {n + 1} ELSE Inputs(n)
    BY <1>3 DEF Inputs
  <1>5. n + 1 \notin Inputs(n)
    BY <1>1
  <1>6. Inputs(0) = {}
    BY DEF Inputs
  <1>7. Cardinality(Inputs(n) \cup {n + 1}) = Cardinality(Inputs(n)) + 1
    BY <1>2, <1>5, FS_AddElement
  <1>8. Cardinality(Inputs(0)) = 0
    BY <1>6, FS_EmptySet
  <1> QED BY <1>2, <1>4, <1>7, <1>8

(* What is assigned stays while the case does.                             *)
LEMMA AssignedStays ==
  ASSUME case' = case, values' = values, count' = count, NEW n
  PROVE  Assigned(n) => Assigned(n)'
  <1>1. /\ \A f : Given(f)' = Given(f)
        /\ Inputs(n)' = Inputs(n) /\ Fields' = Fields
    BY SameSelections, SameCase
  <1> QED BY <1>1 DEF Assigned

(* The end of an iteration over a field that assigned what it is given.    *)
LEMMA EndFieldValues ==
  ASSUME IInv, ValuesInv, InFields, NEW path \in Path, NEW o \in Outcome(MaxErrors),
         EndField(path, o),
         IsFine(o) => /\ values' = [values EXCEPT ![at + 1] = Given(at + 1)]
                      /\ count' = IF Selects(at + 1) THEN count + 1 ELSE count
  PROVE  ValuesInv'
  <1>1. /\ TypeOK /\ stage = "fields" /\ at \in Nat /\ at < Len(Fields) /\ found \in Seq(Detail)
        /\ found = << >> => Assigned(at)
    BY DEF IInv, TypeOK, InFields, ValuesInv
  <1>2. /\ UNCHANGED <<case, stage>> /\ at' = at + 1
        /\ found' = found \o LocateAll(path, o.found)
    BY DEF EndField
  <1>3. found' # << >> <=> (found # << >> \/ ~IsFine(o))
    BY <1>1, <1>2, FoundGrows
  <1>4. ASSUME found' = << >> PROVE Assigned(at)'
    <2>1. IsFine(o) /\ Assigned(at)
      BY <1>1, <1>3, <1>4
    <2>2. /\ values = [f \in 1 .. Len(Fields) |-> IF f <= at THEN Given(f) ELSE "none"]
          /\ count = Cardinality(Inputs(at))
      BY <2>1 DEF Assigned
    <2>3. values' = [f \in 1 .. Len(Fields) |-> IF f <= at + 1 THEN Given(f) ELSE "none"]
      <3>1. \A f \in 1 .. Len(Fields) : f <= at + 1 <=> f <= at \/ f = at + 1
        BY <1>1, CaseType DEF TypeOK
      <3>2. values' = [f \in 1 .. Len(Fields) |-> IF f = at + 1 THEN Given(at + 1) ELSE values[f]]
        BY <2>1, <2>2
      <3> QED BY <2>2, <3>1, <3>2
    <2>4. count' = Cardinality(Inputs(at + 1))
      BY <1>1, <2>1, <2>2, InputsGrow
    <2>5. /\ \A f : Given(f)' = Given(f)
          /\ \A n : Inputs(n)' = Inputs(n)
          /\ Fields' = Fields
      BY <1>2, SameSelections, SameCase
    <2>6. Inputs(at)' = Inputs(at + 1)
      BY <1>2, <2>5 DEF Inputs
    <2> QED BY <1>2, <2>3, <2>4, <2>5, <2>6 DEF Assigned
  <1> QED BY <1>1, <1>2, <1>4 DEF ValuesInv, BuiltModel

(* The steps of the first loop.                                            *)
LEMMA FieldsValues ==
  ASSUME IInv, ValuesInv, ValidateInput \/ ValidateDefault \/ RequireField \/ PassOverField
  PROVE  ValuesInv'
  <1>1. InFields
    BY DEF ValidateInput, ValidateDefault, RequireField, PassOverField
  <1>2. /\ Visited.outcome \in Outcome(MaxErrors) /\ Visited.ofDefault \in Outcome(MaxErrors)
        /\ ByField(Visited) \in Path /\ MissingPath(Visited) \in Path
        /\ Selected.entry # 0 => Selected.path \in Path
        /\ Visited = Fields[at + 1] /\ at \in Nat
        /\ Selects(at + 1) <=> Visited.input /\ Selected.entry # 0
    BY <1>1, VisitedField
  <1>3. Fine \in Outcome(MaxErrors) /\ Single([location |-> << >>, code |-> "missing"]) \in Outcome(MaxErrors)
    <2>1. Fine \in Outcome(MaxErrors)
      BY DEF Fine, Outcome
    <2> QED BY <2>1, OwnDetail
  <1>4. CASE ValidateInput
    <2>1. /\ EndField(Selected.path, Visited.outcome) /\ Selected.entry # 0
          /\ IsFine(Visited.outcome) =>
               values' = [values EXCEPT ![at + 1] = "input"] /\ count' = count + 1
          /\ Selects(at + 1)
      BY <1>2, <1>4 DEF ValidateInput, SetValue
    <2>2. Given(at + 1) = "input"
      BY <2>1 DEF Given
    <2> QED BY <1>1, <1>2, <2>1, <2>2, EndFieldValues
  <1>5. CASE ValidateDefault
    <2>1. /\ EndField(ByField(Visited), Visited.ofDefault)
          /\ IsFine(Visited.ofDefault) => values' = [values EXCEPT ![at + 1] = "default"]
          /\ count' = count /\ ~Selects(at + 1) /\ Visited.default = "value"
      BY <1>2, <1>5 DEF ValidateDefault, SetValue
    <2>2. Given(at + 1) = "default"
      BY <1>2, <2>1 DEF Given
    <2> QED BY <1>1, <1>2, <2>1, <2>2, EndFieldValues
  <1>6. CASE RequireField
    <2> DEFINE o == Single([location |-> << >>, code |-> "missing"])
    <2>1. EndField(MissingPath(Visited), o)
      BY <1>6 DEF RequireField
    <2>2. ~IsFine(o)
      BY DEF Single, IsFine
    <2> HIDE DEF o
    <2>3. o \in Outcome(MaxErrors)
      BY <1>3 DEF o
    <2> QED BY <1>1, <1>2, <2>1, <2>2, <2>3, EndFieldValues
  <1>7. CASE PassOverField
    <2>1. /\ EndField(ByField(Visited), Fine) /\ values' = values /\ count' = count
          /\ ~Selects(at + 1) /\ Visited.default # "value"
      BY <1>2, <1>7 DEF PassOverField
    <2>2. Given(at + 1) = "none"
      BY <1>2, <2>1 DEF Given
    <2>3. found = << >> => values = [values EXCEPT ![at + 1] = "none"]
      <3>1. SUFFICES ASSUME found = << >> PROVE values = [values EXCEPT ![at + 1] = "none"]
        OBVIOUS
      <3>2. Assigned(at)
        BY <1>1, <3>1 DEF InFields, ValuesInv
      <3> QED BY <1>2, <3>2 DEF Assigned
    <2>4. CASE found = << >>
      BY <1>1, <1>2, <1>3, <2>1, <2>2, <2>3, <2>4, EndFieldValues
    <2>5. CASE found # << >>
      <3>1. found' # << >>
        <4>1. found' = found \o LocateAll(ByField(Visited), Fine.found)
          BY <2>1 DEF EndField
        <4>2. found \in Seq(Detail)
          BY DEF IInv, TypeOK
        <4>3. found \o LocateAll(ByField(Visited), Fine.found) # << >>
          BY <1>2, <1>3, <2>5, <4>2, FoundGrows
        <4> QED BY <4>1, <4>3
      <3>2. stage' = "fields"
        BY <1>1, <2>1 DEF InFields, EndField
      <3> QED BY <3>1, <3>2 DEF ValuesInv, BuiltModel
    <2> QED BY <2>4, <2>5
  <1> QED BY <1>4, <1>5, <1>6, <1>7

(* The steps that neither assign nor build.                                *)
LEMMA OtherValues ==
  ASSUME IInv, ValuesInv, Reject \/ Accept \/ EndFields \/ SkipConsumed \/ VisitExtra \/ EndExtras
  PROVE  ValuesInv'
  <1>1. /\ UNCHANGED <<case, values, count>>
        /\ TypeOK /\ found \in Seq(Detail) /\ at \in Nat
    BY DEF IInv, TypeOK, Reject, Accept, EndFields, SkipConsumed, VisitExtra, EndExtras
  <1>2. Fields' = Fields /\ Len(Fields) \in Nat
    BY <1>1, SameCase, CaseType DEF TypeOK
  <1>3. ASSUME Assigned(Len(Fields)) PROVE Assigned(Len(Fields))'
    <2>1. PICK n : n = Len(Fields)
      OBVIOUS
    <2>2. Assigned(n)'
      BY <1>1, <1>3, <2>1, AssignedStays
    <2> QED BY <1>2, <2>1, <2>2 DEF Assigned, Inputs
  <1>4. CASE Reject
    <2>1. stage' = "done" /\ errors' # Nothing
      BY <1>4 DEF Reject, One, Nothing
    <2> QED BY <2>1 DEF ValuesInv, BuiltModel
  <1>5. CASE Accept
    <2>1. stage = "enter" /\ stage' = "fields" /\ at' = at /\ found' = found
      BY <1>5 DEF Accept
    <2>2. ASSUME Assigned(at) PROVE Assigned(at)'
      <3>1. PICK n : n = at
        OBVIOUS
      <3>2. Assigned(n)'
        BY <1>1, <2>2, <3>1, AssignedStays
      <3> QED BY <2>1, <3>1, <3>2 DEF Assigned, Inputs
    <2> QED BY <2>1, <2>2 DEF ValuesInv, BuiltModel
  <1>6. CASE EndFields
    <2>1. /\ stage = "fields" /\ ~InFields /\ UNCHANGED <<errors, found>>
          /\ stage' = IF IsFull(errors, MaxErrors) THEN "done" ELSE "extras"
      BY <1>6 DEF EndFields
    <2>2. IsFull(errors, MaxErrors) => errors # Nothing
      BY ErrorsMeanFound DEF IInv, TypeOK, ReportContract
    <2>3. ~IsFull(errors, MaxErrors) => at = Len(Fields)
      BY <1>1, <1>2, <2>1 DEF InFields, IInv, Progress
    <2> QED BY <1>3, <2>1, <2>2, <2>3 DEF ValuesInv, BuiltModel
  <1>7. CASE SkipConsumed
    <2>1. stage = "extras" /\ stage' = "extras" /\ found' = found
      BY <1>7 DEF SkipConsumed, InExtras
    <2> QED BY <1>3, <2>1 DEF ValuesInv, BuiltModel
  <1>8. CASE VisitExtra
    <2>1. stage = "extras" /\ stage' = "extras"
      BY <1>8 DEF VisitExtra, InExtras
    <2>2. found' = << >> => found = << >>
      <3> DEFINE more == LocateAll(<<<<"field", Entries[at + 1].name>>>>, ExtraOutcome.found)
      <3>1. found' = found \o more
        BY <1>8 DEF VisitExtra
      <3> QED BY <1>1, <3>1
    <2> QED BY <1>3, <2>1, <2>2 DEF ValuesInv, BuiltModel
  <1>9. CASE EndExtras
    <2>1. /\ stage = "extras" /\ UNCHANGED <<errors, found>>
          /\ stage' = IF errors = Nothing THEN "build" ELSE "done"
      BY <1>9 DEF EndExtras
    <2> QED BY <1>3, <2>1 DEF ValuesInv, BuiltModel
  <1> QED BY <1>4, <1>5, <1>6, <1>7, <1>8, <1>9

LEMMA InitValues == Init => ValuesInv
  <1> SUFFICES ASSUME Init PROVE ValuesInv
    OBVIOUS
  <1>1. /\ stage = "enter" /\ at = 0 /\ count = 0 /\ case \in Cases
        /\ values = [f \in 1 .. Len(Fields) |-> "none"]
    BY DEF Init
  <1>2. Cardinality(Inputs(0)) = 0
    BY InputsGrow
  <1>3. \A f \in 1 .. Len(Fields) : ~(f <= 0)
    BY <1>1, CaseType
  <1>4. Assigned(0)
    BY <1>1, <1>2, <1>3 DEF Assigned
  <1> QED BY <1>1, <1>4 DEF ValuesInv, BuiltModel

(* Every field of a model without an error has a source, but for those     *)
(* left to construction and the destination of the extras.                 *)
LEMMA SourcesOfFields ==
  ASSUME case \in Cases, ~Invalid, NEW f \in 1 .. Len(Fields)
  PROVE  /\ Fields[f].name = case.model.destination => Given(f) = "none" /\ Fields[f].default = "required"
         /\ Given(f) = "none" /\ Fields[f].name # case.model.destination => Fields[f].default = "construction"
  <1>1. case \in Case /\ Verified(case.model)
    BY CasesAssumption
  <1>2. /\ case.model.extra \in {"ignore", "forbid", "allow"} /\ case.model.destination \in Name \cup {Absent}
        /\ Fields = case.model.fields
    BY <1>1 DEF Case, Model, Fields
  <1>3. Fields[f] \in Field
    BY CaseType
  <1>4. Fields[f].name \in Name /\ Fields[f].default \in {"required", "value", "construction"}
        /\ Fields[f].input \in BOOLEAN
    BY <1>3 DEF Field
  <1>5. ~FieldInvalid(f)
    BY InvalidMeans
  <1>6. CASE Fields[f].name = case.model.destination
    <2>1. case.model.destination # Absent
      BY <1>4, <1>6, NamesAssumption
    <2>2. case.model.extra = "allow"
      BY <1>1, <2>1 DEF Verified
    <2>3. PICK i \in 1 .. Len(Fields) :
            Fields[i].name = case.model.destination /\ ~Fields[i].input /\ Fields[i].default = "required"
      BY <1>1, <1>2, <2>2 DEF Verified
    <2>4. i = f
      BY <1>1, <1>2, <1>6, <2>3 DEF Verified
    <2> QED BY <2>3, <2>4 DEF Given, Selects
  <1>7. CASE Fields[f].name # case.model.destination
    <2>1. ~Fields[f].input => Fields[f].default = "value"
      BY <1>1, <1>2, <1>7 DEF Verified
    <2> QED BY <1>4, <1>5, <1>7, <2>1 DEF Given, FieldInvalid
  <1> QED BY <1>6, <1>7

LEMMA BuildValues == IInv /\ ValuesInv /\ Build => ValuesInv'
  <1> SUFFICES ASSUME IInv, ValuesInv, Build PROVE ValuesInv'
    OBVIOUS
  <1> DEFINE n == Len(Fields)
             with == {f \in 1 .. n : values'[f] # "none"}
  <1>1. /\ stage = "build" /\ stage' = "done" /\ result' = InOrder(with)
        /\ values' = [f \in 1 .. n |->
                        IF Fields[f].name = case.model.destination THEN "extras" ELSE values[f]]
        /\ UNCHANGED <<case, count, errors, found>>
    BY DEF Build
  <1>2. /\ case \in Cases /\ errors = Nothing /\ ~Invalid /\ n \in Nat /\ found = << >>
    <2>1. case \in Cases /\ errors = Nothing /\ ~Invalid
      BY <1>1 DEF IInv, TypeOK, Progress
    <2>2. found = << >>
      BY <2>1, ErrorsMeanFound DEF IInv, TypeOK, ReportContract
    <2> QED BY <2>1, <2>2, CaseType
  <1>3. /\ values = [f \in 1 .. n |-> IF f <= n THEN Given(f) ELSE "none"]
        /\ count = Cardinality(Inputs(n))
    BY <1>1, <1>2 DEF ValuesInv, Assigned
  <1>4. \A f \in 1 .. n : values[f] = Given(f)
    BY <1>2, <1>3
  <1>5. \A f \in 1 .. n :
          values'[f] = IF Fields[f].name = case.model.destination THEN "extras" ELSE Given(f)
    BY <1>1, <1>4
  <1>6. \A f \in 1 .. n :
          /\ Fields[f].name = case.model.destination => Given(f) = "none" /\ Fields[f].default = "required"
          /\ Given(f) = "none" /\ Fields[f].name # case.model.destination => Fields[f].default = "construction"
    BY <1>2, SourcesOfFields
  <1>7. \A f \in 1 .. n :
          values'[f] = IF Selects(f) THEN "input"
                       ELSE IF Fields[f].default = "value" THEN "default"
                       ELSE IF Fields[f].name = case.model.destination THEN "extras" ELSE "none"
    BY <1>5, <1>6 DEF Given
  <1>8. \A f \in 1 .. n : f \in with <=> (Selects(f) \/ Fields[f].default # "construction")
    BY <1>6, <1>7 DEF Given
  <1>9. {f \in 1 .. n : values'[f] = "input"} = Inputs(n)
    BY <1>7 DEF Inputs
  <1>10. with \in SUBSET (1 .. n)
    OBVIOUS
  <1> HIDE DEF with, n
  <1>11. /\ \A i \in 1 .. Len(InOrder(with)) : InOrder(with)[i] \in with
         /\ \A i, j \in 1 .. Len(InOrder(with)) : i < j => InOrder(with)[i] < InOrder(with)[j]
         /\ \A p \in with : \E i \in 1 .. Len(InOrder(with)) : InOrder(with)[i] = p
    BY <1>2, <1>10, InOrderLists
  <1>12. \A f \in 1 .. n : (\E i \in 1 .. Len(result') : result'[i] = f)
                             <=> (Selects(f) \/ Fields[f].default # "construction")
    BY <1>1, <1>8, <1>11
  <1>13. \A i, j \in 1 .. Len(result') : i < j => result'[i] < result'[j]
    BY <1>1, <1>11
  <1>14. /\ Fields' = Fields /\ case' = case
         /\ \A f : Selects(f)' <=> Selects(f)
    BY <1>1, SameSelections, SameCase
  <1>15. BuiltModel'
    <2>1. count' = Cardinality({f \in 1 .. n : values'[f] = "input"})
      BY <1>1, <1>3, <1>9
    <2> QED BY <1>7, <1>12, <1>13, <1>14, <2>1 DEF BuiltModel, Selects, n
  <1> QED BY <1>1, <1>15 DEF ValuesInv

LEMMA StutterValues == ValuesInv /\ UNCHANGED vars => ValuesInv'
  <1> SUFFICES ASSUME ValuesInv, UNCHANGED vars PROVE ValuesInv'
    OBVIOUS
  <1>1. UNCHANGED <<case, stage, at, values, count, errors, result, found>>
    BY DEF vars
  <1>2. /\ Fields' = Fields /\ (\A f : Given(f)' = Given(f)) /\ (\A n : Inputs(n)' = Inputs(n))
    BY <1>1, SameSelections, SameCase
  <1>3. \A field : SelectField(field)' = SelectField(field)
    <2>1. case' = case /\ Entries' = Entries
      BY <1>1 DEF Entries
    <2> QED BY <2>1 DEF SelectField, EntryNamed, Resolves, ByAliasPath, ByField
  <1>4. Assigned(at)' = Assigned(at) /\ Assigned(Len(Fields))' = Assigned(Len(Fields))
    BY <1>1, <1>2 DEF Assigned, Inputs
  <1>5. BuiltModel' = BuiltModel
    BY <1>1, <1>2, <1>3 DEF BuiltModel
  <1> QED BY <1>1, <1>4, <1>5 DEF ValuesInv

LEMMA NextValues == IInv /\ ValuesInv /\ [Next]_vars => ValuesInv'
  <1> SUFFICES ASSUME IInv, ValuesInv, [Next]_vars PROVE ValuesInv'
    OBVIOUS
  <1>1. CASE Reject \/ Accept \/ EndFields \/ SkipConsumed \/ VisitExtra \/ EndExtras
    BY <1>1, OtherValues
  <1>2. CASE ValidateInput \/ ValidateDefault \/ RequireField \/ PassOverField
    BY <1>2, FieldsValues
  <1>3. CASE Build            BY <1>3, BuildValues
  <1>4. CASE UNCHANGED vars   BY <1>4, StutterValues
  <1> QED BY <1>1, <1>2, <1>3, <1>4 DEF Next

(* A built model holds every field once, in the order declared and with    *)
(* the value of its own source; the count that smart unions compare is the *)
(* number of its fields that came from the input.                          *)
THEOREM ModelIsBuilt == Spec => []BuiltModel
  <1>1. Init => IInv /\ ValuesInv
    BY InitIInv, InitValues
  <1>2. (IInv /\ ValuesInv) /\ [Next]_vars => (IInv /\ ValuesInv)'
    BY NextIInv, NextValues
  <1>3. IInv /\ ValuesInv => BuiltModel
    BY DEF ValuesInv
  <1> QED BY <1>1, <1>2, <1>3, PTL DEF Spec
=============================================================================
