---------------------- MODULE CollectionValidationProofs ----------------------
(***************************************************************************)
(* Proofs that the loops of validation/collections.rs keep the types of    *)
(* their variables and the report contract, that no part of a collection   *)
(* vanishes and that the output of a valid one is right, for every cap,    *)
(* every set of collections and whatever the schemas of the parts report;  *)
(* that the iterator over a sequence keeps the stream it promises, that    *)
(* is, GeneratorIterator implements PromisedStream; and that it gives what *)
(* validating the list gives.                                              *)
(***************************************************************************)
EXTENDS GeneratorIterator, ErrorReportProofs, WellFoundedInduction

(* The contract is inductive once the variables have their types: every    *)
(* step either leaves the report alone, collects an outcome under a path   *)
(* (CollectCovers) and leaves the loop (StopCovers), or starts from the    *)
(* report without details, which the report is before the first part.      *)
FreshAtEntry == pass = "enter" => errors = Nothing

IInv == TypeOK /\ ReportContract /\ FreshAtEntry

(* The location-free detail with one of the loops' own codes is a detail.  *)
LEMMA OwnDetail ==
  ASSUME NEW c \in {"type", "length", "duplicate", "unhashable"}
  PROVE  /\ [location |-> << >>, code |-> c] \in Detail
         /\ Single([location |-> << >>, code |-> c]) \in Outcome(MaxErrors)
         /\ Single([location |-> << >>, code |-> c]).left = FALSE
  <1> DEFINE d == [location |-> << >>, code |-> c]
  <1>1. c \in Code
    BY CodesAssumption
  <1>2. d \in Detail
    <2>1. << >> \in Seq(Item)
      OBVIOUS
    <2> QED BY <1>1, <2>1 DEF Detail, Path
  <1> HIDE DEF d
  <1>3. Single(d) \in Outcome(MaxErrors) /\ Single(d).left = FALSE
    BY <1>2, SmallOutcomes, LimitAssumption
  <1> QED BY <1>2, <1>3 DEF d

(* The end of an iteration keeps types and contract.                       *)
LEMMA EndIterationKeeps ==
  ASSUME TypeOK, pos < Count, NEW e \in Report, NEW f \in Seq(Detail), NEW l \in BOOLEAN,
         Covers(e, f, l, MaxErrors), EndIteration(e, l), found' = f
  PROVE  /\ errors' \in Report /\ left' \in BOOLEAN /\ pos' \in 0 .. Count
         /\ Covers(errors', found', left', MaxErrors)
  <1> DEFINE more == pos + 1 < Count
  <1>1. more \in BOOLEAN
    OBVIOUS
  <1>2. IsFull(e, MaxErrors) \in BOOLEAN
    BY DEF IsFull
  <1>3. pos \in 0 .. Count /\ Count \in Nat
    BY DEF TypeOK, Count, Collection
  <1>4. errors' = StopAfterErrorCap(e, more, MaxErrors)
        /\ left' = (l \/ (IsFull(e, MaxErrors) /\ more)) /\ pos' = pos + 1
    BY DEF EndIteration
  <1> HIDE DEF more
  <1>5. StopAfterErrorCap(e, more, MaxErrors) \in Report
    BY <1>1, StopType, LimitAssumption
  <1>6. Covers(StopAfterErrorCap(e, more, MaxErrors), f,
               l \/ (IsFull(e, MaxErrors) /\ more), MaxErrors)
    BY <1>1, StopCovers, LimitAssumption
  <1>7. left' \in BOOLEAN
    BY <1>1, <1>2, <1>4
  <1>8. pos' \in 0 .. Count
    BY <1>3, <1>4
  <1> QED BY <1>4, <1>5, <1>6, <1>7, <1>8

(* The part under visit has outcomes and an identity.                      *)
LEMMA VisitedType ==
  ASSUME TypeOK, pos < Count
  PROVE  /\ Visited \in Part
         /\ pos \in Nat /\ pos + 1 \in 1 .. Count
         /\ AtIndex \in Path /\ AtKey \in Path /\ AtValue \in Path
  <1>1. collection.parts \in Seq(Part) /\ pos \in Nat /\ Count \in Nat
    BY DEF TypeOK, Collection, Count
  <1>2. pos + 1 \in 1 .. Count
    BY <1>1
  <1>3. Visited \in Part
    BY <1>1, <1>2, ElementOfSeq DEF Visited, Count
  <1> QED BY <1>1, <1>2, <1>3 DEF Item, Path, AtIndex, AtKey, AtValue

(* Putting the visited part in the output keeps the output's type.         *)
LEMMA OutputType ==
  ASSUME TypeOK, pos < Count, output' = output \/ output' = Append(output, pos + 1)
  PROVE  output' \in Seq(1 .. Count)
  <1> DEFINE S == 1 .. Count
  <1>1. output \in Seq(S)
    BY DEF TypeOK
  <1>2. pos + 1 \in S
    BY VisitedType
  <1> HIDE DEF S
  <1>3. Append(output, pos + 1) \in Seq(S)
    BY <1>1, <1>2, AppendProperties
  <1> QED BY <1>1, <1>3 DEF S

-----------------------------------------------------------------------------
(* Validation starts with typed variables and an empty, unflagged report.  *)
LEMMA InitIInv == Init => IInv
  <1> SUFFICES ASSUME Init PROVE IInv
    OBVIOUS
  <1>1. collection \in Collection /\ Count \in Nat
    BY CollectionsAssumption DEF Init, Count, Collection
  <1>2. TypeOK
    <2>1. Nothing \in Report
      BY DEF Nothing, Report
    <2>2. << >> \in Seq(1 .. Count) /\ << >> \in Seq(Detail) /\ 0 \in 0 .. Count
      BY <1>1
    <2> QED BY <1>1, <2>1, <2>2 DEF Init, TypeOK
  <1>3. << >> \in Seq(Detail) /\ Len(<< >>) = 0
    BY EmptySeq
  <1>4. Take(<< >>, MaxErrors) = << >>
    <2>1. Len(<< >>) <= MaxErrors
      BY <1>3, LimitAssumption
    <2> QED BY <1>3, <2>1, TakeShort, LimitAssumption
  <1>5. ReportContract
    BY <1>3, <1>4, LimitAssumption DEF Init, ReportContract, Covers, Nothing
  <1> QED BY <1>2, <1>5 DEF IInv, FreshAtEntry, Init

(* Rejecting the collection starts its report. *)
LEMMA RejectKeeps == IInv /\ Reject => IInv'
  <1> SUFFICES ASSUME IInv, Reject PROVE IInv'
    OBVIOUS
  <1> DEFINE d == [location |-> << >>, code |-> "type"]
  <1>1. d \in Detail
    BY OwnDetail
  <1>2. /\ errors' = One(d) /\ found' = <<d>> /\ pass' = "done"
        /\ UNCHANGED <<collection, pos, output, seen, left>>
    BY DEF Reject
  <1> HIDE DEF d
  <1>3. One(d) \in Report /\ <<d>> \in Seq(Detail) /\ Covers(One(d), <<d>>, FALSE, MaxErrors)
    BY <1>1, OneCovers, LimitAssumption
  <1>4. TypeOK'
    BY <1>2, <1>3 DEF IInv, TypeOK, Count
  <1>5. left = FALSE
    BY NothingCovers, LimitAssumption DEF IInv, TypeOK, FreshAtEntry, ReportContract, Reject, Nothing
  <1>6. ReportContract'
    BY <1>2, <1>3, <1>5 DEF ReportContract
  <1> QED BY <1>2, <1>4, <1>6 DEF IInv, FreshAtEntry

(* Visiting an item collects its outcome.                                  *)
LEMMA VisitItemKeeps == IInv /\ VisitItem => IInv'
  <1> SUFFICES ASSUME IInv, VisitItem PROVE IInv'
    OBVIOUS
  <1> DEFINE o == Visited.value
             path == AtIndex
             e == Collect(errors, path, o, MaxErrors)
             f == found \o LocateAll(path, o.found)
             l == left \/ o.left
  <1>1. TypeOK /\ ReportContract /\ pos < Count
    BY DEF IInv, VisitItem, InLoop
  <1>2. o \in Outcome(MaxErrors) /\ path \in Path /\ pos + 1 \in 1 .. Count
    BY <1>1, VisitedType DEF Part
  <1>3. l \in BOOLEAN
    OBVIOUS
  <1>4. /\ e \in Report /\ f \in Seq(Detail)
        /\ Covers(e, f, l, MaxErrors)
    <2> HIDE DEF o, path
    <2> QED BY <1>1, <1>2, CollectCovers, LimitAssumption DEF TypeOK, ReportContract
  <1>5. /\ EndIteration(e, l) /\ found' = f
        /\ output' = output \/ output' = Append(output, pos + 1)
        /\ UNCHANGED <<collection, pass, seen>> /\ pass # "enter"
    BY DEF VisitItem, InLoop
  <1> HIDE DEF o, path, e, f, l
  <1>6. /\ errors' \in Report /\ left' \in BOOLEAN /\ pos' \in 0 .. Count
        /\ Covers(errors', found', left', MaxErrors)
    BY <1>1, <1>3, <1>4, <1>5, EndIterationKeeps
  <1>7. output' \in Seq(1 .. Count)
    BY <1>1, <1>5, OutputType
  <1>8. Count' = Count
    BY <1>5 DEF Count
  <1> QED BY <1>1, <1>4, <1>5, <1>6, <1>7, <1>8 DEF IInv, TypeOK, ReportContract, FreshAtEntry

(* Visiting a mapping entry collects the key's outcome, then the value's.  *)
LEMMA VisitEntryKeeps == IInv /\ VisitEntry => IInv'
  <1> SUFFICES ASSUME IInv, VisitEntry PROVE IInv'
    OBVIOUS
  <1> DEFINE part == Visited
             ofKey == KeyOutcome(part)
             ofValue == part.value
             kept == IsFine(ofKey) /\ IsFine(ofValue)
             keyPath == AtKey
             valuePath == AtValue
             e1 == Collect(errors, keyPath, ofKey, MaxErrors)
             f1 == found \o LocateAll(keyPath, ofKey.found)
             l1 == left \/ ofKey.left
             e == Collect(e1, valuePath, ofValue, MaxErrors)
             f == f1 \o LocateAll(valuePath, ofValue.found)
             l == l1 \/ ofValue.left
  <1>1. TypeOK /\ ReportContract /\ pos < Count
    BY DEF IInv, VisitEntry, InLoop
  <1>2. /\ part \in Part /\ ofValue \in Outcome(MaxErrors)
        /\ keyPath \in Path /\ valuePath \in Path /\ pos + 1 \in 1 .. Count
    BY <1>1, VisitedType DEF Part
  <1>3. ofKey \in Outcome(MaxErrors)
    <2>1. part.key \in Outcome(MaxErrors)
      BY <1>2 DEF Part
    <2> QED BY <2>1, OwnDetail, SmallOutcomes, LimitAssumption DEF KeyOutcome
  <1>4. kept => part.identity \in Keys
    <2>1. ~IsFine(Single([location |-> << >>, code |-> "unhashable"]))
      BY DEF IsFine, Single
    <2>2. part.identity \in Keys \cup {Unhashable}
      BY <1>2 DEF Part
    <2>3. ~(~IsFine(part.key) \/ ~IsFine(part.value)) \/ ~kept
      BY DEF KeyOutcome
    <2> HIDE DEF part
    <2> QED BY <2>1, <2>2, <2>3 DEF KeyOutcome
  <1>5. l1 \in BOOLEAN /\ l \in BOOLEAN
    OBVIOUS
  <1>6. /\ EndIteration(e, l) /\ found' = f
        /\ output' = output \/ output' = Append(output, pos + 1)
        /\ seen' = IF kept THEN seen \cup {part.identity} ELSE seen
        /\ UNCHANGED <<collection, pass>> /\ pass # "enter"
    BY DEF VisitEntry, InLoop
  <1> HIDE DEF part, ofKey, ofValue, kept, keyPath, valuePath
  <1>7. e1 \in Report /\ f1 \in Seq(Detail) /\ Covers(e1, f1, l1, MaxErrors)
    BY <1>1, <1>2, <1>3, CollectCovers, LimitAssumption DEF TypeOK, ReportContract
  <1> HIDE DEF e1, f1, l1
  <1>8. e \in Report /\ f \in Seq(Detail) /\ Covers(e, f, l, MaxErrors)
    BY <1>2, <1>5, <1>7, CollectCovers, LimitAssumption
  <1> HIDE DEF e, f, l
  <1>9. /\ errors' \in Report /\ left' \in BOOLEAN /\ pos' \in 0 .. Count
        /\ Covers(errors', found', left', MaxErrors)
    BY <1>1, <1>5, <1>6, <1>8, EndIterationKeeps
  <1>10. output' \in Seq(1 .. Count) /\ seen' \subseteq Keys
    <2>1. output' \in Seq(1 .. Count)
      BY <1>1, <1>6, OutputType
    <2>2. seen' \subseteq Keys
      BY <1>1, <1>2, <1>4, <1>6 DEF TypeOK
    <2> QED BY <2>1, <2>2
  <1>11. Count' = Count
    BY <1>6 DEF Count
  <1> QED BY <1>1, <1>6, <1>8, <1>9, <1>10, <1>11 DEF IInv, TypeOK, ReportContract, FreshAtEntry

(* An iteration of the second loop of a set collects at most one error.    *)
LEMMA VisitIdentityKeeps == IInv /\ VisitIdentity => IInv'
  <1> SUFFICES ASSUME IInv, VisitIdentity PROVE IInv'
    OBVIOUS
  <1> DEFINE identity == Visited.identity
             o == IF identity = Unhashable
                  THEN Single([location |-> << >>, code |-> "unhashable"]) ELSE Fine
             fresh == IsFine(o) /\ identity \notin seen
             path == AtIndex
             e == Collect(errors, path, o, MaxErrors)
             f == found \o LocateAll(path, o.found)
  <1>1. TypeOK /\ ReportContract /\ pos < Count
    BY DEF IInv, VisitIdentity, InLoop
  <1>2. identity \in Keys \cup {Unhashable} /\ path \in Path /\ pos + 1 \in 1 .. Count
    BY <1>1, VisitedType DEF Part
  <1>3. o \in Outcome(MaxErrors) /\ o.left = FALSE
    BY OwnDetail, SmallOutcomes, LimitAssumption
  <1>4. IsFine(o) => identity # Unhashable
    BY DEF IsFine, Single
  <1>5. /\ EndIteration(e, left) /\ found' = f
        /\ output' = output \/ output' = Append(output, pos + 1)
        /\ seen' = IF fresh THEN seen \cup {identity} ELSE seen
        /\ UNCHANGED <<collection, pass>> /\ pass # "enter"
    BY DEF VisitIdentity, InLoop
  <1> HIDE DEF identity, o, path
  <1>6. /\ e \in Report /\ f \in Seq(Detail)
        /\ Covers(e, f, left, MaxErrors)
    <2>1. Covers(e, f, left \/ o.left, MaxErrors) /\ e \in Report /\ f \in Seq(Detail)
      BY <1>1, <1>2, <1>3, CollectCovers, LimitAssumption DEF TypeOK, ReportContract
    <2>2. (left \/ o.left) = left
      BY <1>1, <1>3 DEF TypeOK
    <2> QED BY <2>1, <2>2
  <1> HIDE DEF e, f
  <1>7. /\ errors' \in Report /\ left' \in BOOLEAN /\ pos' \in 0 .. Count
        /\ Covers(errors', found', left', MaxErrors)
    BY <1>1, <1>5, <1>6, EndIterationKeeps DEF TypeOK
  <1>8. output' \in Seq(1 .. Count) /\ seen' \subseteq Keys
    <2>1. output' \in Seq(1 .. Count)
      BY <1>1, <1>5, OutputType
    <2>2. seen' \subseteq Keys
      BY <1>1, <1>2, <1>4, <1>5 DEF TypeOK
    <2> QED BY <2>1, <2>2
  <1>9. Count' = Count
    BY <1>5 DEF Count
  <1> QED BY <1>1, <1>5, <1>6, <1>7, <1>8, <1>9 DEF IInv, TypeOK, ReportContract, FreshAtEntry

(* A set whose size does not fit had no error before.                      *)
LEMMA CloseSetKeeps == IInv /\ CloseSet => IInv'
  <1> SUFFICES ASSUME IInv, CloseSet PROVE IInv'
    OBVIOUS
  <1> DEFINE d == [location |-> << >>, code |-> "length"]
  <1>1. pass' = "done" /\ UNCHANGED <<collection, pos, output, seen, left>>
    BY DEF CloseSet
  <1>2. CASE UNCHANGED <<errors, found>>
    BY <1>1, <1>2 DEF IInv, TypeOK, ReportContract, FreshAtEntry, Count
  <1>3. CASE errors = Nothing /\ errors' = One(d) /\ found' = <<d>>
    <2>1. d \in Detail
      BY OwnDetail
    <2> HIDE DEF d
    <2>2. left = FALSE
      BY <1>3, NothingCovers, LimitAssumption DEF IInv, TypeOK, ReportContract, Nothing
    <2>3. One(d) \in Report /\ <<d>> \in Seq(Detail) /\ Covers(One(d), <<d>>, FALSE, MaxErrors)
      BY <2>1, OneCovers, LimitAssumption
    <2>4. TypeOK'
      BY <1>1, <1>3, <2>3 DEF IInv, TypeOK, Count
    <2>5. ReportContract'
      BY <1>1, <1>3, <2>2, <2>3 DEF ReportContract
    <2> QED BY <1>1, <2>4, <2>5 DEF IInv, FreshAtEntry
  <1> QED BY <1>2, <1>3 DEF CloseSet

(* Every step keeps the invariant. *)
LEMMA NextIInv == IInv /\ [Next]_vars => IInv'
  <1> SUFFICES ASSUME IInv, [Next]_vars PROVE IInv'
    OBVIOUS
  <1>1. CASE Reject         BY <1>1, RejectKeeps
  <1>2. CASE Accept         BY <1>2 DEF Accept, IInv, TypeOK, ReportContract, FreshAtEntry, Count
  <1>3. CASE VisitItem      BY <1>3, VisitItemKeeps
  <1>4. CASE VisitEntry     BY <1>4, VisitEntryKeeps
  <1>5. CASE CloseParts     BY <1>5 DEF CloseParts, LoopOver, IInv, TypeOK, ReportContract, FreshAtEntry, Count, Collection
  <1>6. CASE VisitIdentity  BY <1>6, VisitIdentityKeeps
  <1>7. CASE CloseSet       BY <1>7, CloseSetKeeps
  <1>8. CASE UNCHANGED vars BY <1>8 DEF vars, IInv, TypeOK, ReportContract, FreshAtEntry, Count
  <1> QED BY <1>1, <1>2, <1>3, <1>4, <1>5, <1>6, <1>7, <1>8 DEF Next

-----------------------------------------------------------------------------
(* The variables of a collection's validation keep their types. *)
THEOREM TypeCorrect == Spec => []TypeOK
  <1>1. IInv => TypeOK
    BY DEF IInv
  <1> QED BY <1>1, InitIInv, NextIInv, PTL DEF Spec

(* The report of a collection is the capped prefix of the errors of the    *)
(* visited parts and is flagged exactly when it is not the whole story:    *)
(* append, is_full and stop_after_error_cap, for every cap and nesting.    *)
THEOREM ReportsAreExact == Spec => []ReportContract
  <1>1. IInv => ReportContract
    BY DEF IInv
  <1> QED BY <1>1, InitIInv, NextIInv, PTL DEF Spec
-----------------------------------------------------------------------------
(* The output holds exactly the parts it should, of the first n ones, in   *)
(* their order: all of them, or of a set the first of every identity.      *)
Held(out, p) == \E i \in 1 .. Len(out) : out[i] = p

Repeats(p) == \E q \in 1 .. p - 1 : collection.parts[q].identity = collection.parts[p].identity

HoldsFirst(out, n) ==
  /\ \A p \in 1 .. Count : Held(out, p) <=> p <= n /\ (collection.kind = "set" => ~Repeats(p))
  /\ \A i, j \in 1 .. Len(out) : i < j => out[i] < out[j]

Identities(n) == {collection.parts[p].identity : p \in 1 .. n}

PartFine(p) ==
  /\ IsFine(collection.parts[p].value)
  /\ Keyed(collection.kind) => IsFine(collection.parts[p].key) /\ ~Repeats(p)

(* A loop has accounted for the parts before pos: each of them is in the   *)
(* output or mentioned, and as long as nothing was found, all were fine    *)
(* and the output and the identities seen are theirs.  A loop that is full *)
(* too early has said so.                                                  *)
Accounted ==
  /\ pass = "enter" => pos = 0 /\ found = << >> /\ output = << >> /\ seen = {}
  /\ pass \in {"parts", "keys"} =>
       collection.accepted /\ (IsFull(errors, MaxErrors) /\ pos < Count => left)
  /\ pass = "parts" /\ collection.kind # "set" =>
       \A p \in 1 .. pos : Held(output, p) \/ Mentioned(p)
  /\ pass = "parts" /\ found = << >> =>
       /\ \A p \in 1 .. pos : PartFine(p)
       /\ collection.kind = "set" => output = << >> /\ seen = {}
       /\ collection.kind # "set" => HoldsFirst(output, pos)
       /\ Keyed(collection.kind) => seen = Identities(pos)
  /\ pass = "keys" =>
       /\ collection.kind = "set" /\ \A p \in 1 .. Count : PartFine(p)
       /\ found = << >> => HoldsFirst(output, pos) /\ seen = Identities(pos)

PartsInv == Accounted /\ NoPartVanishes /\ ValidOutput

(* The two passes over a set: the first has mentioned the items before pos *)
(* that are not valid, and only such items give errors; the second has     *)
(* seen the identities of the items before pos, or has mentioned them.     *)
SetParts ==
  collection.kind = "set" =>
    /\ pass = "parts" => \A p \in 1 .. pos : IsFine(collection.parts[p].value) \/ Mentioned(p)
    /\ pass = "parts" /\ found # << >> => \E q \in 1 .. Count : ~IsFine(collection.parts[q].value)
    /\ pass = "keys" => \A p \in 1 .. pos : collection.parts[p].identity \in seen \/ Mentioned(p)

-----------------------------------------------------------------------------
(* What is in a sequence stays in it when it grows.                        *)
LEMMA HeldAppend ==
  ASSUME NEW S, NEW out \in Seq(S), NEW x \in S
  PROVE  /\ Append(out, x) \in Seq(S)
         /\ \A p : Held(Append(out, x), p) <=> Held(out, p) \/ p = x
  <1>1. /\ Append(out, x) \in Seq(S) /\ Len(Append(out, x)) = Len(out) + 1 /\ Len(out) \in Nat
        /\ \A i \in 1 .. Len(out) : Append(out, x)[i] = out[i]
        /\ Append(out, x)[Len(out) + 1] = x
    BY AppendProperties, LenProperties
  <1> DEFINE longer == Append(out, x)
  <1> HIDE DEF longer
  <1>2. ASSUME NEW p PROVE Held(longer, p) <=> Held(out, p) \/ p = x
    BY <1>1 DEF Held, longer
  <1> QED BY <1>1, <1>2 DEF longer

(* The next part is put behind the others, unless it repeats one.          *)
LEMMA HoldsNext ==
  ASSUME TypeOK, NEW n \in 0 .. Count, n < Count, HoldsFirst(output, n), NEW out,
         out = IF collection.kind = "set" /\ Repeats(n + 1) THEN output ELSE Append(output, n + 1)
  PROVE  HoldsFirst(out, n + 1)
  <1>1. Count \in Nat /\ n + 1 \in 1 .. Count /\ output \in Seq(1 .. Count)
    BY DEF TypeOK, Count, Collection
  <1>2. CASE collection.kind = "set" /\ Repeats(n + 1)
    <2>1. ASSUME NEW p \in 1 .. Count
          PROVE  Held(out, p) <=> p <= n + 1 /\ (collection.kind = "set" => ~Repeats(p))
      <3>1. CASE p = n + 1
        BY <1>1, <1>2, <3>1 DEF HoldsFirst
      <3>2. CASE p # n + 1
        <4>1. p <= n <=> p <= n + 1
          BY <1>1, <3>2
        <4> QED BY <1>2, <4>1 DEF HoldsFirst
      <3> QED BY <3>1, <3>2
    <2> QED BY <1>2, <2>1 DEF HoldsFirst
  <1>3. CASE ~(collection.kind = "set" /\ Repeats(n + 1))
    <2> DEFINE S == 1 .. Count
    <2>1. output \in Seq(S) /\ n + 1 \in S
      BY <1>1
    <2> HIDE DEF S
    <2>2. \A p : Held(Append(output, n + 1), p) <=> Held(output, p) \/ p = n + 1
      BY <2>1, HeldAppend
    <2>3. out = Append(output, n + 1)
      BY <1>3
    <2>4. ASSUME NEW p \in 1 .. Count
          PROVE  Held(out, p) <=> p <= n + 1 /\ (collection.kind = "set" => ~Repeats(p))
      <3>1. CASE p = n + 1
        BY <1>1, <1>3, <2>2, <2>3, <3>1
      <3>2. CASE p # n + 1
        <4>1. p <= n <=> p <= n + 1
          BY <1>1, <3>2
        <4>2. Held(out, p) <=> Held(output, p)
          BY <2>2, <2>3, <3>2
        <4> QED BY <4>1, <4>2 DEF HoldsFirst
      <3> QED BY <3>1, <3>2
    <2>5. ASSUME NEW i \in 1 .. Len(out), NEW j \in 1 .. Len(out), i < j
          PROVE  out[i] < out[j]
      <3>1. /\ Len(out) = Len(output) + 1 /\ Len(output) \in Nat
            /\ \A k \in 1 .. Len(output) : out[k] = output[k]
            /\ out[Len(output) + 1] = n + 1
        BY <2>1, <2>3, AppendProperties, LenProperties
      <3>2. CASE j = Len(output) + 1
        <4>1. i \in 1 .. Len(output) /\ out[i] = output[i] /\ out[j] = n + 1
          BY <2>5, <3>1, <3>2
        <4>2. output[i] \in 1 .. Count
          BY <1>1, <4>1, ElementOfSeq
        <4>3. Held(output, output[i])
          BY <4>1 DEF Held
        <4>4. output[i] <= n
          BY <4>2, <4>3 DEF HoldsFirst
        <4> QED BY <1>1, <4>1, <4>2, <4>4
      <3>3. CASE j # Len(output) + 1
        <4>1. i \in 1 .. Len(output) /\ j \in 1 .. Len(output)
          BY <2>5, <3>1, <3>3
        <4> QED BY <2>5, <3>1, <4>1 DEF HoldsFirst
      <3> QED BY <3>2, <3>3
    <2> QED BY <2>4, <2>5 DEF HoldsFirst
  <1> QED BY <1>2, <1>3

(* One more identity.                                                      *)
LEMMA IdentitiesNext ==
  ASSUME NEW n \in Nat
  PROVE  /\ Identities(n + 1) = Identities(n) \cup {collection.parts[n + 1].identity}
         /\ Repeats(n + 1) <=> collection.parts[n + 1].identity \in Identities(n)
  <1>1. 1 .. n + 1 = (1 .. n) \cup {n + 1} /\ (n + 1) - 1 = n
    OBVIOUS
  <1> QED BY <1>1 DEF Identities, Repeats

(* A list of errors has one located in a part.                             *)
Mentions(s, p) ==
  \E i \in 1 .. Len(s) : s[i].location # << >> /\ Head(s[i].location)[2] = p - 1

(* A longer list of errors mentions what its parts mention.                *)
LEMMA MentionsConcat ==
  ASSUME NEW s \in Seq(Detail), NEW t \in Seq(Detail), NEW p, Mentions(s, p) \/ Mentions(t, p)
  PROVE  Mentions(s \o t, p)
  <1> DEFINE w == s \o t
  <1>1. /\ Len(w) = Len(s) + Len(t) /\ Len(s) \in Nat /\ Len(t) \in Nat
        /\ \A i \in 1 .. Len(s) + Len(t) : w[i] = IF i <= Len(s) THEN s[i] ELSE t[i - Len(s)]
    BY ConcatElements
  <1> HIDE DEF w
  <1>2. CASE Mentions(s, p)
    <2>1. PICK i \in 1 .. Len(s) : s[i].location # << >> /\ Head(s[i].location)[2] = p - 1
      BY <1>2 DEF Mentions
    <2>2. i \in 1 .. Len(w) /\ w[i] = s[i]
      BY <1>1
    <2> QED BY <2>1, <2>2 DEF Mentions, w
  <1>3. CASE Mentions(t, p)
    <2>1. PICK i \in 1 .. Len(t) : t[i].location # << >> /\ Head(t[i].location)[2] = p - 1
      BY <1>3 DEF Mentions
    <2>2. i + Len(s) \in 1 .. Len(w) /\ w[i + Len(s)] = t[i]
      BY <1>1
    <2> QED BY <2>1, <2>2 DEF Mentions, w
  <1> QED BY <1>2, <1>3

(* The errors of a part are located below it.                              *)
LEMMA PartMentioned ==
  ASSUME NEW o \in Outcome(MaxErrors), ~IsFine(o), NEW n \in Nat, NEW x,
         <<<<x, n>>>> \in Path
  PROVE  Mentions(LocateAll(<<<<x, n>>>>, o.found), n + 1)
  <1> DEFINE path == <<<<x, n>>>>
             all == LocateAll(path, o.found)
  <1>1. o.found \in Seq(Detail) /\ o.found # << >>
    BY DEF Outcome, IsFine
  <1>2. 1 \in 1 .. Len(o.found)
    BY <1>1
  <1>3. Len(all) = Len(o.found) /\ all[1] = Locate(path, o.found[1])
    BY <1>1, <1>2, LocateAllType
  <1>4. o.found[1] \in Detail
    BY <1>1, <1>2, ElementOfSeq
  <1>5. all[1].location = path \o o.found[1].location /\ o.found[1].location \in Path
    BY <1>3, <1>4 DEF Locate, Detail
  <1> DEFINE longer == path \o o.found[1].location
  <1>6. longer # << >> /\ Head(longer) = <<x, n>>
    <2>1. o.found[1].location \in Seq(Item) /\ path \in Seq(Item)
      BY <1>5 DEF Path
    <2>2. Len(longer) = 1 + Len(o.found[1].location) /\ longer[1] = path[1]
      BY <2>1
    <2> QED BY <2>1, <2>2
  <1>7. Head(longer)[2] = (n + 1) - 1
    BY <1>6
  <1> QED BY <1>2, <1>3, <1>5, <1>6, <1>7 DEF Mentions

(* When nothing is found after an outcome is collected, it is fine, and    *)
(* nothing was found before.                                               *)
LEMMA NothingNew ==
  ASSUME NEW f \in Seq(Detail), NEW path \in Path, NEW o \in Outcome(MaxErrors),
         f \o LocateAll(path, o.found) = << >>
  PROVE  f = << >> /\ IsFine(o)
  <1>1. o.found \in Seq(Detail)
    BY DEF Outcome
  <1> DEFINE g == LocateAll(path, o.found)
  <1>2. g \in Seq(Detail) /\ Len(g) = Len(o.found)
    BY <1>1, LocateAllType
  <1> HIDE DEF g
  <1>3. Len(f \o g) = Len(f) + Len(g)
    BY <1>2, ConcatElements
  <1>4. Len(f) = 0 /\ Len(g) = 0
    BY <1>2, <1>3, EmptySeq DEF g
  <1> QED BY <1>1, <1>2, <1>4, EmptySeq DEF IsFine

(* A loop that ends an iteration full too early says so.                   *)
LEMMA EndIterationSays ==
  ASSUME NEW e \in Report, NEW l \in BOOLEAN, EndIteration(e, l),
         IsFull(errors', MaxErrors), pos' < Count
  PROVE  left'
  BY DEF EndIteration, StopAfterErrorCap, MarkTruncated, IsFull, Report

(* How a loop ends: with all parts visited, or saying that it did not.     *)
LEMMA LoopEnds ==
  ASSUME IInv, Accounted, NEW loop \in {"parts", "keys"}, LoopOver(loop)
  PROVE  /\ pos = Count \/ errors.truncated
         /\ errors = Nothing => pos = Count /\ found = << >>
  <1>1. pass \in {"parts", "keys"} /\ (pos = Count \/ (IsFull(errors, MaxErrors) /\ pos < Count))
    BY DEF LoopOver, InLoop, IInv, TypeOK, Count, Collection
  <1>2. pos = Count \/ errors.truncated
    BY <1>1 DEF Accounted, IInv, ReportContract, Covers
  <1>3. ASSUME errors = Nothing PROVE pos = Count /\ found = << >>
    <2>1. ~IsFull(errors, MaxErrors)
      <3>1. Len(errors.details) = 0
        BY <1>3, EmptySeq DEF Nothing
      <3> QED BY <3>1, LimitAssumption DEF IsFull
    <2>2. found = << >>
      BY <1>3, NothingCovers, LimitAssumption DEF IInv, TypeOK, ReportContract, Nothing
    <2> QED BY <1>1, <2>1, <2>2
  <1> QED BY <1>2, <1>3

-----------------------------------------------------------------------------
(* Before anything is entered nothing is owed.                             *)
LEMMA PartsInit == Init => PartsInv
  BY DEF Init, PartsInv, Accounted, NoPartVanishes, ValidOutput

(* Rejecting and accepting.                                                *)
LEMMA EntryKeepsParts == IInv /\ PartsInv /\ (Reject \/ Accept) => PartsInv'
  <1> SUFFICES ASSUME IInv, PartsInv, Reject \/ Accept PROVE PartsInv'
    OBVIOUS
  <1>1. CASE Reject
    <2>1. errors' # Nothing
      BY <1>1 DEF Reject, One, Nothing
    <2> QED BY <1>1, <2>1 DEF Reject, PartsInv, Accounted, NoPartVanishes, ValidOutput, Count
  <1>2. CASE Accept
    <2>1. /\ pass' = "parts" /\ collection' = collection /\ collection.accepted
          /\ pos' = 0 /\ found' = << >> /\ output' = << >> /\ seen' = {} /\ errors' = Nothing
      BY <1>2 DEF Accept, PartsInv, Accounted, IInv, FreshAtEntry
    <2>2. ~IsFull(Nothing, MaxErrors)
      BY EmptySeq, LimitAssumption DEF IsFull, Nothing
    <2>3. HoldsFirst(<< >>, 0)
      BY EmptySeq DEF HoldsFirst, Held
    <2>4. Identities(0) = {}
      BY DEF Identities
    <2> DEFINE empty == << >>
    <2> HIDE DEF empty
    <2>5. Accounted'
      BY <2>1, <2>2, <2>3, <2>4 DEF Accounted, HoldsFirst, Held, Repeats, Identities, Count
    <2> QED BY <2>1, <2>5 DEF PartsInv, NoPartVanishes, ValidOutput
  <1> QED BY <1>1, <1>2

(* A step inside of a loop keeps the invariant when it accounts for its    *)
(* part: that puts together what the three kinds of iterations have in     *)
(* common.                                                                 *)
LEMMA IterationKeepsParts ==
  ASSUME IInv, PartsInv, pos < Count, NEW e \in Report, NEW l \in BOOLEAN, EndIteration(e, l),
         UNCHANGED <<collection, pass>>, pass \in {"parts", "keys"},
         pass = "parts" /\ collection.kind # "set" =>
           \A p \in 1 .. pos + 1 : Held(output', p) \/ Mentions(found', p),
         found' = << >> =>
           /\ found = << >>
           /\ PartFine(pos + 1)
           /\ IF pass = "parts" /\ collection.kind = "set"
              THEN UNCHANGED <<output, seen>>
              ELSE HoldsFirst(output', pos + 1)
           /\ pass = "keys" \/ Keyed(collection.kind) =>
                seen' = seen \cup {collection.parts[pos + 1].identity}
  PROVE  PartsInv'
  <1>1. pos' = pos + 1 /\ pos \in Nat /\ Count \in Nat /\ 1 .. pos + 1 = (1 .. pos) \cup {pos + 1}
    BY DEF EndIteration, IInv, TypeOK, Count, Collection
  <1>2. /\ collection' = collection /\ pass' = pass /\ Count' = Count
        /\ \A p : PartFine(p)' <=> PartFine(p)
        /\ \A p : Held(output, p)' <=> Held(output', p)
        /\ \A p : Mentioned(p)' <=> Mentions(found', p)
        /\ \A n : HoldsFirst(output, n)' <=> HoldsFirst(output', n)
        /\ \A n : Identities(n)' = Identities(n)
    BY DEF Count, PartFine, Repeats, Held, Mentioned, Mentions, HoldsFirst, Identities
  <1>3. Identities(pos + 1) = Identities(pos) \cup {collection.parts[pos + 1].identity}
    BY <1>1, IdentitiesNext
  <1>4. IsFull(errors', MaxErrors) /\ pos' < Count => left'
    BY EndIterationSays
  <1>5. Accounted'
    <2>1. (pass \in {"parts", "keys"} =>
             collection.accepted /\ (IsFull(errors, MaxErrors) /\ pos < Count => left))'
      BY <1>2, <1>4 DEF PartsInv, Accounted
    <2>2. (pass = "parts" /\ collection.kind # "set" =>
             \A p \in 1 .. pos : Held(output, p) \/ Mentioned(p))'
      BY <1>1, <1>2
    <2>3. ASSUME pass = "parts", found' = << >>
          PROVE  /\ \A p \in 1 .. pos + 1 : PartFine(p)
                 /\ collection.kind = "set" => output' = << >> /\ seen' = {}
                 /\ collection.kind # "set" => HoldsFirst(output', pos + 1)
                 /\ Keyed(collection.kind) => seen' = Identities(pos + 1)
      BY <1>1, <1>3, <2>3 DEF PartsInv, Accounted
    <2>4. ASSUME pass = "keys"
          PROVE  /\ collection.kind = "set" /\ \A p \in 1 .. Count : PartFine(p)
                 /\ found' = << >> => HoldsFirst(output', pos + 1) /\ seen' = Identities(pos + 1)
      BY <1>1, <1>3, <2>4 DEF PartsInv, Accounted
    <2> QED BY <1>1, <1>2, <2>1, <2>2, <2>3, <2>4 DEF Accounted
  <1> QED BY <1>2, <1>5 DEF PartsInv, NoPartVanishes, ValidOutput

(* Appending the visited part keeps what is held and adds it.              *)
LEMMA OutputKeeps ==
  ASSUME TypeOK, pos < Count
  PROVE  /\ pos + 1 \in 1 .. Count
         /\ \A p : Held(Append(output, pos + 1), p) <=> Held(output, p) \/ p = pos + 1
  <1> DEFINE S == 1 .. Count
  <1>1. output \in Seq(S) /\ pos + 1 \in S
    BY VisitedType DEF TypeOK
  <1> HIDE DEF S
  <1>2. \A p : Held(Append(output, pos + 1), p) <=> Held(output, p) \/ p = pos + 1
    BY <1>1, HeldAppend
  <1> QED BY <1>1, <1>2 DEF S

(* Items of lists and tuples, and the first pass over sets.                *)
LEMMA VisitItemKeepsParts == IInv /\ PartsInv /\ VisitItem => PartsInv'
  <1> SUFFICES ASSUME IInv, PartsInv, VisitItem PROVE PartsInv'
    OBVIOUS
  <1> DEFINE o == Visited.value
             path == AtIndex
             e == Collect(errors, path, o, MaxErrors)
             g == LocateAll(path, o.found)
             l == left \/ o.left
  <1>1. TypeOK /\ ReportContract /\ pos < Count
    BY DEF IInv, VisitItem, InLoop
  <1>2. /\ o \in Outcome(MaxErrors) /\ path \in Path /\ path = <<<<"index", pos>>>>
        /\ pos + 1 \in 1 .. Count /\ pos \in Nat
    BY <1>1, VisitedType DEF Part, AtIndex
  <1>3. e \in Report /\ l \in BOOLEAN /\ g \in Seq(Detail)
    <2>1. o.found \in Seq(Detail)
      BY <1>2 DEF Outcome
    <2> HIDE DEF o, path
    <2> QED BY <1>1, <1>2, <2>1, CollectCovers, LocateAllType, LimitAssumption DEF TypeOK, ReportContract
  <1>4. /\ EndIteration(e, l) /\ found' = found \o g
        /\ output' = IF IsFine(o) /\ collection.kind # "set" THEN Append(output, pos + 1) ELSE output
        /\ UNCHANGED <<collection, pass, seen>> /\ pass = "parts" /\ ~Keyed(collection.kind)
    BY DEF VisitItem, InLoop
  <1>5. o = collection.parts[pos + 1].value
    BY DEF Visited
  <1> HIDE DEF o, path, e, l
  <1>6. found \in Seq(Detail)
    BY <1>1 DEF TypeOK
  <1>7. ASSUME collection.kind # "set", NEW p \in 1 .. pos + 1
        PROVE  Held(output', p) \/ Mentions(found', p)
    <2>1. CASE p = pos + 1 /\ IsFine(o)
      BY <1>1, <1>4, <1>7, <2>1, OutputKeeps
    <2>2. CASE p = pos + 1 /\ ~IsFine(o)
      <3>1. Mentions(g, p)
        BY <1>2, <2>2, PartMentioned
      <3> QED BY <1>3, <1>4, <1>6, <3>1, MentionsConcat
    <2>3. CASE p # pos + 1
      <3>1. p \in 1 .. pos
        BY <1>2, <2>3
      <3>2. Held(output, p) \/ Mentions(found, p)
        BY <1>4, <1>7, <3>1 DEF PartsInv, Accounted, Mentioned, Mentions
      <3>3. Mentions(found, p) => Mentions(found', p)
        BY <1>3, <1>4, <1>6, MentionsConcat
      <3> QED BY <1>1, <1>4, <3>2, <3>3, OutputKeeps
    <2> QED BY <2>1, <2>2, <2>3
  <1>8. ASSUME found' = << >>
        PROVE  /\ found = << >>
               /\ PartFine(pos + 1)
               /\ IF collection.kind = "set" THEN UNCHANGED <<output, seen>> ELSE HoldsFirst(output', pos + 1)
    <2>1. found = << >> /\ IsFine(o)
      BY <1>2, <1>4, <1>6, <1>8, NothingNew
    <2>2. PartFine(pos + 1)
      BY <1>4, <1>5, <2>1 DEF PartFine
    <2>3. ASSUME collection.kind # "set" PROVE HoldsFirst(output', pos + 1)
      <3>1. HoldsFirst(output, pos)
        BY <1>4, <2>1, <2>3 DEF PartsInv, Accounted
      <3>2. output' = IF collection.kind = "set" /\ Repeats(pos + 1) THEN output ELSE Append(output, pos + 1)
        BY <1>4, <2>1, <2>3
      <3>3. pos \in 0 .. Count
        BY <1>1 DEF TypeOK
      <3> QED BY <1>1, <3>1, <3>2, <3>3, HoldsNext
    <2>4. collection.kind = "set" => UNCHANGED <<output, seen>>
      BY <1>4
    <2> QED BY <2>1, <2>2, <2>3, <2>4
  <1> HIDE DEF g
  <1> QED BY <1>1, <1>3, <1>4, <1>7, <1>8, IterationKeepsParts

(* Entries of mappings: a key, then a value, then whether the key repeats. *)
LEMMA VisitEntryKeepsParts == IInv /\ PartsInv /\ VisitEntry => PartsInv'
  <1> SUFFICES ASSUME IInv, PartsInv, VisitEntry PROVE PartsInv'
    OBVIOUS
  <1> DEFINE part == Visited
             ofKey == KeyOutcome(part)
             ofValue == part.value
             kept == IsFine(ofKey) /\ IsFine(ofValue)
             keyPath == AtKey
             valuePath == AtValue
             gKey == LocateAll(keyPath, ofKey.found)
             gValue == LocateAll(valuePath, ofValue.found)
             e1 == Collect(errors, keyPath, ofKey, MaxErrors)
             e == Collect(e1, valuePath, ofValue, MaxErrors)
             l == left \/ ofKey.left \/ ofValue.left
  <1>1. TypeOK /\ ReportContract /\ pos < Count
    BY DEF IInv, VisitEntry, InLoop
  <1>2. /\ part \in Part /\ ofValue \in Outcome(MaxErrors)
        /\ keyPath \in Path /\ valuePath \in Path /\ pos + 1 \in 1 .. Count /\ pos \in Nat
    BY <1>1, VisitedType DEF Part
  <1>3. PICK x, y : keyPath = <<<<x, pos>>>> /\ valuePath = <<<<y, pos>>>>
    BY DEF AtKey, AtValue
  <1>4. ofKey \in Outcome(MaxErrors)
    <2>1. part.key \in Outcome(MaxErrors)
      BY <1>2 DEF Part
    <2> QED BY <2>1, OwnDetail, SmallOutcomes, LimitAssumption DEF KeyOutcome
  <1>5. ASSUME kept
        PROVE  IsFine(part.key) /\ part.identity \notin seen
    <2>1. /\ ~IsFine(Single([location |-> << >>, code |-> "unhashable"]))
          /\ ~IsFine(Single([location |-> << >>, code |-> "duplicate"]))
      BY DEF IsFine, Single
    <2>2. IsFine(part.key)
      BY <1>5 DEF KeyOutcome
    <2> HIDE DEF part
    <2> QED BY <1>5, <2>1, <2>2 DEF KeyOutcome
  <1>6. /\ EndIteration(e, l) /\ found' = (found \o gKey) \o gValue
        /\ output' = IF kept THEN Append(output, pos + 1) ELSE output
        /\ seen' = IF kept THEN seen \cup {part.identity} ELSE seen
        /\ UNCHANGED <<collection, pass>> /\ pass = "parts" /\ Keyed(collection.kind)
        /\ collection.kind # "set"
    BY DEF VisitEntry, InLoop, Keyed
  <1>7. part = collection.parts[pos + 1]
    BY DEF Visited
  <1>8. ofValue.found \in Seq(Detail) /\ ofKey.found \in Seq(Detail)
    BY <1>2, <1>4 DEF Outcome
  <1> HIDE DEF part, ofKey, ofValue, keyPath, valuePath
  <1>9. found \in Seq(Detail) /\ gKey \in Seq(Detail) /\ gValue \in Seq(Detail)
    BY <1>1, <1>2, <1>8, LocateAllType DEF TypeOK
  <1>10. found \o gKey \in Seq(Detail)
    BY <1>9, ConcatElements
  <1>11. e \in Report /\ l \in BOOLEAN
    <2>1. e1 \in Report /\ Covers(e1, found \o gKey, left \/ ofKey.left, MaxErrors)
      BY <1>1, <1>2, <1>4, CollectCovers, LimitAssumption DEF TypeOK, ReportContract
    <2>2. (left \/ ofKey.left) \in BOOLEAN
      OBVIOUS
    <2> HIDE DEF e1, gKey
    <2> QED BY <1>2, <1>10, <2>1, <2>2, CollectCovers, LimitAssumption
  <1> HIDE DEF e, l
  <1>12. ASSUME NEW p \in 1 .. pos + 1
         PROVE  Held(output', p) \/ Mentions(found', p)
    <2>1. CASE p = pos + 1 /\ kept
      BY <1>1, <1>6, <2>1, OutputKeeps
    <2>2. CASE p = pos + 1 /\ ~kept
      <3>1. Mentions(gKey, p) \/ Mentions(gValue, p)
        BY <1>2, <1>3, <1>4, <2>2, PartMentioned
      <3>2. Mentions(gKey, p) => Mentions(found \o gKey, p)
        BY <1>9, MentionsConcat
      <3> QED BY <1>6, <1>9, <1>10, <3>1, <3>2, MentionsConcat
    <2>3. CASE p # pos + 1
      <3>1. p \in 1 .. pos
        BY <1>2, <2>3
      <3>2. Held(output, p) \/ Mentions(found, p)
        BY <1>6, <3>1 DEF PartsInv, Accounted, Mentioned, Mentions
      <3>3. Mentions(found, p) => Mentions(found \o gKey, p)
        BY <1>9, MentionsConcat
      <3>4. Mentions(found, p) => Mentions(found', p)
        BY <1>6, <1>9, <1>10, <3>3, MentionsConcat
      <3> QED BY <1>1, <1>6, <3>2, <3>4, OutputKeeps
    <2> QED BY <2>1, <2>2, <2>3
  <1>13. ASSUME found' = << >>
         PROVE  /\ found = << >> /\ PartFine(pos + 1) /\ HoldsFirst(output', pos + 1)
                /\ seen' = seen \cup {collection.parts[pos + 1].identity}
    <2>1. found \o gKey = << >> /\ IsFine(ofValue)
      BY <1>2, <1>6, <1>10, <1>13, NothingNew
    <2>2. found = << >> /\ IsFine(ofKey)
      BY <1>2, <1>4, <1>9, <2>1, NothingNew
    <2>3. kept
      BY <2>1, <2>2
    <2>4. /\ HoldsFirst(output, pos) /\ seen = Identities(pos)
      BY <1>6, <2>2 DEF PartsInv, Accounted
    <2>5. ~Repeats(pos + 1)
      BY <1>2, <1>5, <1>7, <2>3, <2>4, IdentitiesNext
    <2>6. PartFine(pos + 1)
      BY <1>5, <1>7, <2>1, <2>3, <2>5 DEF PartFine, ofValue
    <2>7. HoldsFirst(output', pos + 1)
      <3>1. output' = IF collection.kind = "set" /\ Repeats(pos + 1) THEN output ELSE Append(output, pos + 1)
        BY <1>6, <2>3
      <3>2. pos \in 0 .. Count
        BY <1>1 DEF TypeOK
      <3> QED BY <1>1, <2>4, <3>1, <3>2, HoldsNext
    <2> QED BY <1>6, <1>7, <2>2, <2>3, <2>6, <2>7
  <1> HIDE DEF kept, gKey, gValue
  <1> QED BY <1>1, <1>6, <1>11, <1>12, <1>13, IterationKeepsParts

(* The second pass over sets, by identity.                                 *)
LEMMA VisitIdentityKeepsParts == IInv /\ PartsInv /\ VisitIdentity => PartsInv'
  <1> SUFFICES ASSUME IInv, PartsInv, VisitIdentity PROVE PartsInv'
    OBVIOUS
  <1> DEFINE identity == Visited.identity
             o == IF identity = Unhashable
                  THEN Single([location |-> << >>, code |-> "unhashable"]) ELSE Fine
             fresh == IsFine(o) /\ identity \notin seen
             path == AtIndex
             e == Collect(errors, path, o, MaxErrors)
  <1>1. TypeOK /\ ReportContract /\ pos < Count
    BY DEF IInv, VisitIdentity, InLoop
  <1>2. path \in Path /\ pos + 1 \in 1 .. Count /\ pos \in Nat /\ pos \in 0 .. Count
    BY <1>1, VisitedType DEF TypeOK
  <1>3. o \in Outcome(MaxErrors)
    BY OwnDetail, SmallOutcomes, LimitAssumption
  <1>4. /\ EndIteration(e, left) /\ found' = found \o LocateAll(path, o.found)
        /\ output' = IF fresh THEN Append(output, pos + 1) ELSE output
        /\ seen' = IF fresh THEN seen \cup {identity} ELSE seen
        /\ UNCHANGED <<collection, pass>> /\ pass = "keys"
    BY DEF VisitIdentity, InLoop
  <1>5. identity = collection.parts[pos + 1].identity
    BY DEF Visited
  <1> HIDE DEF identity, o, path
  <1>6. e \in Report /\ left \in BOOLEAN /\ found \in Seq(Detail)
    BY <1>1, <1>2, <1>3, CollectCovers, LimitAssumption DEF TypeOK, ReportContract
  <1> HIDE DEF e
  <1>7. collection.kind = "set" /\ PartFine(pos + 1)
    BY <1>2, <1>4 DEF PartsInv, Accounted
  <1>8. ASSUME found' = << >>
        PROVE  /\ found = << >> /\ HoldsFirst(output', pos + 1)
               /\ seen' = seen \cup {collection.parts[pos + 1].identity}
    <2>1. found = << >> /\ IsFine(o)
      BY <1>2, <1>3, <1>4, <1>6, <1>8, NothingNew
    <2>2. HoldsFirst(output, pos) /\ seen = Identities(pos)
      BY <1>4, <2>1 DEF PartsInv, Accounted
    <2>3. fresh <=> ~Repeats(pos + 1)
      BY <1>2, <1>5, <2>1, <2>2, IdentitiesNext
    <2>4. output' = IF collection.kind = "set" /\ Repeats(pos + 1) THEN output ELSE Append(output, pos + 1)
      BY <1>4, <1>7, <2>3
    <2>5. HoldsFirst(output', pos + 1)
      BY <1>1, <1>2, <2>2, <2>4, HoldsNext
    <2>6. seen' = seen \cup {identity}
      BY <1>4, <2>1
    <2> QED BY <1>5, <2>1, <2>5, <2>6
  <1> HIDE DEF fresh
  <1> QED BY <1>1, <1>4, <1>6, <1>7, <1>8, IterationKeepsParts

(* The end of the first loop.                                              *)
LEMMA ClosePartsKeepsParts == IInv /\ SetParts /\ PartsInv /\ CloseParts => PartsInv'
  <1> SUFFICES ASSUME IInv, SetParts, PartsInv, CloseParts PROVE PartsInv'
    OBVIOUS
  <1>1. /\ LoopOver("parts") /\ pass = "parts"
        /\ UNCHANGED <<collection, errors, output, seen, found, left>>
    BY DEF CloseParts, LoopOver
  <1>2. /\ pos = Count \/ errors.truncated
        /\ errors = Nothing => pos = Count /\ found = << >>
    BY <1>1, LoopEnds DEF PartsInv
  <1>3. Count \in Nat /\ Count' = Count
    BY <1>1 DEF IInv, TypeOK, Collection, Count
  <1>4. CASE collection.kind = "set" /\ errors = Nothing
    <2>1. pass' = "keys" /\ pos' = 0
      BY <1>4 DEF CloseParts
    <2>2. /\ collection.accepted /\ \A p \in 1 .. Count : PartFine(p)
          /\ output = << >> /\ seen = {}
      BY <1>1, <1>2, <1>4 DEF PartsInv, Accounted
    <2>3. ~IsFull(errors, MaxErrors)
      BY <1>4, EmptySeq, LimitAssumption DEF IsFull, Nothing
    <2>4. HoldsFirst(output, 0) /\ Identities(0) = seen
      BY <2>2, EmptySeq DEF HoldsFirst, Held, Identities
    <2>5. Accounted'
      BY <1>1, <1>3, <1>4, <2>1, <2>2, <2>3, <2>4
         DEF Accounted, HoldsFirst, Held, Repeats, Identities, PartFine, Count
    <2> QED BY <2>1, <2>5 DEF PartsInv, NoPartVanishes, ValidOutput
  <1>5. CASE ~(collection.kind = "set" /\ errors = Nothing)
    <2>1. pass' = "done" /\ pos' = pos
      BY <1>5 DEF CloseParts
    <2>2. NoPartVanishes'
      <3>1. ASSUME collection.kind # "set", NEW p \in 1 .. Count
            PROVE  Held(output, p) \/ Mentioned(p) \/ errors.truncated
        BY <1>1, <1>2, <3>1 DEF PartsInv, Accounted
      <3>2. ASSUME collection.kind = "set", NEW p \in 1 .. Count
            PROVE  \/ Mentioned(p)
                   \/ errors.truncated
                   \/ /\ IsFine(collection.parts[p].value)
                      /\ \E q \in 1 .. Count : ~IsFine(collection.parts[q].value)
        <4>1. errors # Nothing
          BY <1>5, <3>2
        <4>2. found # << >>
          <5> SUFFICES ASSUME found = << >> PROVE errors = Nothing
            BY <4>1
          <5>1. Take(found, MaxErrors) = << >>
            <6>1. found \in Seq(Detail) /\ Len(found) = 0 /\ MaxErrors \in Nat /\ Len(found) <= MaxErrors
              BY EmptySeq, LimitAssumption DEF IInv, TypeOK
            <6> QED BY <6>1, TakeShort
          <5>2. errors.details = << >>
            BY <5>1 DEF IInv, ReportContract, Covers
          <5> QED BY <5>2, NothingCovers, LimitAssumption DEF IInv, TypeOK, ReportContract
        <4> QED BY <1>1, <1>2, <3>2, <4>2 DEF SetParts
      <3> QED BY <1>1, <1>3, <3>1, <3>2 DEF NoPartVanishes, Held, Mentioned
    <2>3. ValidOutput'
      <3>1. ASSUME errors = Nothing
            PROVE  /\ \A p \in 1 .. Count : PartFine(p)
                   /\ HoldsFirst(output, Count)
        BY <1>1, <1>2, <1>5, <3>1 DEF PartsInv, Accounted
      <3> QED BY <1>1, <1>3, <1>5, <3>1 DEF ValidOutput, PartFine, HoldsFirst, Held, Repeats
    <2> QED BY <2>1, <2>2, <2>3 DEF PartsInv, Accounted
  <1> QED BY <1>4, <1>5

(* The end of the second loop.                                             *)
LEMMA CloseSetKeepsParts == IInv /\ SetParts /\ PartsInv /\ CloseSet => PartsInv'
  <1> SUFFICES ASSUME IInv, SetParts, PartsInv, CloseSet PROVE PartsInv'
    OBVIOUS
  <1>1. /\ LoopOver("keys") /\ pass = "keys" /\ pass' = "done"
        /\ UNCHANGED <<collection, pos, output, seen, left>>
    BY DEF CloseSet, LoopOver
  <1>2. /\ pos = Count \/ errors.truncated
        /\ errors = Nothing => pos = Count /\ found = << >>
    BY <1>1, LoopEnds DEF PartsInv
  <1>3. Count \in Nat /\ Count' = Count
    BY <1>1 DEF IInv, TypeOK, Collection, Count
  <1>4. collection.kind = "set" /\ \A p \in 1 .. Count : PartFine(p)
    BY <1>1 DEF PartsInv, Accounted
  <1>7. ASSUME NEW p \in 1 .. Count
        PROVE  collection.parts[p].identity \in seen \/ Mentions(found', p) \/ errors'.truncated
    <2>1. CASE errors = Nothing
      <3>1. seen = Identities(Count)
        BY <1>1, <1>2, <2>1 DEF PartsInv, Accounted
      <3> QED BY <3>1 DEF Identities
    <2>2. CASE errors # Nothing
      <3>1. errors' = errors /\ found' = found
        BY <2>2 DEF CloseSet
      <3>2. p \in 1 .. pos \/ errors.truncated
        BY <1>2
      <3> QED BY <1>1, <1>4, <3>1, <3>2 DEF SetParts, Mentioned, Mentions
    <2> QED BY <2>1, <2>2
  <1>8. NoPartVanishes'
    BY <1>1, <1>3, <1>4, <1>7 DEF NoPartVanishes, Mentioned, Mentions, PartFine
  <1>5. CASE errors' # Nothing
    BY <1>1, <1>4, <1>5, <1>8 DEF PartsInv, Accounted, ValidOutput
  <1>6. CASE errors' = Nothing
    <2>1. errors = Nothing /\ found' = found
      BY <1>6 DEF CloseSet, One, Nothing
    <2>2. HoldsFirst(output, Count) /\ seen = Identities(Count)
      BY <1>1, <1>2, <2>1 DEF PartsInv, Accounted
    <2>4. ValidOutput'
      BY <1>1, <1>3, <1>4, <2>2 DEF ValidOutput, PartFine, HoldsFirst, Held, Repeats
    <2> QED BY <1>1, <1>8, <2>4 DEF PartsInv, Accounted
  <1> QED BY <1>5, <1>6

(* Every step keeps the parts accounted for.                               *)
LEMMA NextParts == IInv /\ SetParts /\ PartsInv /\ [Next]_vars => PartsInv'
  <1> SUFFICES ASSUME IInv, SetParts, PartsInv, [Next]_vars PROVE PartsInv'
    OBVIOUS
  <1>1. CASE UNCHANGED vars
    BY <1>1 DEF vars, PartsInv, Accounted, NoPartVanishes, ValidOutput, Held, Mentioned, Repeats,
                HoldsFirst, Identities, PartFine, Count
  <1> QED BY <1>1, EntryKeepsParts, VisitItemKeepsParts, VisitEntryKeepsParts, ClosePartsKeepsParts,
             VisitIdentityKeepsParts, CloseSetKeepsParts DEF Next

(* The passes over a set mention what they should.                         *)
LEMMA VisitItemKeepsSets == IInv /\ SetParts /\ VisitItem => SetParts'
  <1> SUFFICES ASSUME IInv, SetParts, VisitItem, collection.kind = "set" PROVE SetParts'
    BY DEF VisitItem, SetParts
  <1> DEFINE o == Visited.value
             g == LocateAll(AtIndex, o.found)
  <1>1. /\ pass = "parts" /\ pass' = "parts" /\ collection' = collection
        /\ found' = found \o g /\ pos' = pos + 1 /\ pos < Count
    BY DEF VisitItem, InLoop, EndIteration
  <1>2. /\ pos \in Nat /\ pos + 1 \in 1 .. Count /\ found \in Seq(Detail)
        /\ o \in Outcome(MaxErrors) /\ AtIndex \in Path /\ AtIndex = <<<<"index", pos>>>>
    BY <1>1, VisitedType DEF IInv, TypeOK, Part, AtIndex
  <1>3. o = collection.parts[pos + 1].value /\ Count' = Count
    BY <1>1 DEF Visited, Count
  <1> HIDE DEF o
  <1>4. g \in Seq(Detail)
    <2>1. o.found \in Seq(Detail)
      BY <1>2 DEF Outcome
    <2> QED BY <1>2, <2>1, LocateAllType
  <1>5. ASSUME ~IsFine(o) PROVE Mentions(g, pos + 1)
    BY <1>2, <1>5, PartMentioned
  <1> DEFINE s == found \o g
  <1>6. \A p : Mentions(found, p) \/ Mentions(g, p) => Mentions(s, p)
    BY <1>2, <1>4, MentionsConcat
  <1>7. ASSUME s # << >> PROVE found # << >> \/ ~IsFine(o)
    <2> SUFFICES ASSUME found = << >>, IsFine(o) PROVE FALSE
      OBVIOUS
    <2>1. Len(g) = 0
      <3>1. o.found \in Seq(Detail) /\ Len(o.found) = 0
        BY <1>2, EmptySeq DEF IsFine, Outcome
      <3> QED BY <1>2, <3>1, LocateAllType
    <2>2. g = << >>
      BY <1>4, <2>1, EmptySeq
    <2> QED BY <1>7, <2>2
  <1> HIDE DEF g, s
  <1>8. found' = s
    BY <1>1 DEF s
  <1>9. \A p \in 1 .. pos : IsFine(collection.parts[p].value) \/ Mentions(found, p)
    BY <1>1 DEF SetParts, Mentioned, Mentions
  <1>10. \A p \in 1 .. pos + 1 : IsFine(collection.parts[p].value) \/ Mentions(s, p)
    <2> TAKE p \in 1 .. pos + 1
    <2>1. CASE p = pos + 1
      BY <1>3, <1>5, <1>6, <2>1
    <2>2. CASE p # pos + 1
      <3>1. p \in 1 .. pos
        BY <1>2, <2>2
      <3> QED BY <1>6, <1>9, <3>1
    <2> QED BY <2>1, <2>2
  <1>11. s # << >> => \E q \in 1 .. Count : ~IsFine(collection.parts[q].value)
    BY <1>1, <1>2, <1>3, <1>7 DEF SetParts
  <1> QED BY <1>1, <1>3, <1>8, <1>10, <1>11 DEF SetParts, Mentioned, Mentions

LEMMA VisitIdentityKeepsSets == IInv /\ SetParts /\ VisitIdentity => SetParts'
  <1> SUFFICES ASSUME IInv, SetParts, VisitIdentity, collection.kind = "set" PROVE SetParts'
    BY DEF VisitIdentity, SetParts
  <1> DEFINE identity == Visited.identity
             o == IF identity = Unhashable
                  THEN Single([location |-> << >>, code |-> "unhashable"]) ELSE Fine
             g == LocateAll(AtIndex, o.found)
  <1>1. /\ pass = "keys" /\ pass' = "keys" /\ collection' = collection
        /\ found' = found \o g /\ pos' = pos + 1 /\ pos < Count
        /\ seen' = IF IsFine(o) /\ identity \notin seen THEN seen \cup {identity} ELSE seen
    BY DEF VisitIdentity, InLoop, EndIteration
  <1>2. /\ pos \in Nat /\ pos + 1 \in 1 .. Count /\ found \in Seq(Detail)
        /\ AtIndex \in Path /\ AtIndex = <<<<"index", pos>>>>
    BY <1>1, VisitedType DEF IInv, TypeOK, AtIndex
  <1>3. o \in Outcome(MaxErrors)
    BY OwnDetail, SmallOutcomes, LimitAssumption
  <1>4. identity = collection.parts[pos + 1].identity /\ Count' = Count
    BY <1>1 DEF Visited, Count
  <1> HIDE DEF identity, o
  <1>5. g \in Seq(Detail)
    <2>1. o.found \in Seq(Detail)
      BY <1>3 DEF Outcome
    <2> QED BY <1>2, <2>1, LocateAllType
  <1>6. identity \in seen' \/ Mentions(g, pos + 1)
    <2>1. CASE IsFine(o)
      BY <1>1, <2>1
    <2>2. CASE ~IsFine(o)
      BY <1>2, <1>3, <2>2, PartMentioned
    <2> QED BY <2>1, <2>2
  <1> DEFINE s == found \o g
  <1>7. \A p : Mentions(found, p) \/ Mentions(g, p) => Mentions(s, p)
    BY <1>2, <1>5, MentionsConcat
  <1> HIDE DEF g, s
  <1>8. found' = s
    BY <1>1 DEF s
  <1>9. \A p \in 1 .. pos : collection.parts[p].identity \in seen \/ Mentions(found, p)
    BY <1>1 DEF SetParts, Mentioned, Mentions
  <1>10. seen \subseteq seen'
    BY <1>1
  <1>11. \A p \in 1 .. pos + 1 : collection.parts[p].identity \in seen' \/ Mentions(s, p)
    <2> TAKE p \in 1 .. pos + 1
    <2>1. CASE p = pos + 1
      BY <1>4, <1>6, <1>7, <2>1
    <2>2. CASE p # pos + 1
      <3>1. p \in 1 .. pos
        BY <1>2, <2>2
      <3> QED BY <1>7, <1>9, <1>10, <3>1
    <2> QED BY <2>1, <2>2
  <1> QED BY <1>1, <1>8, <1>11 DEF SetParts, Mentioned, Mentions

LEMMA NextSets == IInv /\ PartsInv /\ SetParts /\ [Next]_vars => SetParts'
  <1> SUFFICES ASSUME IInv, PartsInv, SetParts, [Next]_vars PROVE SetParts'
    OBVIOUS
  <1>1. CASE UNCHANGED vars
    BY <1>1 DEF vars, SetParts, Mentioned, Count
  <1>2. CASE Reject \/ CloseSet
    BY <1>2 DEF Reject, CloseSet, SetParts
  <1>3. CASE Accept
    <2>1. pass' = "parts" /\ pos' = 0 /\ found' = << >>
      BY <1>3 DEF Accept, PartsInv, Accounted
    <2> QED BY <2>1 DEF SetParts
  <1>4. CASE CloseParts
    <2>1. (pass' = "keys" /\ pos' = 0) \/ pass' = "done"
      BY <1>4 DEF CloseParts
    <2> QED BY <2>1 DEF SetParts
  <1>5. CASE VisitEntry
    BY <1>5 DEF VisitEntry, SetParts, Keyed
  <1> QED BY <1>1, <1>2, <1>3, <1>4, <1>5, VisitItemKeepsSets, VisitIdentityKeepsSets DEF Next

LEMMA SetsInit == Init => SetParts
  BY DEF Init, SetParts

(* No part of a collection vanishes: it is in the output, has an error or  *)
(* is covered by the flag of the report; only a valid item of a set may be *)
(* missing, when it equals an item of the output or another item is not    *)
(* valid; for every cap, any number of parts and whatever they report.     *)
THEOREM PartsAreAccounted == Spec => []NoPartVanishes
  <1>1. PartsInv => NoPartVanishes
    BY DEF PartsInv
  <1> QED BY <1>1, InitIInv, NextIInv, PartsInit, NextParts, SetsInit, NextSets, PTL DEF Spec

(* A valid collection holds all of its parts in order, of a set the first  *)
(* of every identity, and a mapping no key twice.                          *)
THEOREM OutputIsRight == Spec => []ValidOutput
  <1>1. PartsInv => ValidOutput
    BY DEF PartsInv
  <1> QED BY <1>1, InitIInv, NextIInv, PartsInit, NextParts, SetsInit, NextSets, PTL DEF Spec

-----------------------------------------------------------------------------
(* While the iterator runs it has given the answers of the items before    *)
(* its index, and the index has not passed a bound; once it is finished it *)
(* has given everything, and it is silent at no other time.                *)
Items(n) == [i \in 1 .. n |-> ItemAnswer(i)]

Running == ~finished => answers = Items(index) /\ ~silent

Given == finished => answers = Promised

IteratorInv ==
  /\ collection \in Collection
  /\ bounds \in Bound
  /\ index \in 0 .. Count
  /\ bounds.max # None => index <= bounds.max[1]
  /\ Running
  /\ Given

(* What the iterator may answer, so that answers are a sequence of it.     *)
Answers == {ItemAnswer(i) : i \in Nat} \cup {LengthError("too_long"), LengthError("too_short")}

LEMMA ItemsProperties ==
  ASSUME NEW n \in Nat
  PROVE  /\ Items(n) \in Seq(Answers)
         /\ Len(Items(n)) = n
         /\ \A i \in 1 .. n : Items(n)[i] = ItemAnswer(i)
  <1>1. \A i \in 1 .. n : ItemAnswer(i) \in Answers
    BY DEF Answers
  <1>2. Items(n) \in [1 .. n -> Answers]
    BY <1>1 DEF Items
  <1>3. Items(n) \in Seq(Answers) /\ Len(Items(n)) = n
    BY <1>2, SeqDef, LenProperties
  <1>4. \A i \in 1 .. n : Items(n)[i] = ItemAnswer(i)
    BY DEF Items
  <1> QED BY <1>3, <1>4

(* One item more.                                                          *)
LEMMA ItemsGrow ==
  ASSUME NEW n \in Nat
  PROVE  Append(Items(n), ItemAnswer(n + 1)) = Items(n + 1)
  <1> DEFINE s == Items(n)
             t == Items(n + 1)
             a == ItemAnswer(n + 1)
  <1>1. /\ s \in Seq(Answers) /\ Len(s) = n
        /\ \A i \in 1 .. n : s[i] = ItemAnswer(i)
    BY ItemsProperties
  <1>2. /\ t \in Seq(Answers) /\ Len(t) = n + 1
        /\ \A i \in 1 .. n + 1 : t[i] = ItemAnswer(i)
    BY ItemsProperties
  <1>3. a \in Answers
    BY DEF Answers
  <1>4. t[n + 1] = a
    BY <1>2
  <1> HIDE DEF s, t, a
  <1>5. \A i \in 1 .. n : t[i] = s[i]
    BY <1>1, <1>2
  <1>6. /\ Append(s, a) \in Seq(Answers) /\ Len(Append(s, a)) = n + 1
        /\ \A i \in 1 .. n : Append(s, a)[i] = s[i]
        /\ Append(s, a)[n + 1] = a
    BY <1>1, <1>3, AppendProperties
  <1>7. \A i \in 1 .. n + 1 : Append(s, a)[i] = t[i]
    BY <1>4, <1>5, <1>6
  <1>8. Append(s, a) = t
    BY <1>2, <1>6, <1>7, SeqEqual
  <1> QED BY <1>8 DEF s, t, a

(* How many items there are and how long the stream is.                    *)
LEMMA CountIsNat ==
  ASSUME collection \in Collection
  PROVE  Count \in Nat
  <1>1. collection.parts \in Seq(Part)
    BY DEF Collection
  <1> QED BY <1>1, LenProperties DEF Count

LEMMA BoundIsNat ==
  ASSUME NEW b \in Bound
  PROVE  /\ b.max # None => b.max[1] \in Nat
         /\ b.min # None => b.min[1] \in Nat
  <1>1. b.max \in Seq(Nat) /\ b.min \in Seq(Nat)
    BY DEF Bound
  <1>2. \A s \in Seq(Nat) : s # << >> => s[1] \in Nat
    <2> TAKE s \in Seq(Nat)
    <2> HAVE s # << >>
    <2>1. Len(s) \in Nat \ {0}
      BY EmptySeq
    <2> QED BY <2>1, ElementOfSeq
  <1> QED BY <1>1, <1>2 DEF None

(* The stream, by the three cases of what it owes.                         *)
LEMMA PromisedCases ==
  /\ (bounds.max # None /\ Count > bounds.max[1]) =>
       Promised = Append(Items(bounds.max[1]), LengthError("too_long"))
  /\ (~(bounds.max # None /\ Count > bounds.max[1]) /\ bounds.min # None /\ Count < bounds.min[1]) =>
       Promised = Append(Items(Count), LengthError("too_short"))
  /\ (/\ ~(bounds.max # None /\ Count > bounds.max[1])
      /\ ~(bounds.min # None /\ Count < bounds.min[1])) => Promised = Items(Count)
  BY Zenon DEF Promised, Items

(* While items are left within the bounds, the stream goes on with the     *)
(* answer of the next one.                                                 *)
LEMMA NextIsPromised ==
  ASSUME collection \in Collection, bounds \in Bound, NEW n \in Nat,
         n < Count, bounds.max # None => n < bounds.max[1]
  PROVE  n < Len(Promised) /\ Promised[n + 1] = ItemAnswer(n + 1)
  <1>1. Count \in Nat
    BY CountIsNat
  <1>2. LengthError("too_long") \in Answers /\ LengthError("too_short") \in Answers
    BY DEF Answers
  <1>3. \A m \in Nat, e \in Answers : n < m =>
          /\ n < Len(Items(m)) /\ Items(m)[n + 1] = ItemAnswer(n + 1)
          /\ n < Len(Append(Items(m), e)) /\ Append(Items(m), e)[n + 1] = ItemAnswer(n + 1)
    <2> TAKE m \in Nat, e \in Answers
    <2> HAVE n < m
    <2>1. /\ Items(m) \in Seq(Answers) /\ Len(Items(m)) = m
          /\ Items(m)[n + 1] = ItemAnswer(n + 1)
      BY ItemsProperties
    <2>2. /\ Len(Append(Items(m), e)) = m + 1
          /\ Append(Items(m), e)[n + 1] = Items(m)[n + 1]
      BY <2>1, AppendProperties
    <2> QED BY <2>1, <2>2
  <1>4. CASE bounds.max # None /\ Count > bounds.max[1]
    <2>1. bounds.max[1] \in Nat /\ n < bounds.max[1]
      BY <1>4, BoundIsNat
    <2>2. Promised = Append(Items(bounds.max[1]), LengthError("too_long"))
      BY <1>4, PromisedCases
    <2> QED BY <1>2, <1>3, <2>1, <2>2
  <1>5. CASE /\ ~(bounds.max # None /\ Count > bounds.max[1])
             /\ bounds.min # None /\ Count < bounds.min[1]
    <2>1. Promised = Append(Items(Count), LengthError("too_short"))
      BY <1>5, PromisedCases
    <2> QED BY <1>1, <1>2, <1>3, <2>1
  <1>6. CASE /\ ~(bounds.max # None /\ Count > bounds.max[1])
             /\ ~(bounds.min # None /\ Count < bounds.min[1])
    <2>1. Promised = Items(Count)
      BY <1>6, PromisedCases
    <2> QED BY <1>1, <1>2, <1>3, <2>1
  <1> QED BY <1>4, <1>5, <1>6

(* An error of length is the last answer.                                  *)
LEMMA LastIsPromised ==
  ASSUME NEW n \in Nat, NEW code \in {"too_long", "too_short"},
         Promised = Append(Items(n), LengthError(code))
  PROVE  /\ Len(Items(n)) < Len(Promised)
         /\ Promised[Len(Items(n)) + 1] = LengthError(code)
  <1>1. LengthError(code) \in Answers
    BY DEF Answers
  <1>2. Items(n) \in Seq(Answers) /\ Len(Items(n)) = n
    BY ItemsProperties
  <1> QED BY <1>1, <1>2, AppendProperties

(* The stream and the items depend on the collection, the bounds and the   *)
(* outcomes of the items by themselves alone.                              *)
LEMMA NothingElseMatters ==
  ASSUME collection' = collection, UNCHANGED given
  PROVE  Promised' = Promised /\ Count' = Count /\ \A n : Items(n)' = Items(n)
  <1> DEFINE
        answer(o, i) == IF IsFine(o[i]) THEN <<"value", i>>
                        ELSE <<"error", At(<<<<"index", i - 1>>>>, ReportOf(o[i], MaxErrors))>>
        some(o, n) == [i \in 1 .. n |-> answer(o, i)]
        total(c) == Len(c.parts)
        all(c, o, b) == IF b.max # None /\ total(c) > b.max[1]
                        THEN Append(some(o, b.max[1]), LengthError("too_long"))
                        ELSE IF b.min # None /\ total(c) < b.min[1]
                        THEN Append(some(o, total(c)), LengthError("too_short"))
                        ELSE some(o, total(c))
  <1>1. Promised = all(collection, pulled, bounds) /\ Promised' = all(collection', pulled', bounds')
    BY Zenon DEF Promised, ItemAnswer, Count
  <1>2. Count = total(collection) /\ Count' = total(collection')
    BY Zenon DEF Count
  <1>3. \A n : Items(n) = some(pulled, n) /\ Items(n)' = some(pulled', n)
    BY Zenon DEF Items, ItemAnswer
  <1>4. pulled' = pulled /\ bounds' = bounds
    BY DEF given
  <1> HIDE DEF all, total, some, answer
  <1> QED BY <1>1, <1>2, <1>3, <1>4

-----------------------------------------------------------------------------
(* The invariant holds at the start,                                       *)
LEMMA IteratorInitInv == IteratorInit => IteratorInv
  <1> SUFFICES ASSUME IteratorInit PROVE IteratorInv
    OBVIOUS
  <1>1. collection \in Collection /\ bounds \in Bound
    BY CollectionsAssumption, BoundsAssumption DEF IteratorInit, Init
  <1>2. Count \in Nat /\ (bounds.max # None => bounds.max[1] \in Nat)
    BY <1>1, CountIsNat, BoundIsNat
  <1>3. index = 0 /\ answers = << >> /\ finished = FALSE /\ silent = FALSE
    BY DEF IteratorInit
  <1>4. Items(0) = << >>
    BY ItemsProperties, EmptySeq
  <1> QED BY <1>1, <1>2, <1>3, <1>4 DEF IteratorInv, Running, Given

(* and steps that leave the iterator or the list alone keep it.            *)
LEMMA OthersKeepInv ==
  ASSUME IteratorInv, collection' = collection, UNCHANGED <<given, index, finished, answers, silent>>
  PROVE  IteratorInv' /\ Promised' = Promised
  <1>1. Promised' = Promised /\ Count' = Count /\ \A n : Items(n)' = Items(n)
    BY NothingElseMatters
  <1>2. Running'
    <2> SUFFICES ASSUME ~finished' PROVE answers' = Items(index)' /\ ~silent'
      BY DEF Running
    <2>1. answers = Items(index) /\ ~silent
      BY DEF IteratorInv, Running
    <2>2. index' = index /\ pulled' = pulled
      BY DEF given
    <2>3. Items(index)' = Items(index)
      BY <2>2 DEF Items, ItemAnswer
    <2> QED BY <2>1, <2>3
  <1>3. Given'
    BY <1>1 DEF IteratorInv, Given
  <1> QED BY <1>1, <1>2, <1>3 DEF IteratorInv, given

(* Each step of the iterator keeps the invariant and is one of the         *)
(* stream's, or none that the stream sees.                                 *)
streamVars == <<Promised, answers, silent>>

LEMMA CreateSteps ==
  ASSUME IteratorInv, CreateIterator, UNCHANGED vars
  PROVE  IteratorInv' /\ UNCHANGED streamVars
  <1>1. collection' = collection /\ UNCHANGED <<given, index, finished, answers, silent>>
    BY DEF CreateIterator, vars
  <1> QED BY <1>1, OthersKeepInv DEF streamVars

LEMMA FinishedSteps ==
  ASSUME IteratorInv, PullFinished, UNCHANGED vars
  PROVE  IteratorInv' /\ Stream!End
  <1>1. /\ collection' = collection /\ UNCHANGED <<given, index, finished, answers>>
        /\ finished /\ silent' = TRUE
    BY DEF PullFinished, AnswerNothing, vars
  <1>2. Promised' = Promised /\ Count' = Count
    BY <1>1, NothingElseMatters
  <1>3. answers = Promised
    BY <1>1 DEF IteratorInv, Given
  <1>4. Running' /\ Given'
    BY <1>1, <1>2, <1>3 DEF Running, Given
  <1>5. IteratorInv'
    BY <1>1, <1>2, <1>4 DEF IteratorInv, given
  <1> QED BY <1>1, <1>2, <1>3, <1>5 DEF Stream!End

LEMMA TooLongSteps ==
  ASSUME IteratorInv, PullTooLong, UNCHANGED vars
  PROVE  IteratorInv' /\ Stream!Deliver
  <1>1. /\ collection' = collection /\ UNCHANGED <<given, index, silent>>
        /\ ~finished /\ finished' = TRUE
        /\ answers' = Append(answers, LengthError("too_long"))
        /\ bounds.max # None /\ index >= bounds.max[1] /\ index < Count
    BY DEF PullTooLong, TooLong, Answer, vars
  <1>2. Promised' = Promised /\ Count' = Count
    BY <1>1, NothingElseMatters
  <1>3. Count \in Nat /\ bounds.max[1] \in Nat /\ index \in Nat
    BY <1>1, CountIsNat, BoundIsNat DEF IteratorInv
  <1>4. index = bounds.max[1] /\ Count > bounds.max[1]
    BY <1>1, <1>3 DEF IteratorInv
  <1>5. answers = Items(index) /\ ~silent
    BY <1>1 DEF IteratorInv, Running
  <1>6. Promised = Append(Items(index), LengthError("too_long"))
    BY <1>1, <1>4, PromisedCases
  <1>7. Len(answers) < Len(Promised) /\ Promised[Len(answers) + 1] = LengthError("too_long")
    BY <1>3, <1>5, <1>6, LastIsPromised
  <1>8. Running' /\ Given'
    BY <1>1, <1>2, <1>5, <1>6 DEF Running, Given
  <1>9. IteratorInv'
    BY <1>1, <1>2, <1>8 DEF IteratorInv, given
  <1> QED BY <1>1, <1>2, <1>5, <1>7, <1>9 DEF Stream!Deliver

LEMMA EndSteps ==
  ASSUME IteratorInv, PullEnd, UNCHANGED vars
  PROVE  IteratorInv' /\ (Stream!Deliver \/ Stream!End)
  <1>1. /\ collection' = collection /\ UNCHANGED <<given, index>>
        /\ ~finished /\ finished' = TRUE /\ index >= Count
    BY DEF PullEnd, vars
  <1>2. Promised' = Promised /\ Count' = Count
    BY <1>1, NothingElseMatters
  <1>3. Count \in Nat /\ index = Count
    BY <1>1, CountIsNat DEF IteratorInv
  <1>4. answers = Items(Count) /\ ~silent
    BY <1>1, <1>3 DEF IteratorInv, Running
  <1>5. ~(bounds.max # None /\ Count > bounds.max[1])
    BY <1>3, BoundIsNat DEF IteratorInv
  <1>6. IteratorInv' <=> Running' /\ Given'
    BY <1>1, <1>2 DEF IteratorInv, given
  <1>7. CASE TooShort
    <2>1. /\ answers' = Append(answers, LengthError("too_short")) /\ UNCHANGED silent
          /\ bounds.min # None /\ Count < bounds.min[1]
      BY <1>3, <1>7 DEF PullEnd, Answer, TooShort
    <2>2. Promised = Append(Items(Count), LengthError("too_short"))
      BY <1>5, <2>1, PromisedCases
    <2>3. Len(answers) < Len(Promised) /\ Promised[Len(answers) + 1] = LengthError("too_short")
      BY <1>3, <1>4, <2>2, LastIsPromised
    <2>4. Running' /\ Given'
      BY <1>1, <1>2, <1>4, <2>1, <2>2 DEF Running, Given
    <2> QED BY <1>1, <1>2, <1>4, <1>6, <2>1, <2>3, <2>4 DEF Stream!Deliver
  <1>8. CASE ~TooShort
    <2>1. silent' = TRUE /\ UNCHANGED answers /\ ~(bounds.min # None /\ Count < bounds.min[1])
      BY <1>3, <1>8 DEF PullEnd, AnswerNothing, TooShort
    <2>2. Promised = Items(Count)
      BY <1>5, <2>1, PromisedCases
    <2>3. Running' /\ Given'
      BY <1>1, <1>2, <1>4, <2>1, <2>2 DEF Running, Given
    <2> QED BY <1>1, <1>2, <1>4, <1>6, <2>1, <2>2, <2>3 DEF Stream!End
  <1> QED BY <1>7, <1>8

LEMMA ItemSteps ==
  ASSUME IteratorInv, PullItem, UNCHANGED vars
  PROVE  IteratorInv' /\ Stream!Deliver
  <1>1. /\ collection' = collection /\ UNCHANGED <<given, finished, silent>>
        /\ ~finished /\ index < Count /\ index' = index + 1
        /\ answers' = Append(answers, ItemAnswer(index + 1))
        /\ ~TooLong
    BY DEF PullItem, Answer, vars
  <1>2. Promised' = Promised /\ Count' = Count /\ \A n : Items(n)' = Items(n)
    BY <1>1, NothingElseMatters
  <1>3. Count \in Nat /\ index \in Nat /\ (bounds.max # None => bounds.max[1] \in Nat)
    BY CountIsNat, BoundIsNat DEF IteratorInv
  <1>4. bounds.max # None => index < bounds.max[1]
    BY <1>1, <1>3 DEF TooLong
  <1>5. answers = Items(index) /\ ~silent
    BY <1>1 DEF IteratorInv, Running
  <1>6. Len(answers) = index
    BY <1>3, <1>5, ItemsProperties
  <1>7. index < Len(Promised) /\ Promised[index + 1] = ItemAnswer(index + 1)
    BY <1>1, <1>3, <1>4, NextIsPromised DEF IteratorInv
  <1>8. answers' = Items(index + 1)
    BY <1>1, <1>3, <1>5, ItemsGrow
  <1>9. Items(index)' = Items(index + 1)
    BY <1>1 DEF Items, ItemAnswer, given
  <1>10. Running' /\ Given'
    BY <1>1, <1>5, <1>8, <1>9 DEF Running, Given
  <1>11. index' \in 0 .. Count' /\ (bounds.max # None => index' <= bounds.max[1])
    BY <1>1, <1>2, <1>3, <1>4
  <1>12. IteratorInv'
    BY <1>1, <1>10, <1>11 DEF IteratorInv, given
  <1> QED BY <1>1, <1>2, <1>5, <1>6, <1>7, <1>12 DEF Stream!Deliver

(* The loops of the collection do not touch the iterator.                  *)
LEMMA LoopsKeepInv ==
  ASSUME IteratorInv, Next, UNCHANGED iteratorVars
  PROVE  IteratorInv' /\ UNCHANGED streamVars
  <1>1. collection' = collection
    BY DEF Next, Reject, Accept, VisitItem, VisitEntry, CloseParts, VisitIdentity, CloseSet
  <1>2. UNCHANGED <<given, index, finished, answers, silent>>
    BY DEF iteratorVars
  <1> QED BY <1>1, <1>2, OthersKeepInv DEF streamVars

(* An iterator over a sequence answers what it promises: the answers of    *)
(* its items in order, each located at its index, then at most one error   *)
(* of length, then nothing for ever - for every list, all bounds and       *)
(* however long it is pulled.                                              *)
THEOREM IteratorKeepsStream == IteratorSpec => StreamKept
  <1>1. IteratorInit => IteratorInv /\ Stream!Init
    BY IteratorInitInv DEF IteratorInit, Stream!Init
  <1>2. IteratorInv /\ [IteratorNext]_<<vars, iteratorVars>> => IteratorInv' /\ [Stream!Next]_(Stream!vars)
    <2> SUFFICES ASSUME IteratorInv, [IteratorNext]_<<vars, iteratorVars>>
                 PROVE  IteratorInv' /\ [Stream!Next]_(Stream!vars)
      OBVIOUS
    <2> USE DEF Stream!Next, Stream!vars
    <2>1. CASE UNCHANGED <<vars, iteratorVars>>
      <3>1. collection' = collection /\ UNCHANGED <<given, index, finished, answers, silent>>
        BY <2>1 DEF vars, iteratorVars
      <3> QED BY <3>1, OthersKeepInv
    <2>2. CASE Next /\ UNCHANGED iteratorVars
      BY <2>2, LoopsKeepInv DEF streamVars
    <2>3. CASE CreateIterator /\ UNCHANGED vars
      BY <2>3, CreateSteps DEF streamVars
    <2>4. CASE PullFinished /\ UNCHANGED vars
      BY <2>4, FinishedSteps
    <2>5. CASE PullTooLong /\ UNCHANGED vars
      BY <2>5, TooLongSteps
    <2>6. CASE PullEnd /\ UNCHANGED vars
      BY <2>6, EndSteps
    <2>7. CASE PullItem /\ UNCHANGED vars
      BY <2>7, ItemSteps
    <2> QED BY <2>1, <2>2, <2>3, <2>4, <2>5, <2>6, <2>7 DEF IteratorNext, IteratorStep
  <1> QED BY <1>1, <1>2, PTL DEF IteratorSpec, StreamKept, Stream!Spec
-----------------------------------------------------------------------------
(* A set of numbers that has 0 and, with each number, the next has them    *)
(* all: otherwise the least one it lacks would be missing for no reason.   *)
LEMMA AllNaturals ==
  ASSUME NEW S \in SUBSET Nat, 0 \in S, \A n \in S : n + 1 \in S
  PROVE  S = Nat
  <1> SUFFICES ASSUME Nat \ S # {} PROVE FALSE
    OBVIOUS
  <1> DEFINE R == {p \in Nat \X Nat : p[1] < p[2]}
             T == Nat \ S
  <1>1. IsWellFoundedOn(R, Nat)
    BY NatLessThanWellFounded DEF OpToRel
  <1>2. \A n, m \in Nat : m < n => <<m, n>> \in R
    OBVIOUS
  <1>3. T \in SUBSET Nat /\ T # {}
    OBVIOUS
  <1> HIDE DEF R, T
  <1>4. PICK n \in T : \A m \in T : ~(<<m, n>> \in R)
    BY <1>1, <1>3, WFMin
  <1>5. n \in Nat /\ n \notin S
    BY <1>4 DEF T
  <1>6. n - 1 \in Nat /\ n - 1 < n
    BY <1>5
  <1>7. n - 1 \in S
    BY <1>2, <1>4, <1>5, <1>6 DEF T
  <1> QED
    BY <1>5, <1>6, <1>7

(* What the recursion of Joined says.                                      *)
LEMMA JoinedIs ==
  ASSUME NEW parts, Len(parts) \in Nat
  PROVE  /\ Joined(parts)[0] = << >>
         /\ \A k \in 1 .. Len(parts) : Joined(parts)[k] = Joined(parts)[k - 1] \o parts[k]
  <1> DEFINE Rule(f, k) == IF k = 0 THEN << >> ELSE f[k - 1] \o parts[k]
             S == {n \in Nat : \E f : f = [k \in 0 .. n |-> Rule(f, k)]}
  <1>1. 0 \in S
    <2> DEFINE f == [k \in 0 .. 0 |-> << >>]
    <2>1. f = [k \in 0 .. 0 |-> Rule(f, k)]
      OBVIOUS
    <2> QED
      BY <2>1
  <1>2. ASSUME NEW n \in S PROVE n + 1 \in S
    <2>1. PICK f : f = [k \in 0 .. n |-> Rule(f, k)]
      OBVIOUS
    <2> DEFINE longer == [k \in 0 .. n + 1 |-> IF k <= n THEN f[k] ELSE Rule(f, n + 1)]
    <2>2. n \in Nat
      OBVIOUS
    <2>3. \A k \in 0 .. n : f[k] = Rule(f, k) /\ longer[k] = f[k]
      <3>1. \A k \in 0 .. n : longer[k] = f[k]
        BY <2>2
      <3> HIDE DEF Rule, longer
      <3>2. \A k \in 0 .. n : f[k] = Rule(f, k)
        BY <2>1
      <3> QED
        BY <3>1, <3>2
    <2>4. longer[n + 1] = Rule(f, n + 1)
      BY <2>2
    <2> HIDE DEF longer
    <2>5. ASSUME NEW k \in 0 .. n + 1 PROVE longer[k] = Rule(longer, k)
      <3>1. CASE k = 0
        BY <2>2, <2>3, <3>1
      <3>2. CASE k # 0
        <4>1. k - 1 \in 0 .. n /\ (k \in 0 .. n \/ k = n + 1)
          BY <2>2, <3>2
        <4>2. longer[k - 1] = f[k - 1]
          BY <2>3, <4>1
        <4> QED
          BY <2>3, <2>4, <3>2, <4>1, <4>2
      <3> QED
        BY <3>1, <3>2
    <2>6. longer = [k \in 0 .. n + 1 |-> Rule(longer, k)]
      <3>1. longer = [k \in 0 .. n + 1 |-> longer[k]]
        BY DEF longer
      <3> HIDE DEF Rule
      <3> QED
        BY <2>5, <3>1
    <2> HIDE DEF Rule
    <2> QED
      BY <2>2, <2>6
  <1>3. S = Nat
    <2> HIDE DEF S
    <2>1. S \in SUBSET Nat
      BY DEF S
    <2> QED
      BY <1>1, <1>2, <2>1, AllNaturals
  <1>4. \E f : f = [k \in 0 .. Len(parts) |-> Rule(f, k)]
    BY <1>3
  <1>5. Joined(parts) = [k \in 0 .. Len(parts) |-> Rule(Joined(parts), k)]
    BY <1>4, Zenon DEF Joined
  <1> QED
    BY <1>5

(* Details joined are details.                                             *)
LEMMA JoinedType ==
  ASSUME NEW parts \in Seq(Seq(Detail))
  PROVE  /\ Len(parts) \in Nat
         /\ \A k \in 1 .. Len(parts) : parts[k] \in Seq(Detail)
         /\ \A k \in 0 .. Len(parts) : Joined(parts)[k] \in Seq(Detail)
         /\ Joined(parts)[0] = << >>
         /\ \A k \in 1 .. Len(parts) : Joined(parts)[k] = Joined(parts)[k - 1] \o parts[k]
  <1>1. Len(parts) \in Nat
    BY LenProperties
  <1>2. \A k \in 1 .. Len(parts) : parts[k] \in Seq(Detail)
    BY ElementOfSeq
  <1>3. /\ Joined(parts)[0] = << >>
        /\ \A k \in 1 .. Len(parts) : Joined(parts)[k] = Joined(parts)[k - 1] \o parts[k]
    BY <1>1, JoinedIs
  <1> DEFINE J == Joined(parts)
             S == {k \in Nat : k <= Len(parts) => J[k] \in Seq(Detail)}
  <1> HIDE DEF J
  <1>4. 0 \in S
    <2>1. << >> \in Seq(Detail)
      BY EmptySeq
    <2> QED
      BY <1>3, <2>1 DEF J
  <1>5. ASSUME NEW k \in S PROVE k + 1 \in S
    <2> SUFFICES ASSUME k + 1 <= Len(parts) PROVE J[k + 1] \in Seq(Detail)
      OBVIOUS
    <2>1. k \in Nat /\ k + 1 \in 1 .. Len(parts) /\ (k + 1) - 1 = k /\ k <= Len(parts)
      BY <1>1
    <2>2. J[k] \in Seq(Detail) /\ parts[k + 1] \in Seq(Detail)
      BY <1>2, <2>1
    <2>3. J[k + 1] = J[k] \o parts[k + 1]
      BY <1>3, <2>1 DEF J
    <2> QED
      BY <2>2, <2>3, ConcatElements
  <1>6. S = Nat
    <2> HIDE DEF S
    <2>1. S \in SUBSET Nat
      BY DEF S
    <2> QED
      BY <1>4, <1>5, <2>1, AllNaturals
  <1>7. \A k \in 0 .. Len(parts) : J[k] \in Seq(Detail)
    BY <1>1, <1>6
  <1> QED
    BY <1>1, <1>2, <1>3, <1>7 DEF J

(* Capping each of two sequences first makes no difference to a cap.       *)
LEMMA TakeJoins ==
  ASSUME NEW s \in Seq(Detail), NEW t \in Seq(Detail), NEW g \in Seq(Detail), NEW m \in Nat,
         Take(s, m) = Take(t, m)
  PROVE  Take(s \o Take(g, m), m) = Take(t \o g, m)
  <1> DEFINE c == Take(g, m)
  <1>1. c \in Seq(Detail)
    BY TakeType
  <1>2. Len(Take(s, m)) = (IF Len(s) < m THEN Len(s) ELSE m) /\ Len(s) \in Nat
    <2>1. CASE Len(s) < m  BY <2>1, TakeShort
    <2>2. CASE m <= Len(s)  BY <2>2, TakeLong
    <2> QED BY <2>1, <2>2
  <1>3. Len(Take(t, m)) = (IF Len(t) < m THEN Len(t) ELSE m) /\ Len(t) \in Nat
    <2>1. CASE Len(t) < m  BY <2>1, TakeShort
    <2>2. CASE m <= Len(t)  BY <2>2, TakeLong
    <2> QED BY <2>1, <2>2
  <1>4. CASE m <= Len(s)
    <2>1. m <= Len(t)
      BY <1>2, <1>3, <1>4
    <2> HIDE DEF c
    <2>2. Take(s \o c, m) = Take(s, m)
      BY <1>1, <1>4, TakeInside
    <2>3. Take(t \o g, m) = Take(t, m)
      BY <2>1, TakeInside
    <2> QED
      BY <2>2, <2>3 DEF c
  <1>5. CASE Len(s) < m
    <2>1. Len(t) < m
      BY <1>2, <1>3, <1>5
    <2>2. s = t
      <3>1. Take(s, m) = s
        BY <1>5, TakeShort
      <3>2. Take(t, m) = t
        BY <2>1, TakeShort
      <3> QED
        BY <3>1, <3>2
    <2> DEFINE k == m - Len(s)
    <2>3. k \in Nat /\ k <= m
      BY <1>2, <1>5
    <2> HIDE DEF c
    <2>4. Take(s \o c, m) = s \o Take(c, k)
      BY <1>1, <1>5, TakeBehind
    <2>5. Take(t \o g, m) = t \o Take(g, m - Len(t))
      BY <2>1, TakeBehind
    <2> HIDE DEF k
    <2>6. Take(c, k) = Take(g, k)
      BY <2>3, TakeTake DEF c
    <2> QED
      BY <2>2, <2>4, <2>5, <2>6 DEF c, k
  <1> QED
    BY <1>2, <1>4, <1>5

(* The same of many.                                                       *)
LEMMA CapsJoin ==
  ASSUME NEW parts \in Seq(Seq(Detail)), NEW capped \in Seq(Seq(Detail)), NEW m \in Nat,
         Len(capped) = Len(parts), \A k \in 1 .. Len(parts) : capped[k] = Take(parts[k], m)
  PROVE  Take(Joined(capped)[Len(parts)], m) = Take(Joined(parts)[Len(parts)], m)
  <1> DEFINE J == Joined(parts)
             C == Joined(capped)
             S == {k \in Nat : k <= Len(parts) => Take(C[k], m) = Take(J[k], m)}
  <1>1. /\ Len(parts) \in Nat
        /\ \A k \in 1 .. Len(parts) : parts[k] \in Seq(Detail)
        /\ \A k \in 0 .. Len(parts) : J[k] \in Seq(Detail)
        /\ J[0] = << >>
        /\ \A k \in 1 .. Len(parts) : J[k] = J[k - 1] \o parts[k]
    BY JoinedType
  <1>2. /\ \A k \in 0 .. Len(parts) : C[k] \in Seq(Detail)
        /\ C[0] = << >>
        /\ \A k \in 1 .. Len(parts) : C[k] = C[k - 1] \o capped[k]
    BY JoinedType
  <1> HIDE DEF J, C
  <1>3. 0 \in S
    BY <1>1, <1>2
  <1>4. ASSUME NEW k \in S PROVE k + 1 \in S
    <2> SUFFICES ASSUME k + 1 <= Len(parts) PROVE Take(C[k + 1], m) = Take(J[k + 1], m)
      OBVIOUS
    <2>1. k \in Nat /\ k + 1 \in 1 .. Len(parts) /\ (k + 1) - 1 = k /\ k \in 0 .. Len(parts)
      BY <1>1
    <2>2. Take(C[k], m) = Take(J[k], m) /\ C[k] \in Seq(Detail) /\ J[k] \in Seq(Detail)
      BY <1>1, <1>2, <2>1
    <2>3. C[k + 1] = C[k] \o Take(parts[k + 1], m)
      BY <1>2, <2>1
    <2>4. J[k + 1] = J[k] \o parts[k + 1]
      BY <1>1, <2>1
    <2>5. parts[k + 1] \in Seq(Detail)
      BY <1>1, <2>1
    <2> HIDE DEF S
    <2> QED
      BY <2>2, <2>3, <2>4, <2>5, TakeJoins
  <1>5. S = Nat
    <2> HIDE DEF S
    <2>1. S \in SUBSET Nat
      BY DEF S
    <2> QED
      BY <1>3, <1>4, <2>1, AllNaturals
  <1> QED
    BY <1>1, <1>5 DEF J, C

(* What fills the cap is not changed by what comes behind.                 *)
LEMMA FullStays ==
  ASSUME NEW parts \in Seq(Seq(Detail)), NEW m \in Nat, NEW n \in 0 .. Len(parts),
         m <= Len(Joined(parts)[n])
  PROVE  Take(Joined(parts)[Len(parts)], m) = Take(Joined(parts)[n], m)
  <1> DEFINE J == Joined(parts)
             S == {k \in Nat : n + k <= Len(parts) =>
                     m <= Len(J[n + k]) /\ Take(J[n + k], m) = Take(J[n], m)}
  <1>1. /\ Len(parts) \in Nat
        /\ \A k \in 1 .. Len(parts) : parts[k] \in Seq(Detail)
        /\ \A k \in 0 .. Len(parts) : J[k] \in Seq(Detail)
        /\ \A k \in 1 .. Len(parts) : J[k] = J[k - 1] \o parts[k]
    BY JoinedType
  <1>0. n \in Nat
    OBVIOUS
  <1>2. m <= Len(J[n])
    OBVIOUS
  <1> HIDE DEF J
  <1>3. 0 \in S
    BY <1>0, <1>2
  <1>4. ASSUME NEW k \in S PROVE k + 1 \in S
    <2> SUFFICES ASSUME n + (k + 1) <= Len(parts)
                 PROVE  m <= Len(J[n + (k + 1)]) /\ Take(J[n + (k + 1)], m) = Take(J[n], m)
      OBVIOUS
    <2> DEFINE i == n + k
               s == J[i]
               g == parts[i + 1]
    <2>1. k \in Nat /\ i \in 0 .. Len(parts) /\ i + 1 \in 1 .. Len(parts) /\ (i + 1) - 1 = i
          /\ n + (k + 1) = i + 1 /\ i <= Len(parts)
      BY <1>0, <1>1
    <2>2. m <= Len(s) /\ Take(s, m) = Take(J[n], m)
      BY <2>1
    <2>3. s \in Seq(Detail) /\ g \in Seq(Detail)
      BY <1>1, <2>1
    <2>4. J[i + 1] = s \o g
      BY <1>1, <2>1
    <2> HIDE DEF S, s, g, i
    <2>5. Take(s \o g, m) = Take(s, m)
      BY <2>2, <2>3, TakeInside
    <2>6. Len(s \o g) = Len(s) + Len(g) /\ Len(s) \in Nat /\ Len(g) \in Nat
      BY <2>3, ConcatElements, LenProperties
    <2>7. J[n + (k + 1)] = s \o g
      BY <2>1, <2>4
    <2>8. m <= Len(s \o g)
      BY <2>2, <2>6
    <2> QED
      BY <2>2, <2>5, <2>7, <2>8
  <1>5. S = Nat
    <2> HIDE DEF S
    <2>1. S \in SUBSET Nat
      BY DEF S
    <2> QED
      BY <1>3, <1>4, <2>1, AllNaturals
  <1>6. Len(parts) - n \in Nat /\ n + (Len(parts) - n) = Len(parts)
    BY <1>0, <1>1
  <1>7. Take(J[Len(parts)], m) = Take(J[n], m)
    <2> DEFINE k == Len(parts) - n
    <2>1. k \in S
      BY <1>5, <1>6
    <2>2. n + k <= Len(parts) /\ n + k = Len(parts)
      BY <1>1, <1>6
    <2> QED
      BY <2>1, <2>2
  <1> QED
    BY <1>7 DEF J

(* Nothing but empty sequences joins to an empty one.                      *)
LEMMA NothingJoins ==
  ASSUME NEW parts \in Seq(Seq(Detail)), \A k \in 1 .. Len(parts) : parts[k] = << >>
  PROVE  Joined(parts)[Len(parts)] = << >>
  <1> DEFINE J == Joined(parts)
             S == {k \in Nat : k <= Len(parts) => J[k] = << >>}
  <1>1. /\ Len(parts) \in Nat /\ J[0] = << >>
        /\ \A k \in 1 .. Len(parts) : J[k] = J[k - 1] \o parts[k]
    BY JoinedType
  <1> HIDE DEF J
  <1>2. 0 \in S
    BY <1>1
  <1>3. ASSUME NEW k \in S PROVE k + 1 \in S
    <2> SUFFICES ASSUME k + 1 <= Len(parts) PROVE J[k + 1] = << >>
      OBVIOUS
    <2>1. k \in Nat /\ k + 1 \in 1 .. Len(parts) /\ (k + 1) - 1 = k /\ k <= Len(parts)
      BY <1>1
    <2>2. J[k] = << >> /\ parts[k + 1] = << >> /\ J[k + 1] = J[k] \o parts[k + 1]
      BY <1>1, <2>1
    <2>3. << >> \o << >> = << >>
      OBVIOUS
    <2> QED
      BY <2>2, <2>3
  <1>4. S = Nat
    <2> HIDE DEF S
    <2>1. S \in SUBSET Nat
      BY DEF S
    <2> QED
      BY <1>2, <1>3, <2>1, AllNaturals
  <1> QED
    BY <1>1, <1>4 DEF J

-----------------------------------------------------------------------------
(* The errors of the items of a list, part by part, and what an output     *)
(* that has lost and doubled nothing is.                                   *)
PartErrors ==
  [i \in 1 .. Count |-> LocateAll(<<<<"index", i - 1>>>>, collection.parts[i].value.found)]

Counted(out, n) == Len(out) = n /\ \A i \in 1 .. n : out[i] = i

(* A loop over a list has found the errors of the items before its         *)
(* position, or put all of them in the output; and when it has ended early *)
(* the errors of the others are beyond the cap.                            *)
ListInv ==
  collection.kind = "list" =>
    /\ pass = "parts" => found = Joined(PartErrors)[pos] /\ (found = << >> => Counted(output, pos))
    /\ pass = "done" =>
         /\ collection.accepted =>
              Take(found, MaxErrors) = Take(Joined(PartErrors)[Count], MaxErrors)
         /\ errors = Nothing => collection.accepted /\ Counted(output, Count)

LEMMA PartErrorsType ==
  ASSUME collection \in Collection
  PROVE  /\ PartErrors \in Seq(Seq(Detail)) /\ Len(PartErrors) = Count /\ Count \in Nat
         /\ \A i \in 1 .. Count :
              /\ collection.parts[i].value \in Outcome(MaxErrors)
              /\ collection.parts[i].value.found \in Seq(Detail)
              /\ <<<<"index", i - 1>>>> \in Path
              /\ PartErrors[i] = LocateAll(<<<<"index", i - 1>>>>, collection.parts[i].value.found)
  <1>1. collection.parts \in Seq(Part) /\ Count \in Nat
    BY CountIsNat DEF Collection
  <1>2. \A i \in 1 .. Count : collection.parts[i] \in Part
    BY <1>1, ElementOfSeq DEF Count
  <1>3. \A i \in 1 .. Count :
          /\ collection.parts[i].value \in Outcome(MaxErrors)
          /\ collection.parts[i].value.found \in Seq(Detail)
          /\ <<<<"index", i - 1>>>> \in Path
    <2> TAKE i \in 1 .. Count
    <2>1. collection.parts[i].value \in Outcome(MaxErrors)
      BY <1>2 DEF Part
    <2>2. collection.parts[i].value.found \in Seq(Detail)
      BY <2>1 DEF Outcome
    <2>3. i - 1 \in Nat
      BY <1>1
    <2>4. <<<<"index", i - 1>>>> \in Path
      BY <2>3 DEF Path, Item
    <2> QED
      BY <2>1, <2>2, <2>4
  <1>4. \A i \in 1 .. Count :
          LocateAll(<<<<"index", i - 1>>>>, collection.parts[i].value.found) \in Seq(Detail)
    BY <1>3, LocateAllType
  <1>5. PartErrors \in [1 .. Count -> Seq(Detail)]
    BY <1>4 DEF PartErrors
  <1>6. PartErrors \in Seq(Seq(Detail)) /\ Len(PartErrors) = Count
    BY <1>1, <1>5, SeqDef, LenProperties
  <1>7. \A i \in 1 .. Count :
          PartErrors[i] = LocateAll(<<<<"index", i - 1>>>>, collection.parts[i].value.found)
    BY DEF PartErrors
  <1> QED
    BY <1>1, <1>3, <1>6, <1>7

(* Rejecting a list is an error; accepting one starts with nothing.        *)
LEMMA EntryKeepsList == IInv /\ PartsInv /\ (Reject \/ Accept) => ListInv'
  <1> SUFFICES ASSUME IInv, PartsInv, Reject \/ Accept PROVE ListInv'
    OBVIOUS
  <1>1. CASE Reject
    <2>1. errors' # Nothing /\ pass' = "done" /\ ~collection'.accepted
      BY <1>1 DEF Reject, One, Nothing
    <2> QED BY <2>1 DEF ListInv
  <1>2. CASE Accept
    <2>1. pass' = "parts" /\ pos' = 0 /\ found' = << >> /\ output' = << >> /\ collection' = collection
      BY <1>2 DEF Accept, PartsInv, Accounted
    <2>2. PartErrors' = PartErrors
      BY <2>1 DEF PartErrors, Count
    <2>3. Joined(PartErrors)[0] = << >>
      BY PartErrorsType, JoinedType DEF IInv, TypeOK
    <2>4. Counted(<< >>, 0)
      BY EmptySeq DEF Counted
    <2> DEFINE empty == << >>
    <2> HIDE DEF empty
    <2>5. found' = Joined(PartErrors')[pos'] /\ Counted(output, pos)'
      BY <2>1, <2>2, <2>3, <2>4 DEF Counted
    <2> QED BY <2>1, <2>5 DEF ListInv
  <1> QED BY <1>1, <1>2

(* An item adds its errors, or itself.                                     *)
LEMMA VisitItemKeepsList == IInv /\ PartsInv /\ ListInv /\ VisitItem => ListInv'
  <1> SUFFICES ASSUME IInv, PartsInv, ListInv, VisitItem, collection.kind = "list" PROVE ListInv'
    BY DEF VisitItem, ListInv
  <1> DEFINE o == Visited.value
             g == LocateAll(AtIndex, o.found)
  <1>1. /\ pass = "parts" /\ pass' = "parts" /\ collection' = collection /\ pos < Count
        /\ found' = found \o g /\ pos' = pos + 1
        /\ output' = IF IsFine(o) THEN Append(output, pos + 1) ELSE output
    BY DEF VisitItem, InLoop, EndIteration
  <1>2. pos \in Nat /\ pos + 1 \in 1 .. Count /\ (pos + 1) - 1 = pos
    BY <1>1, VisitedType DEF IInv
  <1>3. /\ PartErrors \in Seq(Seq(Detail)) /\ Len(PartErrors) = Count /\ Count \in Nat
        /\ o \in Outcome(MaxErrors) /\ AtIndex \in Path
        /\ PartErrors[pos + 1] = g
    BY <1>2, PartErrorsType DEF IInv, TypeOK, Visited, AtIndex
  <1>4. found \in Seq(Detail) /\ found = Joined(PartErrors)[pos]
        /\ (found = << >> => Counted(output, pos))
    BY <1>1 DEF ListInv, IInv, TypeOK
  <1>5. PartErrors' = PartErrors
    BY <1>1 DEF PartErrors, Count
  <1>6. Joined(PartErrors)[pos + 1] = Joined(PartErrors)[pos] \o PartErrors[pos + 1]
    <2> DEFINE k == pos + 1
    <2>1. k \in 1 .. Len(PartErrors) /\ k - 1 = pos
      BY <1>2, <1>3
    <2> HIDE DEF k
    <2>2. Joined(PartErrors)[k] = Joined(PartErrors)[k - 1] \o PartErrors[k]
      BY <1>3, <2>1, JoinedType
    <2> QED BY <2>1, <2>2 DEF k
  <1>7. found' = Joined(PartErrors')[pos']
    BY <1>1, <1>3, <1>4, <1>5, <1>6
  <1>8. ASSUME found' = << >> PROVE Counted(output', pos + 1)
    <2>1. found = << >> /\ IsFine(o)
      <3> HIDE DEF o
      <3> QED BY <1>1, <1>3, <1>4, <1>8, NothingNew
    <2>2. Counted(output, pos) /\ output' = Append(output, pos + 1)
      BY <1>1, <1>4, <2>1
    <2> DEFINE S == 1 .. Count
    <2>3. output \in Seq(S) /\ pos + 1 \in S
      BY <1>2 DEF IInv, TypeOK
    <2> HIDE DEF S
    <2>4. /\ Len(output') = Len(output) + 1
          /\ \A i \in 1 .. Len(output) : output'[i] = output[i]
          /\ output'[Len(output) + 1] = pos + 1
      BY <2>2, <2>3, AppendProperties
    <2> QED BY <1>2, <2>2, <2>4 DEF Counted
  <1>9. Counted(output, pos)' <=> Counted(output', pos + 1)
    BY <1>1 DEF Counted
  <1> QED BY <1>1, <1>7, <1>8, <1>9 DEF ListInv

(* The end of the loop over a list.                                        *)
LEMMA ClosePartsKeepsList == IInv /\ PartsInv /\ ListInv /\ CloseParts => ListInv'
  <1> SUFFICES ASSUME IInv, PartsInv, ListInv, CloseParts, collection.kind = "list" PROVE ListInv'
    BY DEF CloseParts, ListInv
  <1>1. /\ pass = "parts" /\ pass' = "done" /\ LoopOver("parts")
        /\ UNCHANGED <<collection, errors, output, found>>
    BY DEF CloseParts, LoopOver
  <1>2. /\ PartErrors \in Seq(Seq(Detail)) /\ Len(PartErrors) = Count /\ Count \in Nat
    BY PartErrorsType DEF IInv, TypeOK
  <1>3. found \in Seq(Detail) /\ found = Joined(PartErrors)[pos] /\ pos \in 0 .. Count
        /\ (found = << >> => Counted(output, pos)) /\ collection.accepted
    BY <1>1 DEF ListInv, IInv, TypeOK, PartsInv, Accounted
  <1>4. PartErrors' = PartErrors /\ Count' = Count
    BY <1>1 DEF PartErrors, Count
  <1>5. errors = Nothing => pos = Count /\ found = << >>
    BY <1>1, LoopEnds DEF PartsInv
  <1>6. Take(found, MaxErrors) = Take(Joined(PartErrors)[Count], MaxErrors)
    <2>1. CASE pos = Count
      BY <1>3, <2>1
    <2>2. CASE pos # Count
      <3>1. IsFull(errors, MaxErrors)
        BY <1>1, <1>2, <1>3, <2>2 DEF LoopOver, InLoop
      <3>2. errors.details = Take(found, MaxErrors)
        BY DEF IInv, ReportContract, Covers
      <3>3. MaxErrors \in Nat
        BY LimitAssumption
      <3>4. MaxErrors <= Len(found)
        <4> SUFFICES ASSUME Len(found) < MaxErrors PROVE FALSE
          BY <1>3, <3>3, LenProperties
        <4>1. Take(found, MaxErrors) = found
          BY <1>3, <3>3, TakeShort
        <4>2. Len(found) >= MaxErrors
          BY <3>1, <3>2, <4>1 DEF IsFull
        <4>3. Len(found) \in Nat
          BY <1>3, LenProperties
        <4> QED BY <3>3, <4>2, <4>3
      <3> QED BY <1>2, <1>3, <3>3, <3>4, FullStays
    <2> QED BY <2>1, <2>2
  <1>7. Counted(output, Count)' <=> Counted(output, Count)
    BY <1>1, <1>4 DEF Counted
  <1>8. errors = Nothing => Counted(output, Count)
    BY <1>3, <1>5
  <1> QED BY <1>1, <1>3, <1>4, <1>6, <1>7, <1>8 DEF ListInv

(* Other steps are not of lists.                                           *)
LEMMA NextList == IInv /\ PartsInv /\ ListInv /\ [Next]_vars => ListInv'
  <1> SUFFICES ASSUME IInv, PartsInv, ListInv, [Next]_vars PROVE ListInv'
    OBVIOUS
  <1>1. CASE UNCHANGED vars
    BY <1>1 DEF vars, ListInv, PartErrors, Counted, Count
  <1>2. CASE VisitEntry
    BY <1>2 DEF VisitEntry, ListInv, Keyed
  <1>3. CASE VisitIdentity \/ CloseSet
    BY <1>3 DEF VisitIdentity, CloseSet, InLoop, LoopOver, ListInv, PartsInv, Accounted
  <1> QED BY <1>1, <1>2, <1>3, EntryKeepsList, VisitItemKeepsList, ClosePartsKeepsList DEF Next

LEMMA InitList == Init => ListInv
  BY DEF Init, ListInv

-----------------------------------------------------------------------------
(* Only lists that were validated are iterated, and a list that is too     *)
(* long, too short or not to be iterated is refused before its items.      *)
Iterable == sequence /\ Count <= MaxItems

Paired ==
  /\ iterating # "none" => pass = "done" /\ collection.kind = "list"
  /\ iterating = "refused" => ~Iterable
  /\ finished \/ silent => iterating # "none"
  /\ collection.kind = "list" /\ collection.accepted => Iterable /\ Within(bounds, Count)

PullInv == IInv /\ SetParts /\ PartsInv /\ ListInv /\ IteratorInv /\ Paired

LEMMA InitPull == IteratorInit => PullInv
  <1> SUFFICES ASSUME IteratorInit PROVE PullInv
    OBVIOUS
  <1>1. Init
    BY DEF IteratorInit
  <1>2. Paired
    BY DEF IteratorInit, Paired, Iterable
  <1> QED BY <1>1, <1>2, InitIInv, SetsInit, PartsInit, InitList, IteratorInitInv DEF PullInv

LEMMA NextPull ==
  ASSUME PullInv, [IteratorNext]_<<vars, iteratorVars>>
  PROVE  PullInv'
  <1>1. [Next]_vars
    BY DEF IteratorNext, vars
  <1>2. IInv' /\ SetParts' /\ PartsInv' /\ ListInv'
    BY <1>1, NextIInv, NextSets, NextParts, NextList DEF PullInv
  <1>3. IteratorInv'
    <2>1. CASE UNCHANGED <<vars, iteratorVars>>
      <3>1. collection' = collection /\ UNCHANGED <<given, index, finished, answers, silent>>
        BY <2>1 DEF vars, iteratorVars
      <3> QED BY <3>1, OthersKeepInv DEF PullInv
    <2>2. CASE IteratorNext
      BY <2>2, LoopsKeepInv, CreateSteps, FinishedSteps, TooLongSteps, EndSteps, ItemSteps
         DEF IteratorNext, IteratorStep, PullInv
    <2> QED BY <2>1, <2>2
  <1>4. collection' = collection /\ UNCHANGED given /\ Count' = Count
    BY DEF IteratorNext, IteratorStep, Next, Reject, Accept, VisitItem, VisitEntry, CloseParts,
           VisitIdentity, CloseSet, CreateIterator, PullFinished, PullTooLong, PullEnd, PullItem,
           vars, iteratorVars, Count
  <1>5. Paired'
    <2>1. iterating' = iterating \/ (pass = "done" /\ collection.kind = "list" /\ UNCHANGED vars
                                     /\ UNCHANGED <<finished, silent>>)
      BY DEF IteratorNext, IteratorStep, CreateIterator, PullFinished, PullTooLong, PullEnd,
             PullItem, iteratorVars
    <2>2. pass = "done" => pass' = "done"
      BY DEF IteratorNext, Next, Reject, Accept, VisitItem, VisitEntry, CloseParts,
             VisitIdentity, CloseSet, InLoop, LoopOver, vars
    <2>3. (UNCHANGED <<finished, silent>>) \/ iterating' = "pulling"
      BY DEF IteratorNext, IteratorStep, CreateIterator, PullFinished, PullTooLong, PullEnd,
             PullItem, iteratorVars
    <2>4. pass' = pass \/ ~(UNCHANGED vars)
      BY DEF vars
    <2>5. Within(bounds, Count)' = Within(bounds, Count) /\ Iterable' = Iterable
      BY <1>4 DEF Within, Iterable, given
    <2>8. (iterating = "refused" => ~Iterable)'
      BY <2>5 DEF IteratorNext, IteratorStep, CreateIterator, PullFinished, PullTooLong, PullEnd,
                  PullItem, iteratorVars, PullInv, Paired, Iterable
    <2>6. (iterating # "none" => pass = "done" /\ collection.kind = "list")'
      BY <1>4, <2>1, <2>2, <2>4 DEF PullInv, Paired
    <2>7. (finished \/ silent => iterating # "none")'
      <3>1. CASE CreateIterator
        BY <3>1 DEF CreateIterator, PullInv, Paired
      <3>2. CASE ~CreateIterator
        <4>1. iterating' = iterating
          BY <3>2 DEF IteratorNext, IteratorStep, PullFinished, PullTooLong, PullEnd, PullItem,
                      iteratorVars
        <4> QED BY <2>3, <4>1 DEF PullInv, Paired
      <3> QED BY <3>1, <3>2
    <2> QED BY <1>4, <2>5, <2>6, <2>7, <2>8 DEF PullInv, Paired
  <1> QED BY <1>2, <1>3, <1>5 DEF PullInv

-----------------------------------------------------------------------------
(* What the iterator has answered when it is silent: all items, or some    *)
(* and an error of length.                                                 *)
LEMMA SilentAnswers ==
  ASSUME PullInv, silent
  PROVE  /\ collection.kind = "list" /\ Count \in Nat
         /\ collection.accepted => answers = Items(Count)
         /\ ~Within(bounds, Count) =>
              \E n \in Nat, code \in {"too_long", "too_short"} :
                answers = Append(Items(n), LengthError(code))
  <1>1. collection.kind = "list" /\ collection \in Collection /\ bounds \in Bound
        /\ answers = Promised /\ (collection.accepted => Within(bounds, Count))
    BY DEF PullInv, Paired, IteratorInv, Running, Given
  <1>2. /\ Count \in Nat
        /\ bounds.max # None => bounds.max[1] \in Nat
        /\ bounds.min # None => bounds.min[1] \in Nat
    BY <1>1, CountIsNat, BoundIsNat
  <1>3. ASSUME collection.accepted PROVE answers = Items(Count)
    BY <1>1, <1>2, <1>3, PromisedCases DEF Within
  <1>4. ASSUME ~Within(bounds, Count)
        PROVE  \E n \in Nat, code \in {"too_long", "too_short"} :
                 answers = Append(Items(n), LengthError(code))
    <2>1. CASE bounds.max # None /\ Count > bounds.max[1]
      BY <1>1, <1>2, <2>1, PromisedCases
    <2>2. CASE ~(bounds.max # None /\ Count > bounds.max[1])
      <3>1. bounds.min # None /\ Count < bounds.min[1]
        BY <1>1, <1>2, <1>4, <2>2 DEF Within
      <3> QED BY <1>1, <1>2, <2>2, <3>1, PromisedCases
    <2> QED BY <2>1, <2>2
  <1> QED BY <1>1, <1>2, <1>3, <1>4

(* What the iterator does not start on, the list refused too,              *)
LEMMA RefusedAgree ==
  ASSUME PullInv, iterating = "refused", pass = "done"
  PROVE  errors # Nothing
  BY DEF PullInv, Paired, ListInv

(* and a list of a wrong length has an error on both sides.                *)
LEMMA LengthsAgree ==
  ASSUME PullInv, silent, pass = "done", ~Within(bounds, Count)
  PROVE  errors # Nothing /\ \E k \in 1 .. Len(answers) : answers[k][1] = "error"
  <1>1. errors # Nothing
    BY SilentAnswers DEF PullInv, ListInv, Paired
  <1>2. PICK n \in Nat, code \in {"too_long", "too_short"} :
          answers = Append(Items(n), LengthError(code))
    BY SilentAnswers
  <1> DEFINE e == LengthError(code)
  <1>3. Items(n) \in Seq(Answers) /\ Len(Items(n)) = n /\ e \in Answers
    BY ItemsProperties DEF Answers
  <1>4. e[1] = "error"
    BY DEF LengthError
  <1> HIDE DEF e
  <1>5. Len(answers) = n + 1 /\ answers[n + 1] = e
    BY <1>2, <1>3, AppendProperties DEF e
  <1>6. n + 1 \in 1 .. Len(answers)
    BY <1>5
  <1> QED BY <1>1, <1>4, <1>5, <1>6

(* The details of the answers are the items' errors, each capped.          *)
Details ==
  [k \in 1 .. Len(answers) |-> IF answers[k][1] = "error" THEN answers[k][2].details ELSE << >>]

LEMMA DetailsAreCapped ==
  ASSUME collection \in Collection, AlikeAlone, answers = Items(Count)
  PROVE  /\ Len(answers) = Count /\ Details \in Seq(Seq(Detail)) /\ Len(Details) = Count
         /\ \A k \in 1 .. Count :
              /\ Details[k] = Take(PartErrors[k], MaxErrors)
              /\ answers[k][1] = "error" <=> ~IsFine(collection.parts[k].value)
              /\ IsFine(collection.parts[k].value) => answers[k] = <<"value", k>>
  <1>1. /\ PartErrors \in Seq(Seq(Detail)) /\ Len(PartErrors) = Count /\ Count \in Nat
        /\ \A i \in 1 .. Count :
             /\ collection.parts[i].value \in Outcome(MaxErrors)
             /\ collection.parts[i].value.found \in Seq(Detail)
             /\ <<<<"index", i - 1>>>> \in Path
             /\ PartErrors[i] = LocateAll(<<<<"index", i - 1>>>>, collection.parts[i].value.found)
    BY PartErrorsType
  <1>2. Len(answers) = Count /\ \A k \in 1 .. Count : answers[k] = ItemAnswer(k)
    BY <1>1, ItemsProperties
  <1>3. ASSUME NEW k \in 1 .. Count
        PROVE  /\ Details[k] = Take(PartErrors[k], MaxErrors)
               /\ Details[k] \in Seq(Detail)
               /\ answers[k][1] = "error" <=> ~IsFine(collection.parts[k].value)
               /\ IsFine(collection.parts[k].value) => answers[k] = <<"value", k>>
    <2> DEFINE o == collection.parts[k].value
               path == <<<<"index", k - 1>>>>
    <2>1. /\ o \in Outcome(MaxErrors) /\ o.found \in Seq(Detail) /\ path \in Path
          /\ PartErrors[k] = LocateAll(path, o.found) /\ MaxErrors \in Nat
      BY <1>1, LimitAssumption
    <2>2. Take(PartErrors[k], MaxErrors) = LocateAll(path, Take(o.found, MaxErrors))
      <3> HIDE DEF o, path
      <3> QED BY <2>1, LocateTake
    <2>3. Take(PartErrors[k], MaxErrors) \in Seq(Detail)
      <3>1. PartErrors[k] \in Seq(Detail)
        BY <1>1, ElementOfSeq
      <3> QED BY <2>1, <3>1, TakeType
    <2>4. Details[k] = IF answers[k][1] = "error" THEN answers[k][2].details ELSE << >>
      BY <1>2 DEF Details
    <2>7. pulled[k] = o
      BY DEF AlikeAlone
    <2>5. CASE IsFine(o)
      <3>1. answers[k] = <<"value", k>>
        BY <1>2, <2>5, <2>7 DEF ItemAnswer
      <3>2. Details[k] = << >>
        BY <2>4, <3>1
      <3>3. Take(PartErrors[k], MaxErrors) = << >>
        <4>1. PartErrors[k] = << >>
          <5>1. Len(PartErrors[k]) = 0 /\ PartErrors[k] \in Seq(Detail)
            <6>1. Len(o.found) = 0
              BY <2>5, EmptySeq DEF IsFine
            <6> HIDE DEF o, path
            <6> QED BY <2>1, <6>1, LocateAllType
          <5> QED BY <5>1, EmptySeq
        <4>2. << >> \in Seq(Detail) /\ Len(<< >>) = 0
          BY EmptySeq
        <4>3. Len(<< >>) <= MaxErrors
          BY <2>1, <4>2
        <4>4. Take(<< >>, MaxErrors) = << >>
          BY <2>1, <4>2, <4>3, TakeShort
        <4> QED BY <4>1, <4>4
      <3> QED BY <2>3, <2>5, <3>1, <3>2, <3>3
    <2>6. CASE ~IsFine(o)
      <3>1. answers[k] = <<"error", At(path, ReportOf(o, MaxErrors))>>
        BY <1>2, <2>6, <2>7 DEF ItemAnswer
      <3>2. At(path, ReportOf(o, MaxErrors)).details = LocateAll(path, Take(o.found, MaxErrors))
        BY Zenon DEF At, ReportOf
      <3> HIDE DEF o, path
      <3>3. Details[k] = LocateAll(path, Take(o.found, MaxErrors))
        BY <2>4, <3>1, <3>2
      <3>4. answers[k][1] = "error"
        BY <3>1
      <3> QED BY <2>2, <2>3, <2>6, <3>3, <3>4 DEF o
    <2> QED BY <2>5, <2>6
  <1>4. Details \in [1 .. Count -> Seq(Detail)]
    <2>1. Details = [k \in 1 .. Count |-> Details[k]]
      BY <1>2 DEF Details
    <2> QED BY <1>3, <2>1
  <1>5. Details \in Seq(Seq(Detail)) /\ Len(Details) = Count
    BY <1>1, <1>4, SeqDef, LenProperties
  <1> QED BY <1>2, <1>3, <1>5

(* An accepted list gives the errors the iterator gives, capped, and the   *)
(* values it gives when there are none, when the items do by themselves.   *)
LEMMA AcceptedAgree ==
  ASSUME PullInv, silent, pass = "done", collection.accepted, AlikeAlone
  PROVE  /\ errors.details = Take(Joined(Details)[Len(answers)], MaxErrors)
         /\ errors = Nothing <=> ~\E k \in 1 .. Len(answers) : answers[k][1] = "error"
         /\ errors = Nothing => answers = [i \in 1 .. Len(output) |-> <<"value", output[i]>>]
  <1>1. collection.kind = "list" /\ answers = Items(Count) /\ Count \in Nat
    BY SilentAnswers
  <1>2. collection \in Collection /\ errors \in Report /\ found \in Seq(Detail) /\ left \in BOOLEAN
        /\ Covers(errors, found, left, MaxErrors)
    BY DEF PullInv, IInv, TypeOK, ReportContract
  <1>3. /\ Len(answers) = Count /\ Details \in Seq(Seq(Detail)) /\ Len(Details) = Count
        /\ \A k \in 1 .. Count :
             /\ Details[k] = Take(PartErrors[k], MaxErrors)
             /\ answers[k][1] = "error" <=> ~IsFine(collection.parts[k].value)
             /\ IsFine(collection.parts[k].value) => answers[k] = <<"value", k>>
    BY <1>1, <1>2, DetailsAreCapped
  <1>4. PartErrors \in Seq(Seq(Detail)) /\ Len(PartErrors) = Count
    BY <1>2, PartErrorsType
  <1>5. errors.details = Take(Joined(Details)[Count], MaxErrors)
    <2>1. errors.details = Take(found, MaxErrors)
      BY <1>2 DEF Covers
    <2>2. Take(found, MaxErrors) = Take(Joined(PartErrors)[Count], MaxErrors)
      BY <1>1 DEF PullInv, ListInv
    <2>3. \A k \in 1 .. Len(PartErrors) : Details[k] = Take(PartErrors[k], MaxErrors)
      BY <1>3, <1>4
    <2>4. Take(Joined(Details)[Len(PartErrors)], MaxErrors)
            = Take(Joined(PartErrors)[Len(PartErrors)], MaxErrors)
      BY <1>3, <1>4, <2>3, CapsJoin, LimitAssumption
    <2> QED BY <1>4, <2>1, <2>2, <2>4
  <1>6. ASSUME errors = Nothing
        PROVE  /\ \A p \in 1 .. Count : IsFine(collection.parts[p].value)
               /\ Counted(output, Count)
    BY <1>1, <1>6 DEF PullInv, PartsInv, ValidOutput, ListInv
  <1>7. ASSUME ~\E k \in 1 .. Len(answers) : answers[k][1] = "error"
        PROVE  errors = Nothing
    <2>1. \A k \in 1 .. Count : answers[k][1] # "error"
      BY <1>3, <1>7
    <2>2. \A k \in 1 .. Len(Details) : Details[k] = << >>
      BY <1>3, <2>1 DEF Details
    <2>3. Joined(Details)[Count] = << >>
      BY <1>3, <2>2, NothingJoins
    <2>4. << >> \in Seq(Detail) /\ Len(<< >>) = 0 /\ MaxErrors \in Nat \ {0}
      BY EmptySeq, LimitAssumption
    <2>5. Take(<< >>, MaxErrors) = << >>
      <3>1. Len(<< >>) <= MaxErrors
        BY <2>4
      <3> QED BY <2>4, <3>1, TakeShort
    <2>6. errors.details = << >>
      BY <1>5, <2>3, <2>5
    <2> QED BY <1>2, <2>4, <2>6, NothingCovers
  <1>8. ASSUME errors = Nothing
        PROVE  answers = [i \in 1 .. Len(output) |-> <<"value", output[i]>>]
    <2>1. Len(output) = Count /\ \A i \in 1 .. Count : output[i] = i
      BY <1>6, <1>8 DEF Counted
    <2>2. \A i \in 1 .. Count : answers[i] = <<"value", i>>
      BY <1>3, <1>6, <1>8
    <2>3. answers = [i \in 1 .. Count |-> answers[i]]
      BY <1>1 DEF Items
    <2> QED BY <2>1, <2>2, <2>3
  <1>9. errors = Nothing => ~\E k \in 1 .. Len(answers) : answers[k][1] = "error"
    BY <1>3, <1>6
  <1> QED BY <1>3, <1>5, <1>7, <1>8, <1>9

(* Pulling an iterator to its end and validating the list agree: what the  *)
(* iterator refuses or finds too long or too short the list refused, and   *)
(* an accepted list whose items have the same outcomes by themselves gives *)
(* the same values, or the same errors up to the cap; for every list, all  *)
(* bounds, every cap and whatever the items report.                        *)
THEOREM IteratorAgreesWithList == IteratorSpec => []PullsAgree
  <1>1. PullInv /\ [IteratorNext]_<<vars, iteratorVars>> => PullInv'
    BY NextPull
  <1>2. PullInv => PullsAgree
    <2> SUFFICES ASSUME PullInv, pass = "done"
                 PROVE  /\ iterating = "refused" => errors # Nothing
                        /\ silent /\ ~Within(bounds, Count) =>
                             errors # Nothing /\ \E k \in 1 .. Len(answers) : answers[k][1] = "error"
                        /\ silent /\ collection.accepted /\ AlikeAlone =>
                             /\ errors = Nothing <=> ~\E k \in 1 .. Len(answers) : answers[k][1] = "error"
                             /\ errors = Nothing => answers = [i \in 1 .. Len(output) |-> <<"value", output[i]>>]
                             /\ errors.details = Take(Joined(Details)[Len(answers)], MaxErrors)
      BY Zenon DEF PullsAgree, Details
    <2> QED BY Zenon, AcceptedAgree, LengthsAgree, RefusedAgree
  <1> QED BY <1>1, <1>2, InitPull, PTL DEF IteratorSpec
=============================================================================
