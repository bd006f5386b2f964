------------------------- MODULE UnionValidationProofs -------------------------
(***************************************************************************)
(* Proofs about the unions of validation/sums.rs, for every cap, every set *)
(* of unions with any number of choices and whatever the branches give:    *)
(* the report of a failed union is exact, a union fails only when all its  *)
(* branches do, and the winner is the branch the mode promises.            *)
(***************************************************************************)
EXTENDS UnionValidation, ErrorReportProofs

TypeOK ==
  /\ union \in Unions
  /\ pass \in {"enter", "choices", "valid", "invalid"}
  /\ pos \in 0 .. Count
  /\ best \in 0 .. Count
  /\ errors \in Report
  /\ found \in Seq(Detail)
  /\ left \in BOOLEAN

FreshAtEntry ==
  pass = "enter" => pos = 0 /\ best = 0 /\ errors = Nothing /\ found = << >> /\ left = FALSE

(* While the choices are tried: the one kept is a valid one, and when none *)
(* is kept, all tried so far have left their errors.                       *)
Kept ==
  pass = "choices" =>
    /\ best # 0 => best \in Valid /\ best <= pos
    /\ best = 0 => \A c \in 1 .. pos : c \notin Valid
    /\ (best = 0 /\ pos > 0) => found # << >>

ReportInv == TypeOK /\ FreshAtEntry /\ Kept /\ ReportContract

(* A union's choices are typed.                                            *)
LEMMA ChoiceType ==
  ASSUME union \in Unions
  PROVE  /\ Count \in Nat \ {0} /\ union.tag \in 0 .. Count + 1
         /\ \A c \in 1 .. Count : union.choices[c] \in Choice
         /\ \A c \in 1 .. Count : union.choices[c].outcome \in Outcome(MaxErrors)
  <1>1. union \in Union /\ Len(union.choices) > 0 /\ union.tag \in 0 .. Len(union.choices) + 1
    BY UnionsAssumption
  <1>2. union.choices \in Seq(Choice)
    BY <1>1 DEF Union
  <1>3. Count \in Nat \ {0} /\ union.tag \in 0 .. Count + 1
    BY <1>1, <1>2 DEF Count
  <1>4. \A c \in 1 .. Count : union.choices[c] \in Choice
    BY <1>2, ElementOfSeq DEF Count
  <1>5. \A c \in 1 .. Count : union.choices[c].outcome \in Outcome(MaxErrors)
    BY <1>4 DEF Choice
  <1> QED BY <1>3, <1>4, <1>5

LEMMA BranchPath == \A c \in Nat : AtBranch(c) \in Path
  <1> SUFFICES ASSUME NEW c \in Nat PROVE AtBranch(c) \in Path
    OBVIOUS
  <1>1. <<"branch", c>> \in Item
    BY DEF Item
  <1> QED BY <1>1 DEF AtBranch, Path

(* The detail that replaces another one is a detail.                       *)
LEMMA DeclaredDetail ==
  ASSUME NEW s \in Seq(Detail), s # << >>
  PROVE  Declared(s)[1] \in Detail /\ Declared(s) = <<Declared(s)[1]>>
  <1>1. s[1] \in Detail
    BY ElementOfSeq, EmptySeq
  <1>2. [s[1] EXCEPT !.code = "declared"] \in Detail
    BY <1>1, CodesAssumption DEF Detail
  <1> QED BY <1>2 DEF Declared

(* The override looks at the first detail, which the cap keeps: it         *)
(* replaces the report exactly when it replaces the errors behind it, and  *)
(* what it makes of the one covers what it makes of the other.             *)
LEMMA OverrideCovers ==
  ASSUME NEW e \in Report, NEW f \in Seq(Detail), NEW l \in BOOLEAN, Covers(e, f, l, MaxErrors),
         f # << >>, FailWith(e, f, l)
  PROVE  /\ errors' \in Report /\ found' \in Seq(Detail) /\ left' \in BOOLEAN
         /\ Covers(errors', found', left', MaxErrors) /\ errors' # Nothing
  <1>1. e.details = Take(f, MaxErrors)
    BY DEF Covers
  <1>2. e.details \in Seq(Detail) /\ e.details # << >> /\ e.details[1] = f[1]
    <2>1. Len(f) \in Nat /\ Len(f) > 0
      BY EmptySeq
    <2>2. CASE Len(f) <= MaxErrors
      BY <1>1, <2>1, <2>2, TakeShort, LimitAssumption
    <2>3. CASE MaxErrors <= Len(f)
      <3>1. /\ Take(f, MaxErrors) \in Seq(Detail) /\ Len(Take(f, MaxErrors)) = MaxErrors
            /\ \A i \in 1 .. MaxErrors : Take(f, MaxErrors)[i] = f[i]
        BY <2>3, TakeLong, LimitAssumption
      <3>2. Take(f, MaxErrors) # << >>
        BY <3>1, EmptySeq, LimitAssumption
      <3> QED BY <1>1, <3>1, <3>2, LimitAssumption
    <2> QED BY <2>1, <2>2, <2>3, LimitAssumption
  <1>3. Replaces(e.details) <=> Replaces(f)
    BY <1>2 DEF Replaces
  <1>4. CASE Replaces(f)
    <2>1. Declared(e.details) = Declared(f)
      BY <1>2 DEF Declared
    <2> DEFINE d == Declared(f)[1]
    <2>2. d \in Detail /\ Declared(f) = <<d>>
      BY DeclaredDetail
    <2>3. errors' = One(d) /\ found' = <<d>> /\ left' = FALSE
      BY <1>3, <1>4, <2>1, <2>2 DEF FailWith, OverrideOf
    <2> HIDE DEF d
    <2>4. One(d) # Nothing
      BY DEF One, Nothing
    <2> QED BY <2>2, <2>3, <2>4, OneCovers, LimitAssumption
  <1>5. CASE ~Replaces(f)
    <2>1. errors' = e /\ found' = f /\ left' = l
      BY <1>3, <1>5 DEF FailWith, OverrideOf
    <2>2. e # Nothing
      BY <1>2 DEF Nothing
    <2> QED BY <2>1, <2>2
  <1> QED BY <1>4, <1>5

(* A location-free error of the union itself.                              *)
LEMMA OwnDetail ==
  ASSUME NEW c \in {"tag_missing", "tag_invalid"}
  PROVE  [location |-> << >>, code |-> c] \in Detail
  <1>1. c \in Code /\ << >> \in Seq(Item)
    BY CodesAssumption
  <1> QED BY <1>1 DEF Detail, Path

-----------------------------------------------------------------------------
LEMMA InitReport == Init => ReportInv
  <1> SUFFICES ASSUME Init PROVE ReportInv
    OBVIOUS
  <1>1. Count \in Nat \ {0}
    BY ChoiceType DEF Init
  <1>2. TypeOK
    <2>1. Nothing \in Report /\ << >> \in Seq(Detail)
      BY EmptyCovers, LimitAssumption
    <2>2. 0 \in 0 .. Count
      BY <1>1
    <2> QED BY <2>1, <2>2 DEF Init, TypeOK
  <1> QED BY <1>2 DEF Init, ReportInv, FreshAtEntry, Kept, ReportContract

(* What failing does to a union whose errors are covered.                  *)
LEMMA FailKeeps ==
  ASSUME TypeOK, NEW e \in Report, NEW f \in Seq(Detail), NEW l \in BOOLEAN,
         Covers(e, f, l, MaxErrors), f # << >>, FailWith(e, f, l), pos' \in 0 .. Count
  PROVE  ReportInv'
  <1>1. /\ errors' \in Report /\ found' \in Seq(Detail) /\ left' \in BOOLEAN
        /\ Covers(errors', found', left', MaxErrors) /\ errors' # Nothing
    BY OverrideCovers
  <1>2. pass' = "invalid" /\ union' = union /\ best' = best /\ Count' = Count
    BY DEF FailWith, Count
  <1>3. TypeOK'
    BY <1>1, <1>2 DEF TypeOK
  <1> QED BY <1>1, <1>2, <1>3 DEF ReportInv, FreshAtEntry, Kept, ReportContract

(* Importing the output of a branch leaves the report alone.               *)
LEMMA ImportKeeps ==
  ASSUME TypeOK, NEW c \in 1 .. Count, Import(c), pos' \in 0 .. Count
  PROVE  ReportInv'
  BY DEF Import, TypeOK, Count, ReportInv, FreshAtEntry, Kept, ReportContract

LEMMA AloneKeeps == ReportInv /\ ValidateAlone => ReportInv'
  <1> SUFFICES ASSUME ReportInv, ValidateAlone PROVE ReportInv'
    OBVIOUS
  <1> DEFINE o == union.choices[1].outcome
             r == ReportOf(o, MaxErrors)
  <1>1. TypeOK /\ Count = 1 /\ pos' = 1
    BY DEF ReportInv, ValidateAlone, Collapsed
  <1>2. o \in Outcome(MaxErrors)
    BY <1>1, ChoiceType DEF TypeOK
  <1>3. CASE IsFine(o)
    BY <1>1, <1>3, ImportKeeps DEF ValidateAlone
  <1>4. CASE ~IsFine(o)
    <2>1. /\ pass' = "invalid" /\ errors' = r /\ found' = o.found /\ left' = o.left
          /\ UNCHANGED <<union, best, winner>>
      BY <1>4 DEF ValidateAlone
    <2> HIDE DEF o
    <2>2. o.found \in Seq(Detail) /\ o.left \in BOOLEAN /\ o.found # << >>
          /\ (o.left => Len(o.found) >= MaxErrors)
      BY <1>2, <1>4 DEF Outcome, IsFine
    <2>3. Take(o.found, MaxErrors) \in Seq(Detail)
      BY <2>2, TakeType, LimitAssumption
    <2>4. (Len(o.found) > MaxErrors \/ o.left) \in BOOLEAN
      OBVIOUS
    <2>5. r \in Report /\ r.details = Take(o.found, MaxErrors)
          /\ r.truncated = (Len(o.found) > MaxErrors \/ o.left)
      BY <2>3, <2>4 DEF ReportOf, Report
    <2> HIDE DEF r
    <2>6. Covers(r, o.found, o.left, MaxErrors)
      BY <2>2, <2>5 DEF Covers
    <2>7. r.details # << >>
      BY <2>2, <2>5, <2>6, NothingCovers, LimitAssumption
    <2>8. r # Nothing
      BY <2>7 DEF Nothing
    <2>9. Count' = Count /\ pos' \in 0 .. Count
      BY <1>1, <2>1 DEF Count
    <2>10. TypeOK'
      BY <1>1, <2>1, <2>2, <2>5, <2>9 DEF TypeOK
    <2> QED BY <2>1, <2>6, <2>8, <2>10 DEF ReportInv, FreshAtEntry, Kept, ReportContract
  <1> QED BY <1>3, <1>4

LEMMA TaggedKeeps == ReportInv /\ ValidateTagged => ReportInv'
  <1> SUFFICES ASSUME ReportInv, ValidateTagged PROVE ReportInv'
    OBVIOUS
  <1> DEFINE o == union.choices[union.tag].outcome
             label == AtBranch(union.tag)
             r == At(label, ReportOf(o, MaxErrors))
             g == LocateAll(label, o.found)
  <1>1. TypeOK /\ pass = "enter" /\ Count \in Nat \ {0} /\ union.tag \in 0 .. Count + 1
    BY ChoiceType DEF ReportInv, ValidateTagged, TypeOK
  <1>2. ASSUME NEW c \in {"tag_missing", "tag_invalid"},
               FailWith(One([location |-> << >>, code |-> c]), <<[location |-> << >>, code |-> c]>>, FALSE),
               UNCHANGED pos
        PROVE  ReportInv'
    <2> DEFINE d == [location |-> << >>, code |-> c]
    <2>1. d \in Detail
      BY OwnDetail
    <2>2. FailWith(One(d), <<d>>, FALSE) /\ UNCHANGED pos
      BY <1>2
    <2> HIDE DEF d
    <2>3. One(d) \in Report /\ <<d>> \in Seq(Detail) /\ Covers(One(d), <<d>>, FALSE, MaxErrors)
      BY <2>1, OneCovers, LimitAssumption
    <2>4. pos' \in 0 .. Count /\ <<d>> # << >>
      BY <1>1, <2>2 DEF TypeOK
    <2> QED BY <1>1, <2>2, <2>3, <2>4, FailKeeps
  <1>3. CASE union.tag = 0
    BY <1>2, <1>3 DEF ValidateTagged
  <1>4. CASE union.tag # 0 /\ union.tag > Count
    BY <1>2, <1>4 DEF ValidateTagged
  <1>5. CASE union.tag \in 1 .. Count
    <2>1. pos' = union.tag /\ (IsFine(o) => Import(union.tag)) /\ (~IsFine(o) => FailWith(r, g, o.left))
      <3>1. union.tag # 0 /\ ~(union.tag > Count)
        BY <1>1, <1>5
      <3> QED BY <3>1 DEF ValidateTagged
    <2>2. o \in Outcome(MaxErrors) /\ label \in Path
      BY <1>1, <1>5, ChoiceType, BranchPath DEF TypeOK
    <2>3. pos' \in 0 .. Count
      BY <1>1, <1>5, <2>1
    <2>4. CASE IsFine(o)
      BY <1>1, <1>5, <2>1, <2>3, <2>4, ImportKeeps
    <2>5. CASE ~IsFine(o)
      <3> HIDE DEF o, label
      <3>1. r \in Report /\ g \in Seq(Detail) /\ Len(g) = Len(o.found) /\ Covers(r, g, o.left, MaxErrors)
        BY <2>2, LocatedReport, LimitAssumption
      <3>2. g # << >> /\ o.left \in BOOLEAN
        BY <2>2, <2>5, <3>1, EmptySeq DEF IsFine, Outcome
      <3> HIDE DEF r, g
      <3> QED BY <1>1, <2>1, <2>3, <2>5, <3>1, <3>2, FailKeeps
    <2> QED BY <2>4, <2>5
  <1> QED BY <1>1, <1>3, <1>4, <1>5

LEMMA EnterKeeps == ReportInv /\ EnterChoices => ReportInv'
  <1> SUFFICES ASSUME ReportInv, EnterChoices PROVE ReportInv'
    OBVIOUS
  <1>1. /\ pos = 0 /\ best = 0 /\ errors = Nothing /\ found = << >> /\ left = FALSE
        /\ pass' = "choices" /\ UNCHANGED <<union, pos, best, winner, errors, found, left>>
    BY DEF ReportInv, FreshAtEntry, EnterChoices
  <1>2. TypeOK'
    BY <1>1 DEF ReportInv, TypeOK, Count
  <1>3. ReportContract'
    BY <1>1, EmptyCovers, LimitAssumption DEF ReportContract
  <1>4. Kept'
    BY <1>1 DEF Kept
  <1> QED BY <1>1, <1>2, <1>3, <1>4 DEF ReportInv, FreshAtEntry

LEMMA TryKeeps == ReportInv /\ TryChoice => ReportInv'
  <1> SUFFICES ASSUME ReportInv, TryChoice PROVE ReportInv'
    OBVIOUS
  <1> DEFINE c == pos + 1
             o == union.choices[c].outcome
             path == AtBranch(c)
             e == CollectError(errors, At(path, ReportOf(o, MaxErrors)), MaxErrors)
             f == found \o LocateAll(path, o.found)
             l == left \/ o.left
  <1>1. TypeOK /\ Kept /\ pass = "choices" /\ pos < Count /\ pos' = c
        /\ Covers(errors, found, left, MaxErrors)
    BY DEF ReportInv, ReportContract, TryChoice
  <1>2. pos \in Nat /\ c \in 1 .. Count /\ c \in Nat /\ path \in Path /\ o \in Outcome(MaxErrors)
    BY <1>1, ChoiceType, BranchPath DEF TypeOK
  <1>3. pos' \in 0 .. Count
    BY <1>1, <1>2
  <1>4. CASE IsFine(o) /\ Decides(c)
    BY <1>1, <1>2, <1>3, <1>4, ImportKeeps DEF TryChoice
  <1>5. CASE IsFine(o) /\ ~Decides(c)
    <2>1. /\ best' = (IF best = 0 \/ Better(c, best) THEN c ELSE best)
          /\ UNCHANGED <<union, pass, winner, errors, found, left>>
      BY <1>5 DEF TryChoice
    <2>2. c \in Valid /\ Valid' = Valid /\ Count' = Count
      BY <1>2, <1>5, <2>1 DEF Valid, Count
    <2>3. best' # 0 /\ best' \in Valid /\ best' <= pos' /\ best' \in 0 .. Count
      <3>1. best' = c \/ (best' = best /\ best # 0)
        BY <2>1
      <3> HIDE DEF c
      <3> QED BY <1>1, <1>2, <2>2, <3>1 DEF Kept, TypeOK, c
    <2>4. TypeOK'
      BY <1>1, <1>3, <2>1, <2>2, <2>3 DEF TypeOK
    <2>5. Kept'
      BY <2>2, <2>3 DEF Kept
    <2> QED BY <1>1, <2>1, <2>4, <2>5 DEF ReportInv, FreshAtEntry, ReportContract
  <1>6. CASE ~IsFine(o)
    <2>1. errors' = e /\ found' = f /\ left' = l /\ UNCHANGED <<union, pass, best, winner>>
      BY <1>6 DEF TryChoice
    <2>2. e = Collect(errors, path, o, MaxErrors)
      BY <1>6 DEF Collect
    <2>3. c \notin Valid /\ Valid' = Valid /\ Count' = Count
      BY <1>6, <2>1 DEF Valid, Count
    <2>4. o.found \in Seq(Detail) /\ o.found # << >> /\ l \in BOOLEAN
      BY <1>2, <1>6 DEF IsFine, Outcome
    <2> HIDE DEF o, path
    <2>5. /\ e \in Report /\ f \in Seq(Detail) /\ Covers(e, f, l, MaxErrors)
      BY <1>1, <1>2, <2>2, CollectCovers, LimitAssumption DEF TypeOK
    <2>6. f # << >>
      <3>1. LocateAll(path, o.found) \in Seq(Detail) /\ Len(LocateAll(path, o.found)) = Len(o.found)
        BY <1>2, <2>4, LocateAllType
      <3>2. Len(f) = Len(found) + Len(o.found) /\ Len(o.found) > 0
        BY <1>1, <2>4, <3>1, ConcatElements, EmptySeq DEF TypeOK
      <3> QED BY <1>1, <2>4, <3>2 DEF TypeOK
    <2> HIDE DEF e, f, l
    <2>7. TypeOK'
      BY <1>1, <1>3, <2>1, <2>3, <2>4, <2>5 DEF TypeOK
    <2>8. Kept'
      <3>1. \A d \in 1 .. pos' : d \in 1 .. pos \/ d = c
        BY <1>1, <1>2
      <3>2. best \in Nat /\ (best <= pos => best <= pos')
        BY <1>1, <1>2 DEF TypeOK
      <3> HIDE DEF c
      <3> QED BY <1>1, <2>1, <2>3, <2>6, <3>1, <3>2 DEF Kept
    <2> QED BY <1>1, <2>1, <2>5, <2>7, <2>8 DEF ReportInv, FreshAtEntry, ReportContract
  <1> QED BY <1>4, <1>5, <1>6

LEMMA EndKeeps == ReportInv /\ EndChoices => ReportInv'
  <1> SUFFICES ASSUME ReportInv, EndChoices PROVE ReportInv'
    OBVIOUS
  <1>1. /\ TypeOK /\ Kept /\ pass = "choices" /\ pos = Count /\ pos' = pos
        /\ Covers(errors, found, left, MaxErrors)
    BY DEF ReportInv, ReportContract, EndChoices
  <1>2. Count \in Nat \ {0} /\ pos' \in 0 .. Count
    BY <1>1, ChoiceType DEF TypeOK
  <1>3. CASE best # 0
    BY <1>1, <1>2, <1>3, ImportKeeps DEF EndChoices, TypeOK
  <1>4. CASE best = 0
    <2>1. found # << >> /\ FailWith(errors, found, left)
      BY <1>1, <1>2, <1>4 DEF EndChoices, Kept
    <2> QED BY <1>1, <1>2, <2>1, FailKeeps DEF TypeOK
  <1> QED BY <1>3, <1>4

LEMMA NextReport == ReportInv /\ [Next]_vars => ReportInv'
  <1> SUFFICES ASSUME ReportInv, [Next]_vars PROVE ReportInv'
    OBVIOUS
  <1>1. CASE ValidateAlone   BY <1>1, AloneKeeps
  <1>2. CASE ValidateTagged  BY <1>2, TaggedKeeps
  <1>3. CASE EnterChoices    BY <1>3, EnterKeeps
  <1>4. CASE TryChoice       BY <1>4, TryKeeps
  <1>5. CASE EndChoices      BY <1>5, EndKeeps
  <1>6. CASE UNCHANGED vars
    BY <1>6 DEF vars, ReportInv, TypeOK, FreshAtEntry, Kept, ReportContract, Valid, Count
  <1> QED BY <1>1, <1>2, <1>3, <1>4, <1>5, <1>6 DEF Next

(* A failed union reports the capped prefix of the errors of all its       *)
(* branches, truthfully flagged, or the one declared error; and it never   *)
(* fails without an error.                                                 *)
THEOREM FailuresAreExact == Spec => []ReportContract
  <1>1. ReportInv => ReportContract
    BY DEF ReportInv
  <1> QED BY <1>1, InitReport, NextReport, PTL DEF Spec

-----------------------------------------------------------------------------
Deciding == {c \in Valid : union.choices[c].exactness = 2 /\ union.choices[c].fields = Uncounted}

(* Every valid branch counts its fields, or none does.                     *)
Uniform ==
  \A c, d \in Valid : (union.choices[c].fields = Uncounted) = (union.choices[d].fields = Uncounted)

(* The choice w is what the smart mode promises among the first n.         *)
Leads(w, n) ==
  /\ \A c \in Valid : w < c /\ c <= n => ~Better(c, w)
  /\ Uniform => \A c \in Valid : c <= n => /\ c < w => Above(w, c)
                                           /\ c > w => ~Above(c, w)

(* While the smart mode tries its choices, the kept one leads, and none    *)
(* has been met that ends the loop.                                        *)
Leading ==
  pass = "choices" =>
    /\ union.mode # "tagged"
    /\ union.mode = "smart" => /\ \A c \in Deciding : pos < c
                               /\ best # 0 => Leads(best, pos)

ChoiceInv == ReportInv /\ Leading /\ Verdict /\ BestWins /\ ExactEndsTheLoop

(* Choices have numbers to compare.                                        *)
LEMMA ChoiceNumbers ==
  ASSUME union \in Unions, NEW c \in Valid
  PROVE  /\ c \in Nat /\ c \in 1 .. Count
         /\ union.choices[c].fields \in Int /\ union.choices[c].exactness \in 0 .. 2
  <1>1. c \in 1 .. Count /\ union.choices[c] \in Choice
    BY ChoiceType DEF Valid
  <1>2. Count \in Nat
    BY ChoiceType
  <1> QED BY <1>1, <1>2 DEF Choice, Uncounted

(* Where all branches count, or none do, the comparison is the order by    *)
(* fields and then exactness.                                              *)
LEMMA BetterIsAbove ==
  ASSUME union \in Unions, Uniform, NEW c \in Valid, NEW d \in Valid
  PROVE  Better(c, d) <=> Above(c, d)
  <1>1. /\ union.choices[c].fields \in Int /\ union.choices[c].exactness \in 0 .. 2
        /\ union.choices[d].fields \in Int /\ union.choices[d].exactness \in 0 .. 2
    BY ChoiceNumbers
  <1>2. (union.choices[c].fields = Uncounted) = (union.choices[d].fields = Uncounted)
    BY DEF Uniform
  <1> QED BY <1>1, <1>2 DEF Better, Above

(* The next valid choice takes the lead when it is better, and leaves it   *)
(* where it was when it is not.                                            *)
LEMMA LeadMoves ==
  ASSUME union \in Unions, NEW n \in Nat, NEW w \in Valid, w <= n, n + 1 \in Valid, Leads(w, n)
  PROVE  /\ Better(n + 1, w) => Leads(n + 1, n + 1)
         /\ ~Better(n + 1, w) => Leads(w, n + 1)
  <1> DEFINE c == n + 1
  <1>1. \A d \in Valid : d \in Nat
    BY ChoiceNumbers
  <1>2. \A d \in Valid : d <= c => d <= n \/ d = c
    BY <1>1
  <1>3. ASSUME Better(c, w) PROVE Leads(c, c)
    <2>1. \A d \in Valid : ~(c < d /\ d <= c)
      BY <1>1
    <2>2. ASSUME Uniform, NEW d \in Valid, d <= c PROVE (d < c => Above(c, d)) /\ ~(d > c)
      <3>1. Above(c, w)
        BY <1>3, <2>2, BetterIsAbove
      <3>2. d = c \/ d = w \/ (d < w /\ Above(w, d)) \/ (d > w /\ ~Above(d, w))
        BY <1>1, <1>2, <2>2 DEF Leads
      <3>3. /\ union.choices[c].fields \in Int /\ union.choices[c].exactness \in 0 .. 2
            /\ union.choices[w].fields \in Int /\ union.choices[w].exactness \in 0 .. 2
            /\ union.choices[d].fields \in Int /\ union.choices[d].exactness \in 0 .. 2
        BY ChoiceNumbers
      <3>4. d # c => Above(c, d)
        <4> HIDE DEF c
        <4> QED BY <3>1, <3>2, <3>3 DEF Above
      <3> QED BY <1>1, <2>2, <3>4
    <2> HIDE DEF c
    <2> QED BY <2>1, <2>2 DEF Leads
  <1>4. ASSUME ~Better(c, w) PROVE Leads(w, c)
    <2>1. Uniform => ~Above(c, w)
      BY <1>4, BetterIsAbove
    <2>2. w < c /\ ~(c < w)
      BY <1>1
    <2> HIDE DEF c
    <2> QED BY <1>2, <1>4, <2>1, <2>2 DEF Leads
  <1> QED BY <1>3, <1>4

(* A choice that is not valid changes nothing.                             *)
LEMMA LeadStays ==
  ASSUME union \in Unions, NEW n \in Nat, NEW w, n + 1 \notin Valid, Leads(w, n)
  PROVE  Leads(w, n + 1)
  <1>1. \A d \in Valid : d \in Nat
    BY ChoiceNumbers
  <1>2. \A d \in Valid : d <= n + 1 => d <= n
    BY <1>1
  <1> QED BY <1>2 DEF Leads

(* The first valid choice leads.                                           *)
LEMMA LeadStarts ==
  ASSUME union \in Unions, NEW n \in Nat, \A d \in 1 .. n : d \notin Valid
  PROVE  Leads(n + 1, n + 1)
  <1>1. \A d \in Valid : d \in Nat /\ d \in 1 .. Count
    BY ChoiceNumbers
  <1>2. \A d \in Valid : d <= n + 1 => d = n + 1
    BY <1>1
  <1>3. \A d \in Valid : d <= n + 1 => ~(n + 1 < d) /\ ~(d < n + 1)
    BY <1>2
  <1> QED BY <1>3 DEF Leads

(* What is said of the union's choices is the same after a step.           *)
LEMMA SameChoices ==
  ASSUME union' = union
  PROVE  /\ Count' = Count /\ Valid' = Valid /\ Deciding' = Deciding
         /\ \A w, n : Leads(w, n)' <=> Leads(w, n)
  <1>1. Count' = Count /\ Valid' = Valid
    BY DEF Count, Valid
  <1>2. Deciding' = Deciding
    BY <1>1 DEF Deciding
  <1>3. ASSUME NEW w, NEW n PROVE Leads(w, n)' <=> Leads(w, n)
    BY <1>1 DEF Leads, Uniform, Better, Above
  <1> QED BY <1>1, <1>2, <1>3

(* The counterparts of the definitions in the property.                    *)
LEMMA ExactEndsMeans ==
  ExactEndsTheLoop <=>
    (union.mode = "smart" =>
       /\ \A c \in Deciding : pos <= c /\ (pos = c /\ pass = "valid" => winner = c)
       /\ pass = "valid" /\ pos < Count => winner = pos /\ winner \in Deciding)
  BY DEF ExactEndsTheLoop, Deciding

LEMMA BestWinsMeans ==
  ASSUME union \in Unions
  PROVE  BestWins <=>
           (union.mode = "smart" /\ pass = "valid" =>
              /\ \A c \in Valid : winner < c /\ c <= pos => ~Better(c, winner)
              /\ Uniform => \A c \in Valid : /\ c < winner => Above(winner, c)
                                             /\ c > winner => ~Above(c, winner))
  BY DEF BestWins, Uniform

LEMMA InitChoice == Init => ChoiceInv
  <1> SUFFICES ASSUME Init PROVE ChoiceInv
    OBVIOUS
  <1>1. ReportInv /\ pass = "enter" /\ pos = 0 /\ union \in Unions
    BY InitReport DEF Init
  <1>2. ExactEndsTheLoop
    <2>1. \A c \in Valid : c \in 1 .. Count /\ c \in Nat
      BY <1>1, ChoiceNumbers
    <2>2. \A c \in Deciding : pos <= c
      BY <1>1, <2>1 DEF Deciding
    <2> QED BY <1>1, <2>2, ExactEndsMeans
  <1> QED BY <1>1, <1>2 DEF ChoiceInv, Leading, Verdict, BestWins

(* Where the smart mode ends, and what it has seen by then.                *)
LEMMA ImportChoice ==
  ASSUME ReportInv, NEW c \in Valid, Import(c), pos' \in Nat, ReportInv',
         union.mode = "smart" =>
           /\ Leads(c, pos')
           /\ \A d \in Deciding : pos' < d \/ (d = c /\ pos' = c)
           /\ pos' = Count \/ (pos' = c /\ c \in Deciding)
           /\ c \in Deciding => \A d \in Valid : d < c => d \notin Deciding
  PROVE  ChoiceInv'
  <1>1. union \in Unions /\ union' = union /\ pass' = "valid" /\ winner' = c
    BY DEF Import, ReportInv, TypeOK
  <1>2. /\ Count' = Count /\ Valid' = Valid /\ Deciding' = Deciding
        /\ Count \in Nat /\ \A d \in Valid : d \in Nat /\ d \in 1 .. Count
    BY <1>1, SameChoices, ChoiceType, ChoiceNumbers
  <1>3. Verdict'
    BY <1>1, <1>2 DEF Verdict
  <1>4. Leading'
    BY <1>1 DEF Leading
  <1>5. ASSUME union.mode = "smart" PROVE BestWins'
    <2>1. \A d \in Valid : c < d /\ d <= pos' => ~Better(d, c)
      BY <1>5 DEF Leads
    <2>2. ASSUME Uniform, NEW d \in Valid
          PROVE  (d < c => Above(c, d)) /\ (d > c => ~Above(d, c))
      <3>1. CASE pos' = Count
        BY <1>2, <1>5, <2>2, <3>1 DEF Leads
      <3>2. CASE pos' = c /\ c \in Deciding
        <4>1. /\ union.choices[c].fields \in Int /\ union.choices[c].exactness \in 0 .. 2
              /\ union.choices[d].fields \in Int /\ union.choices[d].exactness \in 0 .. 2
          BY <1>1, ChoiceNumbers
        <4>2. union.choices[c].fields = Uncounted /\ union.choices[c].exactness = 2
          BY <3>2 DEF Deciding
        <4>3. union.choices[d].fields = Uncounted
          BY <2>2, <4>2 DEF Uniform
        <4>4. d < c => union.choices[d].exactness # 2
          BY <1>5, <2>2, <3>2, <4>3 DEF Deciding
        <4> QED BY <4>1, <4>2, <4>3, <4>4 DEF Above
      <3> QED BY <1>5, <3>1, <3>2
    <2>3. (\A d, e \in Valid' : (union'.choices[d].fields = Uncounted) = (union'.choices[e].fields = Uncounted))
            => Uniform
      BY <1>1, <1>2 DEF Uniform
    <2> QED BY <1>1, <1>2, <2>1, <2>2, <2>3 DEF BestWins, Better, Above
  <1>6. ASSUME union.mode = "smart" PROVE ExactEndsTheLoop'
    <2>1. \A d \in Deciding : pos' <= d /\ (pos' = d => c = d)
      <3> SUFFICES ASSUME NEW d \in Deciding PROVE pos' <= d /\ (pos' = d => c = d)
        OBVIOUS
      <3>1. d \in Nat /\ d \in 1 .. Count /\ c \in 1 .. Count
        BY <1>2 DEF Deciding
      <3>2. CASE pos' < d
        BY <3>1, <3>2
      <3>3. CASE d = c /\ pos' = c
        BY <3>1, <3>3
      <3> QED BY <1>6, <3>2, <3>3
    <2>2. pos' < Count => c = pos' /\ c \in Deciding
      BY <1>2, <1>6
    <2>3. union'.mode = "smart" =>
            /\ \A d \in Deciding' : pos' <= d /\ (pos' = d /\ pass' = "valid" => winner' = d)
            /\ pass' = "valid" /\ pos' < Count' => winner' = pos' /\ winner' \in Deciding'
      BY <1>1, <1>2, <2>1, <2>2
    <2> QED BY <2>3 DEF ExactEndsTheLoop, Deciding
  <1>7. union.mode # "smart" => BestWins' /\ ExactEndsTheLoop'
    BY <1>1 DEF BestWins, ExactEndsTheLoop
  <1> QED BY <1>3, <1>4, <1>5, <1>6, <1>7 DEF ChoiceInv

(* Failing says nothing of a winner; a branch that is not tagged fails     *)
(* only when no branch is valid.                                           *)
LEMMA FailChoice ==
  ASSUME ReportInv, ReportInv', union' = union, pass' = "invalid", pos' \in Nat,
         union.mode # "tagged" => Valid = {}
  PROVE  ChoiceInv'
  <1>1. Valid' = Valid /\ Deciding' = Deciding /\ union \in Unions
    BY SameChoices DEF ReportInv, TypeOK
  <1>2. Verdict' /\ Leading' /\ BestWins'
    BY <1>1 DEF Verdict, Leading, BestWins
  <1>3. ExactEndsTheLoop'
    <2>1. union.mode = "smart" => Deciding = {}
      BY DEF Deciding
    <2>2. union'.mode = "smart" =>
            /\ \A d \in Deciding' : pos' <= d /\ (pos' = d /\ pass' = "valid" => winner' = d)
            /\ pass' = "valid" /\ pos' < Count' => winner' = pos' /\ winner' \in Deciding'
      BY <1>1, <2>1
    <2> QED BY <2>2 DEF ExactEndsTheLoop, Deciding
  <1> QED BY <1>2, <1>3 DEF ChoiceInv

LEMMA AloneChoice == ChoiceInv /\ ValidateAlone => ChoiceInv'
  <1> SUFFICES ASSUME ChoiceInv, ValidateAlone PROVE ChoiceInv'
    OBVIOUS
  <1> DEFINE o == union.choices[1].outcome
  <1>1. ReportInv /\ ReportInv' /\ Count = 1 /\ pos' = 1 /\ union \in Unions
    BY AloneKeeps DEF ChoiceInv, ReportInv, TypeOK, ValidateAlone, Collapsed
  <1>2. Valid \subseteq {1} /\ (1 \in Valid <=> IsFine(o))
    BY <1>1 DEF Valid
  <1>3. CASE IsFine(o)
    <2>1. Import(1)
      BY <1>3 DEF ValidateAlone
    <2>2. 1 \in Valid /\ \A d \in Valid : d = 1
      BY <1>2, <1>3
    <2>3. Leads(1, 1)
      BY <2>2 DEF Leads
    <2>4. \A d \in Deciding : d = 1
      BY <2>2 DEF Deciding
    <2> QED BY <1>1, <2>1, <2>2, <2>3, <2>4, ImportChoice
  <1>4. CASE ~IsFine(o)
    <2>1. union' = union /\ pass' = "invalid"
      BY <1>4 DEF ValidateAlone
    <2>2. Valid = {}
      BY <1>2, <1>4
    <2> QED BY <1>1, <2>1, <2>2, FailChoice
  <1> QED BY <1>3, <1>4

LEMMA TaggedChoice == ChoiceInv /\ ValidateTagged => ChoiceInv'
  <1> SUFFICES ASSUME ChoiceInv, ValidateTagged PROVE ChoiceInv'
    OBVIOUS
  <1>1. ReportInv' /\ union.mode = "tagged"
    BY TaggedKeeps DEF ChoiceInv, ValidateTagged
  <1>2. union' = union /\ pass' \in {"valid", "invalid"}
    BY DEF ValidateTagged, Import, FailWith
  <1> QED BY <1>1, <1>2 DEF ChoiceInv, Leading, Verdict, BestWins, ExactEndsTheLoop

LEMMA EnterChoice == ChoiceInv /\ EnterChoices => ChoiceInv'
  <1> SUFFICES ASSUME ChoiceInv, EnterChoices PROVE ChoiceInv'
    OBVIOUS
  <1>1. ReportInv' /\ ReportInv /\ pos = 0 /\ best = 0 /\ union \in Unions /\ union.mode # "tagged"
    BY EnterKeeps DEF ChoiceInv, EnterChoices, ReportInv, FreshAtEntry, TypeOK
  <1>2. pass' = "choices" /\ UNCHANGED <<union, pos, best, winner>>
    BY DEF EnterChoices
  <1>3. Deciding' = Deciding /\ \A d \in Deciding : 0 < d
    <2>1. \A d \in Valid : 0 < d
      BY <1>1, ChoiceType DEF Valid
    <2> QED BY <1>2, <2>1, SameChoices DEF Deciding
  <1>4. Leading'
    BY <1>1, <1>2, <1>3 DEF Leading
  <1>5. Verdict' /\ BestWins'
    BY <1>2 DEF Verdict, BestWins
  <1>6. ExactEndsTheLoop'
    <2>1. union'.mode = "smart" =>
            /\ \A d \in Deciding' : pos' <= d /\ (pos' = d /\ pass' = "valid" => winner' = d)
            /\ pass' = "valid" /\ pos' < Count' => winner' = pos' /\ winner' \in Deciding'
      <3>1. \A d \in Deciding : 0 <= d
        <4>1. \A d \in Deciding : d \in Nat
          BY <1>1, ChoiceNumbers DEF Deciding
        <4> QED BY <4>1
      <3> QED BY <1>1, <1>2, <1>3, <3>1
    <2> QED BY <2>1 DEF ExactEndsTheLoop, Deciding
  <1> QED BY <1>1, <1>4, <1>5, <1>6 DEF ChoiceInv

LEMMA TryChoiceKeeps == ChoiceInv /\ TryChoice => ChoiceInv'
  <1> SUFFICES ASSUME ChoiceInv, TryChoice PROVE ChoiceInv'
    OBVIOUS
  <1> DEFINE c == pos + 1
             o == union.choices[c].outcome
  <1>1. /\ ReportInv /\ ReportInv' /\ Leading /\ Kept /\ TypeOK /\ union \in Unions
        /\ pass = "choices" /\ pos < Count /\ pos' = c
    BY TryKeeps DEF ChoiceInv, ReportInv, TypeOK, TryChoice
  <1>2. pos \in Nat /\ Count \in Nat /\ c \in 1 .. Count /\ c \in Nat /\ best \in Nat
    BY <1>1, ChoiceType DEF TypeOK
  <1>3. c \in Valid <=> IsFine(o)
    BY <1>2 DEF Valid
  <1>4. \A d \in Valid : d \in Nat
    BY <1>1, ChoiceNumbers
  <1>5. union.mode # "tagged"
    BY <1>1 DEF Leading
  <1>6. union.mode = "smart" => \A d \in Deciding : pos < d /\ (d = c \/ c < d)
    BY <1>1, <1>2, <1>4 DEF Leading, Deciding
  <1>7. (best = 0 => \A d \in 1 .. pos : d \notin Valid) /\ (best # 0 => best \in Valid /\ best <= pos)
    BY <1>1 DEF Kept
  <1>8. CASE IsFine(o) /\ Decides(c)
    <2>1. Import(c)
      BY <1>8 DEF TryChoice
    <2>2. union.mode = "smart" => c \in Deciding
      BY <1>3, <1>8 DEF Decides, Deciding
    <2>3. ASSUME union.mode = "smart" PROVE Leads(c, c)
      <3>1. CASE best = 0
        BY <1>1, <1>2, <1>7, <3>1, LeadStarts
      <3>2. CASE best # 0
        <4>1. \A d \in Valid : ~(c < d /\ d <= c) /\ (d <= c => ~(d > c))
          BY <1>2, <1>4
        <4>2. ASSUME Uniform, NEW d \in Valid, d < c PROVE Above(c, d)
          <5>1. d \notin Deciding
            BY <1>2, <1>4, <1>6, <2>3, <4>2
          <5>2. /\ union.choices[c].fields \in Int /\ union.choices[c].exactness \in 0 .. 2
                /\ union.choices[d].fields \in Int /\ union.choices[d].exactness \in 0 .. 2
            BY <1>1, <1>3, <1>8, ChoiceNumbers
          <5>3. union.choices[c].fields = Uncounted /\ union.choices[c].exactness = 2 /\ c \in Valid
            BY <2>2, <2>3 DEF Deciding
          <5>4. union.choices[d].fields = Uncounted
            BY <4>2, <5>3 DEF Uniform
          <5>5. union.choices[d].exactness # 2
            BY <4>2, <5>1, <5>4 DEF Deciding
          <5> HIDE DEF c
          <5> QED BY <5>2, <5>3, <5>4, <5>5 DEF Above
        <4> HIDE DEF c
        <4> QED BY <4>1, <4>2 DEF Leads
      <3> QED BY <3>1, <3>2
    <2>4. union.mode = "smart" => \A d \in Valid : d < c => d \notin Deciding
      BY <1>2, <1>4, <1>6
    <2>5. union.mode = "smart" => \A d \in Deciding : pos' < d \/ (d = c /\ pos' = c)
      BY <1>1, <1>6
    <2> HIDE DEF c
    <2> QED BY <1>1, <1>2, <1>3, <1>8, <2>1, <2>2, <2>3, <2>4, <2>5, ImportChoice
  <1>9. CASE ~(IsFine(o) /\ Decides(c))
    <2>1. /\ UNCHANGED <<union, pass, winner>>
          /\ best' = IF IsFine(o) /\ (best = 0 \/ Better(c, best)) THEN c ELSE best
      BY <1>9 DEF TryChoice
    <2>2. Count' = Count /\ Valid' = Valid /\ Deciding' = Deciding
          /\ \A w, n : Leads(w, n)' <=> Leads(w, n)
      BY <2>1, SameChoices
    <2>3. union.mode = "smart" => c \notin Deciding
      BY <1>3, <1>9 DEF Decides, Deciding
    <2>4. union.mode = "smart" => \A d \in Deciding : c < d
      BY <1>6, <2>3
    <2>5. ASSUME union.mode = "smart", best' # 0 PROVE Leads(best', c)
      <3>1. CASE ~IsFine(o)
        <4>1. c \notin Valid /\ best' = best /\ Leads(best, pos)
          BY <1>1, <1>3, <2>1, <2>5, <3>1 DEF Leading
        <4> QED BY <1>1, <1>2, <4>1, LeadStays
      <3>2. CASE IsFine(o) /\ best = 0
        BY <1>1, <1>2, <1>7, <2>1, <3>2, LeadStarts
      <3>3. CASE IsFine(o) /\ best # 0
        <4>1. c \in Valid /\ best \in Valid /\ best <= pos /\ Leads(best, pos)
          BY <1>1, <1>3, <1>7, <2>5, <3>3 DEF Leading
        <4>2. (Better(c, best) => Leads(c, c)) /\ (~Better(c, best) => Leads(best, c))
          BY <1>1, <1>2, <4>1, LeadMoves
        <4> HIDE DEF c
        <4> QED BY <2>1, <3>3, <4>2
      <3> QED BY <3>1, <3>2, <3>3
    <2>6. Leading'
      BY <1>1, <1>5, <2>1, <2>2, <2>4, <2>5 DEF Leading
    <2>7. Verdict' /\ BestWins'
      BY <1>1, <2>1 DEF Verdict, BestWins
    <2>8. ExactEndsTheLoop'
      <3>1. union.mode = "smart" => \A d \in Deciding : c <= d /\ d \in Nat
        BY <1>2, <1>4, <2>4 DEF Deciding
      <3>2. union'.mode = "smart" =>
              /\ \A d \in Deciding' : pos' <= d /\ (pos' = d /\ pass' = "valid" => winner' = d)
              /\ pass' = "valid" /\ pos' < Count' => winner' = pos' /\ winner' \in Deciding'
        BY <1>1, <2>1, <2>2, <3>1
      <3> QED BY <3>2 DEF ExactEndsTheLoop, Deciding
    <2> QED BY <1>1, <2>6, <2>7, <2>8 DEF ChoiceInv
  <1> QED BY <1>8, <1>9

LEMMA EndChoice == ChoiceInv /\ EndChoices => ChoiceInv'
  <1> SUFFICES ASSUME ChoiceInv, EndChoices PROVE ChoiceInv'
    OBVIOUS
  <1>1. /\ ReportInv /\ ReportInv' /\ Leading /\ Kept /\ union \in Unions
        /\ pass = "choices" /\ pos = Count /\ pos' = pos /\ pos' \in Nat
    BY EndKeeps, ChoiceType DEF ChoiceInv, ReportInv, TypeOK, EndChoices
  <1>2. \A d \in Valid : d \in Nat /\ d \in 1 .. Count
    BY <1>1, ChoiceNumbers
  <1>3. CASE best # 0
    <2>1. best \in Valid /\ Import(best)
      BY <1>1, <1>3 DEF Kept, EndChoices
    <2>2. union.mode = "smart" => Leads(best, pos') /\ \A d \in Deciding : pos' < d
      BY <1>1, <1>3 DEF Leading
    <2>3. union.mode = "smart" => best \notin Deciding
      BY <1>1, <1>2, <2>1, <2>2
    <2> QED BY <1>1, <2>1, <2>2, <2>3, ImportChoice
  <1>4. CASE best = 0
    <2>1. pass' = "invalid" /\ union' = union
      BY <1>4 DEF EndChoices, FailWith
    <2>2. Valid = {}
      BY <1>1, <1>2, <1>4 DEF Kept
    <2> QED BY <1>1, <2>1, <2>2, FailChoice
  <1> QED BY <1>3, <1>4

LEMMA NextChoice == ChoiceInv /\ [Next]_vars => ChoiceInv'
  <1> SUFFICES ASSUME ChoiceInv, [Next]_vars PROVE ChoiceInv'
    OBVIOUS
  <1>1. CASE ValidateAlone   BY <1>1, AloneChoice
  <1>2. CASE ValidateTagged  BY <1>2, TaggedChoice
  <1>3. CASE EnterChoices    BY <1>3, EnterChoice
  <1>4. CASE TryChoice       BY <1>4, TryChoiceKeeps
  <1>5. CASE EndChoices      BY <1>5, EndChoice
  <1>6. CASE UNCHANGED vars
    <2>1. ReportInv'
      BY <1>6, NextReport DEF ChoiceInv
    <2>2. UNCHANGED <<union, pass, pos, best, winner>>
      BY <1>6 DEF vars
    <2>3. Verdict' /\ BestWins' /\ ExactEndsTheLoop'
      BY <2>2 DEF ChoiceInv, Verdict, BestWins, ExactEndsTheLoop, Valid, Count, Better, Above
    <2>4. Leading'
      BY <2>2, SameChoices DEF ChoiceInv, Leading
    <2> QED BY <2>1, <2>3, <2>4 DEF ChoiceInv
  <1> QED BY <1>1, <1>2, <1>3, <1>4, <1>5, <1>6 DEF Next

(* A union that is not tagged is valid exactly when one of its branches    *)
(* is, and imports a valid one.                                            *)
THEOREM VerdictIsRight == Spec => []Verdict
  <1>1. ChoiceInv => Verdict
    BY DEF ChoiceInv
  <1> QED BY <1>1, InitChoice, NextChoice, PTL DEF Spec

(* The smart mode keeps what candidate_is_better promises although that    *)
(* comparison is not transitive.                                           *)
THEOREM SmartChoosesBest == Spec => []BestWins
  <1>1. ChoiceInv => BestWins
    BY DEF ChoiceInv
  <1> QED BY <1>1, InitChoice, NextChoice, PTL DEF Spec

(* The smart mode stops early at an exact, uncounted branch and nowhere    *)
(* else.                                                                   *)
THEOREM StopsOnlyWhenExact == Spec => []ExactEndsTheLoop
  <1>1. ChoiceInv => ExactEndsTheLoop
    BY DEF ChoiceInv
  <1> QED BY <1>1, InitChoice, NextChoice, PTL DEF Spec
=============================================================================
