--------------------------- MODULE ErrorReportProofs ---------------------------
(***************************************************************************)
(* Lemmas about the operators of ErrorReport.  CollectCovers and           *)
(* StopCovers are what the proofs about the validation loops cite; they    *)
(* rest on how capping a sequence (Take) meets concatenation.              *)
(***************************************************************************)
EXTENDS ErrorReport, SequenceTheorems, TLAPS


(* A short sequence is taken whole.                                        *)
LEMMA TakeShort ==
  ASSUME NEW s \in Seq(Detail), NEW n \in Nat, Len(s) <= n
  PROVE  Take(s, n) = s
  <1>1. (IF Len(s) < n THEN Len(s) ELSE n) = Len(s)
    OBVIOUS
  <1> QED BY <1>1, SubSeqFull DEF Take

(* Of a long one the first n elements are taken.                           *)
LEMMA TakeLong ==
  ASSUME NEW s \in Seq(Detail), NEW n \in Nat, n <= Len(s)
  PROVE  /\ Take(s, n) \in Seq(Detail)
         /\ Len(Take(s, n)) = n
         /\ \A i \in 1 .. n : Take(s, n)[i] = s[i]
  <1>1. (IF Len(s) < n THEN Len(s) ELSE n) = n
    OBVIOUS
  <1> QED BY <1>1 DEF Take

(* What is taken is a sequence of details, no longer than the cap.         *)
LEMMA TakeType ==
  ASSUME NEW s \in Seq(Detail), NEW n \in Nat
  PROVE  Take(s, n) \in Seq(Detail) /\ Len(Take(s, n)) \in Nat /\ Len(Take(s, n)) <= n
  <1>1. CASE Len(s) <= n  BY <1>1, TakeShort
  <1>2. CASE n <= Len(s)  BY <1>2, TakeLong
  <1> QED BY <1>1, <1>2

(* ConcatProperties of the library, for details.                           *)
LEMMA ConcatElements ==
  ASSUME NEW s \in Seq(Detail), NEW t \in Seq(Detail)
  PROVE  /\ s \o t \in Seq(Detail)
         /\ Len(s \o t) = Len(s) + Len(t)
         /\ \A i \in 1 .. Len(s) + Len(t) : (s \o t)[i] = IF i <= Len(s) THEN s[i] ELSE t[i - Len(s)]
  OBVIOUS

(* Capping at k what was capped at m is capping at k.                      *)
LEMMA TakeTake ==
  ASSUME NEW t \in Seq(Detail), NEW m \in Nat, NEW k \in Nat, k <= m
  PROVE  Take(Take(t, m), k) = Take(t, k)
  <1>1. CASE Len(t) <= m
    BY <1>1, TakeShort
  <1>2. CASE m <= Len(t)
    <2> DEFINE b == Take(t, m)
    <2>1. b \in Seq(Detail) /\ Len(b) = m /\ \A i \in 1 .. m : b[i] = t[i]
      BY <1>2, TakeLong
    <2> HIDE DEF b
    <2>2. /\ Take(b, k) \in Seq(Detail) /\ Len(Take(b, k)) = k
          /\ \A i \in 1 .. k : Take(b, k)[i] = b[i]
      BY <2>1, TakeLong
    <2>3. /\ Take(t, k) \in Seq(Detail) /\ Len(Take(t, k)) = k
          /\ \A i \in 1 .. k : Take(t, k)[i] = t[i]
      BY <1>2, TakeLong
    <2>4. \A i \in 1 .. k : Take(b, k)[i] = Take(t, k)[i]
      BY <2>1, <2>2, <2>3
    <2>5. Take(b, k) = Take(t, k)
      BY <2>2, <2>3, <2>4, SeqEqual
    <2> QED BY <2>5 DEF b
  <1> QED BY <1>1, <1>2

(* A cap that falls inside the first sequence hides the second one.        *)
LEMMA TakeInside ==
  ASSUME NEW s \in Seq(Detail), NEW t \in Seq(Detail), NEW n \in Nat, n <= Len(s)
  PROVE  Take(s \o t, n) = Take(s, n)
  <1> DEFINE w == s \o t
  <1>1. w \in Seq(Detail) /\ n <= Len(w) /\ \A i \in 1 .. n : w[i] = s[i]
    BY ConcatElements
  <1> HIDE DEF w
  <1>2. /\ Take(w, n) \in Seq(Detail) /\ Len(Take(w, n)) = n
        /\ \A i \in 1 .. n : Take(w, n)[i] = w[i]
    BY <1>1, TakeLong
  <1>3. /\ Take(s, n) \in Seq(Detail) /\ Len(Take(s, n)) = n
        /\ \A i \in 1 .. n : Take(s, n)[i] = s[i]
    BY TakeLong
  <1>4. Take(w, n) = Take(s, n)
    BY <1>1, <1>2, <1>3, SeqEqual
  <1> QED BY <1>4 DEF w

(* A cap that falls behind it caps the second one with what is left.       *)
LEMMA TakeBehind ==
  ASSUME NEW s \in Seq(Detail), NEW t \in Seq(Detail), NEW n \in Nat, Len(s) <= n
  PROVE  Take(s \o t, n) = s \o Take(t, n - Len(s))
  <1> DEFINE w == s \o t
             k == n - Len(s)
             c == Take(t, k)
             u == s \o c
  <1>1. w \in Seq(Detail) /\ Len(w) = Len(s) + Len(t)
    BY ConcatElements
  <1>2. k \in Nat
    OBVIOUS
  <1>3. CASE Len(t) <= k
    <2>1. Len(w) <= n  BY <1>1, <1>3
    <2>2. Take(w, n) = w
      <3> HIDE DEF w
      <3> QED BY <1>1, <2>1, TakeShort
    <2>3. c = t
      <3> HIDE DEF k
      <3> QED BY <1>2, <1>3, TakeShort
    <2> QED BY <2>2, <2>3
  <1>4. CASE k <= Len(t)
    <2>1. c \in Seq(Detail) /\ Len(c) = k /\ \A i \in 1 .. k : c[i] = t[i]
      BY <1>2, <1>4, TakeLong
    <2> HIDE DEF c
    <2>0. Len(s) + k = n
      OBVIOUS
    <2>2. /\ u \in Seq(Detail) /\ Len(u) = n
          /\ \A i \in 1 .. n : u[i] = IF i <= Len(s) THEN s[i] ELSE c[i - Len(s)]
      <3>1. /\ u \in Seq(Detail) /\ Len(u) = Len(s) + Len(c)
            /\ \A i \in 1 .. Len(s) + Len(c) : u[i] = IF i <= Len(s) THEN s[i] ELSE c[i - Len(s)]
        BY <2>1, ConcatElements
      <3> HIDE DEF u, k
      <3> QED BY <3>1, <2>1, <2>0
    <2>3. \A i \in 1 .. n : w[i] = IF i <= Len(s) THEN s[i] ELSE t[i - Len(s)]
      BY <1>4, ConcatElements
    <2>4. n <= Len(w)
      BY <1>1, <1>4
    <2> HIDE DEF w, u
    <2>5. /\ Take(w, n) \in Seq(Detail) /\ Len(Take(w, n)) = n
          /\ \A i \in 1 .. n : Take(w, n)[i] = w[i]
      BY <1>1, <2>4, TakeLong
    <2>6. ASSUME NEW i \in 1 .. n PROVE Take(w, n)[i] = u[i]
      <3>1. CASE i <= Len(s)  BY <3>1, <2>2, <2>3, <2>5
      <3>2. CASE ~(i <= Len(s))
        <4>1. i - Len(s) \in 1 .. k
          BY <3>2
        <4> QED BY <4>1, <3>2, <2>1, <2>2, <2>3, <2>5
      <3> QED BY <3>1, <3>2
    <2>7. Take(w, n) = u
      BY <2>2, <2>5, <2>6, SeqEqual
    <2> QED BY <2>7 DEF w, u, c
  <1> QED BY <1>2, <1>3, <1>4

(* Locating keeps the number of details and locates each of them.          *)
LEMMA LocateAllType ==
  ASSUME NEW path \in Path, NEW t \in Seq(Detail)
  PROVE  /\ LocateAll(path, t) \in Seq(Detail)
         /\ Len(LocateAll(path, t)) = Len(t)
         /\ \A i \in 1 .. Len(t) : LocateAll(path, t)[i] = Locate(path, t[i])
  <1>1. ASSUME NEW d \in Detail PROVE Locate(path, d) \in Detail
    <2> DEFINE longer == path \o d.location
    <2>1. d.location \in Seq(Item) /\ path \in Seq(Item)
      BY DEF Detail, Path
    <2>2. longer \in Seq(Item)
      BY <2>1, ConcatProperties
    <2>3. Locate(path, d) = [d EXCEPT !.location = longer]
      BY DEF Locate
    <2> HIDE DEF longer
    <2> QED BY <2>2, <2>3 DEF Detail, Path
  <1>2. \A i \in 1 .. Len(t) : Locate(path, t[i]) \in Detail
    BY <1>1, ElementOfSeq
  <1>3. LocateAll(path, t) \in [1 .. Len(t) -> Detail] /\ Len(t) \in Nat
    BY <1>2 DEF LocateAll
  <1>4. LocateAll(path, t) \in Seq(Detail)
    BY <1>3, SeqDef
  <1>5. DOMAIN LocateAll(path, t) = 1 .. Len(t)
    BY DEF LocateAll
  <1>6. Len(LocateAll(path, t)) = Len(t)
    BY <1>3, <1>4, <1>5, LenProperties
  <1> QED BY <1>4, <1>6 DEF LocateAll

(* Locating and capping commute.                                           *)
LEMMA LocateTake ==
  ASSUME NEW path \in Path, NEW t \in Seq(Detail), NEW n \in Nat
  PROVE  LocateAll(path, Take(t, n)) = Take(LocateAll(path, t), n)
  <1> DEFINE a == LocateAll(path, t)
  <1>1. a \in Seq(Detail) /\ Len(a) = Len(t) /\ \A i \in 1 .. Len(t) : a[i] = Locate(path, t[i])
    BY LocateAllType
  <1> HIDE DEF a
  <1>2. CASE Len(t) <= n
    <2>1. Take(t, n) = t  BY <1>2, TakeShort
    <2>2. Take(a, n) = a  BY <1>1, <1>2, TakeShort
    <2> QED BY <2>1, <2>2 DEF a
  <1>3. CASE n <= Len(t)
    <2> DEFINE b == Take(t, n)
               c == LocateAll(path, b)
    <2>1. b \in Seq(Detail) /\ Len(b) = n /\ \A i \in 1 .. n : b[i] = t[i]
      BY <1>3, TakeLong
    <2> HIDE DEF b
    <2>2. c \in Seq(Detail) /\ Len(c) = n /\ \A i \in 1 .. n : c[i] = Locate(path, b[i])
      BY <2>1, LocateAllType
    <2> HIDE DEF c
    <2>3. /\ Take(a, n) \in Seq(Detail) /\ Len(Take(a, n)) = n
          /\ \A i \in 1 .. n : Take(a, n)[i] = a[i]
      BY <1>1, <1>3, TakeLong
    <2>4. \A i \in 1 .. n : c[i] = Take(a, n)[i]
      BY <1>1, <1>3, <2>1, <2>2, <2>3
    <2>5. c = Take(a, n)
      BY <2>2, <2>3, <2>4, SeqEqual
    <2> QED BY <2>5 DEF a, b, c
  <1> QED BY <1>2, <1>3

-----------------------------------------------------------------------------
(* append keeps the contract: a report that covers g, appended to a report *)
(* that covers f, covers f followed by g.                                  *)
LEMMA AppendCovers ==
  ASSUME NEW e \in Report, NEW f \in Seq(Detail), NEW l \in BOOLEAN,
         NEW r \in Report, NEW g \in Seq(Detail), NEW m \in BOOLEAN,
         NEW L \in Nat \ {0}, Covers(e, f, l, L), Covers(r, g, m, L)
  PROVE  Covers(AppendReport(e, r, L), f \o g, l \/ m, L)
  <1> DEFINE k == IF Len(e.details) < L THEN L - Len(e.details) ELSE 0
             a == AppendReport(e, r, L)
             w == f \o g
  <1>1. w \in Seq(Detail) /\ Len(w) = Len(f) + Len(g)
    BY ConcatElements
  <1>2. /\ e.details = Take(f, L) /\ (e.truncated <=> (Len(f) > L \/ l)) /\ (l => Len(f) >= L)
        /\ r.details = Take(g, L) /\ (r.truncated <=> (Len(g) > L \/ m)) /\ (m => Len(g) >= L)
    BY DEF Covers
  <1>3. /\ a.details = e.details \o Take(r.details, k)
        /\ a.truncated <=> (e.truncated \/ Len(r.details) > k \/ r.truncated)
    BY Zenon DEF AppendReport
  <1>4. (l \/ m) => Len(w) >= L
    BY <1>1, <1>2
  <1>5. Len(r.details) = IF Len(g) < L THEN Len(g) ELSE L
    <2>1. CASE Len(g) < L   BY <1>2, <2>1, TakeShort
    <2>2. CASE L <= Len(g)  BY <1>2, <2>2, TakeLong
    <2> QED BY <2>1, <2>2
  <1>6. a.details = Take(w, L) /\ (a.truncated <=> (Len(w) > L \/ l \/ m))
    <2> HIDE DEF a, w
    <2>1. CASE L <= Len(f)
      <3>1. e.details \in Seq(Detail) /\ Len(e.details) = L
        BY <1>2, <2>1, TakeLong
      <3>2. k = 0
        BY <3>1
      <3> HIDE DEF k
      <3>3. Take(r.details, k) = << >>
        BY <1>2, <3>2, TakeType DEF Take, Report
      <3>4. Take(w, L) = Take(f, L)
        BY <2>1, TakeInside DEF w
      <3> QED BY <1>1, <1>2, <1>3, <1>5, <2>1, <3>1, <3>2, <3>3, <3>4
    <2>2. CASE Len(f) < L
      <3>1. e.details = f
        BY <1>2, <2>2, TakeShort
      <3>2. k = L - Len(f) /\ k \in Nat /\ k <= L
        BY <2>2, <3>1
      <3> HIDE DEF k
      <3>3. Take(r.details, k) = Take(g, k)
        BY <1>2, <3>2, TakeTake
      <3>4. Take(w, L) = f \o Take(g, k)
        BY <2>2, <3>2, TakeBehind DEF w
      <3>5. (Len(r.details) > k \/ Len(g) > L) <=> Len(w) > L
        BY <1>1, <1>5, <2>2, <3>2
      <3> QED BY <1>1, <1>2, <1>3, <2>2, <3>1, <3>3, <3>4, <3>5
    <2> QED BY <2>1, <2>2
  <1> HIDE DEF a, w
  <1>7. Covers(a, w, l \/ m, L)
    BY <1>4, <1>6 DEF Covers
  <1> QED BY <1>7 DEF a, w

(* What append returns is a report.                                        *)
LEMMA AppendType ==
  ASSUME NEW e \in Report, NEW r \in Report, NEW L \in Nat
  PROVE  AppendReport(e, r, L) \in Report
  <1> DEFINE k == IF Len(e.details) < L THEN L - Len(e.details) ELSE 0
             b == e.truncated \/ Len(r.details) > k \/ r.truncated
  <1>1. /\ e.details \in Seq(Detail) /\ e.truncated \in BOOLEAN
        /\ r.details \in Seq(Detail) /\ r.truncated \in BOOLEAN
    BY DEF Report
  <1>2. k \in Nat
    BY <1>1
  <1>3. b \in BOOLEAN
    OBVIOUS
  <1>4. AppendReport(e, r, L) = [details |-> e.details \o Take(r.details, k), truncated |-> b]
    BY Zenon DEF AppendReport
  <1> HIDE DEF k, b
  <1>5. e.details \o Take(r.details, k) \in Seq(Detail)
    BY <1>1, <1>2, TakeType, ConcatElements
  <1> QED BY <1>3, <1>4, <1>5 DEF Report

(* What the callee returned, located, covers the callee's located errors.  *)
LEMMA LocatedReport ==
  ASSUME NEW L \in Nat \ {0}, NEW path \in Path, NEW o \in Outcome(L)
  PROVE  LET r == At(path, ReportOf(o, L))
             g == LocateAll(path, o.found)
         IN  /\ r \in Report
             /\ g \in Seq(Detail) /\ Len(g) = Len(o.found)
             /\ Covers(r, g, o.left, L)
  <1> DEFINE r == At(path, ReportOf(o, L))
             g == LocateAll(path, o.found)
             b == Len(o.found) > L \/ o.left
  <1>1. o.found \in Seq(Detail) /\ o.left \in BOOLEAN /\ (o.left => Len(o.found) >= L)
    BY DEF Outcome
  <1>2. g \in Seq(Detail) /\ Len(g) = Len(o.found)
    BY <1>1, LocateAllType
  <1>3. r = [details |-> LocateAll(path, Take(o.found, L)), truncated |-> b]
    BY Zenon DEF At, ReportOf
  <1>4. LocateAll(path, Take(o.found, L)) = Take(g, L)
    BY <1>1, LocateTake
  <1>5. Take(g, L) \in Seq(Detail)
    BY <1>2, TakeType
  <1>6. b \in BOOLEAN
    OBVIOUS
  <1>7. b <=> (Len(g) > L \/ o.left)
    BY <1>2
  <1> HIDE DEF r, g, b
  <1>8. r \in Report
    BY <1>3, <1>4, <1>5, <1>6 DEF Report
  <1>9. Covers(r, g, o.left, L)
    BY <1>1, <1>2, <1>3, <1>4, <1>7 DEF Covers
  <1> QED BY <1>2, <1>8, <1>9 DEF r, g

(* The match on a callee's result keeps the contract, and gives a report.  *)
LEMMA CollectCovers ==
  ASSUME NEW e \in Report, NEW f \in Seq(Detail), NEW l \in BOOLEAN,
         NEW L \in Nat \ {0}, Covers(e, f, l, L),
         NEW path \in Path, NEW o \in Outcome(L)
  PROVE  /\ Collect(e, path, o, L) \in Report
         /\ f \o LocateAll(path, o.found) \in Seq(Detail)
         /\ Covers(Collect(e, path, o, L), f \o LocateAll(path, o.found), l \/ o.left, L)
  <1> DEFINE g == LocateAll(path, o.found)
             r == At(path, ReportOf(o, L))
             c == Collect(e, path, o, L)
             w == f \o g
  <1>1. o.found \in Seq(Detail) /\ o.left \in BOOLEAN /\ (o.left => Len(o.found) >= L)
    BY DEF Outcome
  <1>2. r \in Report /\ g \in Seq(Detail) /\ Len(g) = Len(o.found) /\ Covers(r, g, o.left, L)
    BY LocatedReport
  <1>3. c = IF IsFine(o) THEN e ELSE IF e = Nothing THEN r ELSE AppendReport(e, r, L)
    BY DEF Collect, CollectError
  <1> HIDE DEF g, r, c
  <1>4. w \in Seq(Detail)
    BY <1>2, ConcatElements
  <1>5. CASE IsFine(o)
    <2>1. g = << >> /\ ~o.left
      BY <1>1, <1>2, <1>5 DEF IsFine
    <2>2. w = f
      BY <2>1
    <2>3. c \in Report /\ Covers(c, w, l \/ o.left, L)
      BY <1>1, <1>3, <1>5, <2>1, <2>2
    <2> QED BY <1>4, <2>3 DEF c, g
  <1>6. CASE ~IsFine(o) /\ e # Nothing
    <2>1. c = AppendReport(e, r, L)
      BY <1>3, <1>6
    <2>2. Covers(AppendReport(e, r, L), f \o g, l \/ o.left, L)
      BY <1>1, <1>2, AppendCovers
    <2>3. AppendReport(e, r, L) \in Report
      BY <1>2, AppendType
    <2> QED BY <1>4, <2>1, <2>2, <2>3 DEF c, g
  <1>7. CASE ~IsFine(o) /\ e = Nothing
    <2>1. e.details = << >> /\ ~e.truncated
      BY <1>7 DEF Nothing
    <2>2. Len(f) < L
      <3>1. Len(Take(f, L)) = 0
        BY <2>1 DEF Covers
      <3> QED BY <3>1, TakeLong
    <2>3. f = << >> /\ ~l
      <3>1. Take(f, L) = f
        BY <2>2, TakeShort
      <3> QED BY <2>1, <2>2, <3>1 DEF Covers
    <2>4. w = g
      BY <1>2, <2>3
    <2>5. c \in Report /\ Covers(c, w, l \/ o.left, L)
      BY <1>1, <1>2, <1>3, <1>7, <2>3, <2>4
    <2> QED BY <1>4, <2>5 DEF c, g
  <1> QED BY <1>5, <1>6, <1>7

(* Leaving a loop early keeps the contract.                                *)
LEMMA StopCovers ==
  ASSUME NEW e \in Report, NEW f \in Seq(Detail), NEW l \in BOOLEAN, NEW more \in BOOLEAN,
         NEW L \in Nat \ {0}, Covers(e, f, l, L)
  PROVE  Covers(StopAfterErrorCap(e, more, L), f, l \/ (IsFull(e, L) /\ more), L)
  <1>1. IsFull(e, L) => Len(f) >= L
    BY TakeShort DEF IsFull, Covers
  <1>2. CASE IsFull(e, L) /\ more
    BY <1>1, <1>2 DEF StopAfterErrorCap, MarkTruncated, Covers, Report
  <1>3. CASE ~(IsFull(e, L) /\ more)
    BY <1>3 DEF StopAfterErrorCap, Covers
  <1> QED BY <1>2, <1>3

(* What leaving a loop early returns is a report.                          *)
LEMMA StopType ==
  ASSUME NEW e \in Report, NEW more \in BOOLEAN, NEW L \in Nat
  PROVE  StopAfterErrorCap(e, more, L) \in Report
  BY DEF StopAfterErrorCap, MarkTruncated, Report

(* Outcomes under a cap: a valid part's, and one with a single error.      *)
LEMMA SmallOutcomes ==
  ASSUME NEW L \in Nat \ {0}, NEW d \in Detail
  PROVE  /\ Fine \in Outcome(L) /\ Fine.left = FALSE
         /\ Single(d) \in Outcome(L) /\ Single(d).left = FALSE
  <1>1. <<d>> \in Seq(Detail)
    OBVIOUS
  <1> QED BY <1>1 DEF Fine, Single, Outcome

(* The first error of a run: its report covers it alone.                   *)
LEMMA OneCovers ==
  ASSUME NEW L \in Nat \ {0}, NEW d \in Detail
  PROVE  /\ One(d) \in Report
         /\ <<d>> \in Seq(Detail)
         /\ Covers(One(d), <<d>>, FALSE, L)
  <1>1. <<d>> \in Seq(Detail) /\ Len(<<d>>) = 1
    OBVIOUS
  <1>2. Take(<<d>>, L) = <<d>>
    <2>1. Len(<<d>>) <= L
      BY <1>1
    <2> QED BY <1>1, <2>1, TakeShort
  <1>3. One(d) \in Report
    BY <1>1 DEF One, Report
  <1>4. One(d).details = <<d>> /\ One(d).truncated = FALSE
    BY DEF One
  <1> QED BY <1>1, <1>2, <1>3, <1>4 DEF Covers

(* Before the first error the report has no details and no flag.           *)
LEMMA EmptyCovers ==
  ASSUME NEW L \in Nat \ {0}
  PROVE  Nothing \in Report /\ << >> \in Seq(Detail) /\ Covers(Nothing, << >>, FALSE, L)
  <1>1. << >> \in Seq(Detail) /\ Len(<< >>) = 0
    BY EmptySeq
  <1>2. Take(<< >>, L) = << >>
    <2>1. Len(<< >>) <= L
      BY <1>1
    <2> QED BY <1>1, <2>1, TakeShort
  <1>3. Nothing \in Report
    BY <1>1 DEF Nothing, Report
  <1> QED BY <1>1, <1>2, <1>3 DEF Covers, Nothing

(* A report without details covers only a run without errors.              *)
LEMMA NothingCovers ==
  ASSUME NEW L \in Nat \ {0}, NEW f \in Seq(Detail), NEW l \in BOOLEAN,
         NEW e \in Report, e.details = << >>, Covers(e, f, l, L)
  PROVE  f = << >> /\ l = FALSE /\ e = Nothing
  <1>1. Take(f, L) = << >>
    BY DEF Covers
  <1>2. Len(f) < L
    <2>1. Len(Take(f, L)) = 0
      BY <1>1
    <2> QED BY <2>1, TakeLong
  <1>3. Take(f, L) = f
    BY <1>2, TakeShort
  <1>4. l = FALSE /\ e.truncated = FALSE
    BY <1>2 DEF Covers, Report
  <1> QED BY <1>1, <1>3, <1>4 DEF Report, Nothing
=============================================================================
