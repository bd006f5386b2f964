------------------------------ MODULE ErrorReport ------------------------------
(***************************************************************************)
(* The value ValidationError of the core: a list of details and a flag     *)
(* saying that the list does not tell everything.  A detail is modelled by *)
(* its location (the path from the validated value down to the offending   *)
(* part) and its code; messages and contexts are left out.                 *)
(***************************************************************************)
EXTENDS Naturals, Sequences

CONSTANT Code    \* error codes

(* Location items; fields and branch labels are numbered as declared.      *)
Item == {"index", "key", "field", "branch"} \X Nat

Path == Seq(Item)

Detail == [location : Path, code : Code]
Report == [details : Seq(Detail), truncated : BOOLEAN]

(* Option<ValidationError>: None is the report without details. *)
Nothing == [details |-> << >>, truncated |-> FALSE]

(* Put a path in front of a detail's location.  at puts one item there;    *)
(* at_path puts several, the last one first.                               *)
Locate(path, detail) == [detail EXCEPT !.location = path \o @]

LocateAll(path, details) == [i \in 1 .. Len(details) |-> Locate(path, details[i])]

(* The first n elements of a sequence, or all of it when it is shorter. *)
Take(s, n) == SubSeq(s, 1, IF Len(s) < n THEN Len(s) ELSE n)

One(detail) == [details |-> <<detail>>, truncated |-> FALSE]

At(path, report) ==
  [details |-> LocateAll(path, report.details), truncated |-> report.truncated]

AppendCutSilently(target, other, limit) ==
  LET remaining == IF Len(target.details) < limit THEN limit - Len(target.details) ELSE 0
  IN  [details   |-> target.details \o Take(other.details, remaining),
       truncated |-> target.truncated \/ other.truncated]

(* saturating_sub, the drained prefix, and both ways of becoming truncated. *)
AppendReport(target, other, limit) ==
  LET remaining == IF Len(target.details) < limit THEN limit - Len(target.details) ELSE 0
  IN  [details   |-> target.details \o Take(other.details, remaining),
       truncated |-> \/ target.truncated
                     \/ Len(other.details) > remaining
                     \/ other.truncated]

IsFull(report, limit) == Len(report.details) >= limit

MarkTruncated(report) == [report EXCEPT !.truncated = TRUE]

CollectLast(target, report, limit) == report

CollectError(target, report, limit) ==
  IF target = Nothing THEN report ELSE AppendReport(target, report, limit)

(* A loop that finds its report full ends; it says so in the report when   *)
(* it leaves parts unvisited.                                              *)
StopSilently(errors, hasMore, limit) == errors

StopAfterErrorCap(errors, hasMore, limit) ==
  IF IsFull(errors, limit) /\ hasMore THEN MarkTruncated(errors) ELSE errors

-----------------------------------------------------------------------------
(* What validating one part gives: the errors it has, none when it is      *)
(* valid, and whether parts of it were left unvisited because of the cap.  *)
Outcome(limit) ==
  {o \in [found : Seq(Detail), left : BOOLEAN] : o.left => Len(o.found) >= limit}

Fine == [found |-> << >>, left |-> FALSE]

Single(detail) == [found |-> <<detail>>, left |-> FALSE]

IsFine(o) == o.found = << >>

(* The capped report the callee returns for an outcome that is an error.   *)
ReportOf(o, limit) ==
  [details |-> Take(o.found, limit), truncated |-> Len(o.found) > limit \/ o.left]

(* The match on the callee's result in every loop: an error is located     *)
(* under item and collected.                                               *)
Collect(errors, path, o, limit) ==
  IF IsFine(o) THEN errors ELSE CollectError(errors, At(path, ReportOf(o, limit)), limit)

(***************************************************************************)
(* What a caller may conclude from a report.  found is the sequence of     *)
(* errors that the visited parts have, without any cap; left says that     *)
(* some part was never visited.  The report is the longest prefix of found *)
(* the cap allows, and it is flagged exactly when it is not the whole      *)
(* story.                                                                  *)
(***************************************************************************)
Covers(report, found, left, limit) ==
  /\ report.details = Take(found, limit)
  /\ report.truncated <=> (Len(found) > limit \/ left)
  /\ left => Len(found) >= limit
=============================================================================
