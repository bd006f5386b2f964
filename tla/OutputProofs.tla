------------------------------- MODULE OutputProofs -------------------------------
(***************************************************************************)
(* Proofs about what leaves the library.                                   *)
(*                                                                         *)
(* StructuralConstruction: whatever a validation gives and however large   *)
(* it is, the rewriting in place leaves no value the runtime does not know *)
(* and no id outside of the arena, and every scalar that was validated is  *)
(* handed out once, as it was and as its node says.                        *)
(*                                                                         *)
(* JsonWriter: whatever events a foreign projection sends, a document is   *)
(* returned only if they are the projection of exactly one value.          *)
(***************************************************************************)
EXTENDS StructuralConstruction, JsonWriter, SequenceTheorems, WellFoundedInduction, TLAPS

(* Values that may be pushed to an arena of m values.                      *)
Known(value, m) ==
  /\ value \in Value
  /\ value.kind \notin Specialised
  /\ \A k \in DOMAIN value.ids : value.ids[k] \in 1 .. m

AllKnown(s, m) ==
  /\ s \in Seq(Value)
  /\ \A i \in 1 .. Len(s) : Known(s[i], m)

(* The slots from index on are as they were validated; all others, and all *)
(* pushed ones, are known.                                                 *)
Progress ==
  /\ validated \in Arenas
  /\ values \in Seq(Value)
  /\ index \in Nat \ {0}
  /\ Len(validated.values) <= Len(values)
  /\ \A i \in index .. Len(validated.values) : values[i] = validated.values[i]
  /\ stage \in {"prepared", "sealed"} => index > Len(validated.values)

IInv == Progress /\ Expanded

-----------------------------------------------------------------------------
(* Pieces of what is pushed. *)
LEMMA AtomKnown ==
  ASSUME NEW kind \in Text, kind \notin Specialised, NEW part \in Text, NEW m \in Nat
  PROVE  Known(Atom(kind, part), m)
<1>1. <<part>> \in Seq(Text) OBVIOUS
<1>2. << >> \in Seq(Text) /\ << >> \in Seq(Nat) /\ DOMAIN << >> = {}  OBVIOUS
<1> QED BY <1>1, <1>2 DEF Known, Atom, Value

LEMMA AtomsKnown ==
  ASSUME NEW kind \in Text, kind \notin Specialised, NEW parts \in Seq(Text), NEW m \in Nat
  PROVE  /\ AllKnown(Atoms(kind, parts), m)
         /\ Len(Atoms(kind, parts)) = Len(parts)
<1>1. \A i \in 1 .. Len(parts) : Known(Atom(kind, parts[i]), m)  BY AtomKnown, ElementOfSeq
<1>2. \A i \in 1 .. Len(parts) : Atom(kind, parts[i]) \in Value  BY <1>1 DEF Known
<1>3. DOMAIN parts = 1 .. Len(parts)  OBVIOUS
<1>4. Atoms(kind, parts) = [i \in 1 .. Len(parts) |-> Atom(kind, parts[i])]  BY <1>3 DEF Atoms
<1>5. Atoms(kind, parts) \in Seq(Value) /\ Len(Atoms(kind, parts)) = Len(parts)
  BY <1>2, <1>4
<1> QED BY <1>1, <1>4, <1>5 DEF AllKnown

LEMMA HolderKnown ==
  ASSUME NEW kind \in Text, kind \notin Specialised, NEW m \in Nat, NEW ids \in Seq(Nat),
         \A k \in DOMAIN ids : ids[k] \in 1 .. m
  PROVE  Known(Holder(kind, ids), m)
<1>1. << >> \in Seq(Text)  OBVIOUS
<1> QED BY <1>1 DEF Known, Holder, Value

LEMMA NumberedInside ==
  ASSUME NEW n \in Nat, NEW count \in Nat, NEW m \in Nat, n + count <= m,
         NEW ids, ids = Numbered(n, count)
  PROVE  /\ ids \in Seq(Nat)
         /\ Len(ids) = count
         /\ \A k \in DOMAIN ids : ids[k] \in 1 .. m
BY DEF Numbered

LEMMA FourInside ==
  ASSUME NEW n \in Nat, NEW m \in Nat, n + 4 <= m, NEW ids, ids = Numbered(n, 4)
  PROVE  /\ ids \in Seq(Nat)
         /\ Len(ids) = 4
         /\ \A k \in DOMAIN ids : ids[k] \in 1 .. m
BY DEF Numbered

LEMMA OneKnown ==
  ASSUME NEW value, NEW m \in Nat, Known(value, m)
  PROVE  AllKnown(<<value>>, m)
<1>1. <<value>> \in Seq(Value) /\ Len(<<value>>) = 1 /\ <<value>>[1] = value  BY DEF Known
<1> QED BY <1>1 DEF AllKnown

LEMMA ConcatKnown ==
  ASSUME NEW m \in Nat, NEW s, NEW t, AllKnown(s, m), AllKnown(t, m)
  PROVE  /\ AllKnown(s \o t, m)
         /\ Len(s \o t) = Len(s) + Len(t)
<1>1. s \in Seq(Value) /\ t \in Seq(Value)  BY DEF AllKnown
<1>2. /\ s \o t \in Seq(Value)
      /\ Len(s \o t) = Len(s) + Len(t)
      /\ \A i \in 1 .. Len(s) + Len(t) : (s \o t)[i] = IF i <= Len(s) THEN s[i] ELSE t[i - Len(s)]
  BY <1>1, ConcatProperties
<1>3. ASSUME NEW i \in 1 .. Len(s \o t) PROVE Known((s \o t)[i], m)
  <2>1. CASE i <= Len(s)  BY <1>1, <1>2, <2>1 DEF AllKnown
  <2>2. CASE i > Len(s)
    <3>1. i - Len(s) \in 1 .. Len(t)  BY <1>1, <1>2, <2>2
    <3> QED BY <1>1, <1>2, <2>2, <3>1 DEF AllKnown
  <2> QED BY <1>1, <2>1, <2>2
<1> QED BY <1>2, <1>3 DEF AllKnown

LEMMA PiecesKnown ==
  ASSUME NEW m \in Nat, NEW a, NEW b, NEW c, NEW d,
         AllKnown(a, m), AllKnown(b, m), AllKnown(c, m), AllKnown(d, m)
  PROVE  /\ AllKnown(a \o b \o c \o d, m)
         /\ Len(a \o b \o c \o d) = Len(a) + Len(b) + Len(c) + Len(d)
<1>1. AllKnown(a \o b, m) /\ Len(a \o b) = Len(a) + Len(b)  BY ConcatKnown
<1>2. AllKnown(a \o b \o c, m) /\ Len(a \o b \o c) = Len(a) + Len(b) + Len(c)
  <2> DEFINE ab == a \o b
  <2>1. AllKnown(ab, m)  BY <1>1
  <2> HIDE DEF ab
  <2>2. AllKnown(ab \o c, m) /\ Len(ab \o c) = Len(ab) + Len(c)  BY <2>1, ConcatKnown
  <2> QED BY <1>1, <2>2 DEF ab
<1> DEFINE abc == a \o b \o c
<1>3. AllKnown(abc, m)  BY <1>2
<1> HIDE DEF abc
<1>4. AllKnown(abc \o d, m) /\ Len(abc \o d) = Len(abc) + Len(d)  BY <1>3, ConcatKnown
<1> QED BY <1>2, <1>4 DEF abc

-----------------------------------------------------------------------------
(* A replacement and what it pushes to an arena of n values. *)
Fits(new, n) ==
  /\ AllKnown(new.pushed, n + Len(new.pushed))
  /\ Known(new.value, n + Len(new.pushed))

(* The kinds and names the rewriting writes. *)
LEMMA Written ==
  /\ "model" \in Text /\ "tuple" \in Text /\ "nullable" \in Text /\ "set" \in Text
  /\ "string" \in Text /\ "fixed_int" \in Text /\ "exact_int" \in Text /\ "float" \in Text
  /\ "bool" \in Text /\ "none" \in Text
  /\ "value" \in Text /\ "source" \in Text /\ "flags" \in Text /\ "_values" \in Text
  /\ "model" \notin Specialised /\ "tuple" \notin Specialised /\ "nullable" \notin Specialised
  /\ "set" \notin Specialised /\ "string" \notin Specialised /\ "fixed_int" \notin Specialised
  /\ "exact_int" \notin Specialised /\ "float" \notin Specialised /\ "bool" \notin Specialised
  /\ "none" \notin Specialised
<1>1. /\ "model" \in Text /\ "tuple" \in Text /\ "nullable" \in Text /\ "set" \in Text
      /\ "string" \in Text /\ "fixed_int" \in Text /\ "exact_int" \in Text /\ "float" \in Text
      /\ "bool" \in Text /\ "none" \in Text
      /\ "value" \in Text /\ "source" \in Text /\ "flags" \in Text /\ "_values" \in Text
  BY TextAssumption
<1>2. /\ "model" \notin Specialised /\ "tuple" \notin Specialised /\ "nullable" \notin Specialised
      /\ "set" \notin Specialised /\ "string" \notin Specialised /\ "fixed_int" \notin Specialised
      /\ "exact_int" \notin Specialised /\ "float" \notin Specialised /\ "bool" \notin Specialised
      /\ "none" \notin Specialised
  BY DEF Specialised, Texts
<1> QED BY <1>1, <1>2

LEMMA AsTupleFits ==
  ASSUME NEW kind \in Text, kind \notin Specialised, NEW parts \in Seq(Text), NEW n \in Nat
  PROVE  Fits(AsTuple(kind, parts, n), n)
<1> DEFINE pushed == Atoms(kind, parts)
<1> DEFINE ids == Numbered(n, Len(parts))
<1>1. Len(parts) \in Nat  OBVIOUS
<1>2. AllKnown(pushed, n + Len(parts)) /\ Len(pushed) = Len(parts)
  BY <1>1, AtomsKnown
<1>3. /\ ids \in Seq(Nat)
      /\ \A k \in DOMAIN ids : ids[k] \in 1 .. n + Len(parts)
  <2>1. n + Len(parts) \in Nat /\ ids = Numbered(n, Len(parts))  BY <1>1
  <2> HIDE DEF ids
  <2> QED BY <1>1, <2>1, NumberedInside
<1>4. "tuple" \in Text /\ "tuple" \notin Specialised  BY Written
<1>5. Known(Holder("tuple", ids), n + Len(parts))
  BY <1>1, <1>3, <1>4, HolderKnown
<1>6. AsTuple(kind, parts, n) = [value |-> Holder("tuple", ids), pushed |-> pushed]
  BY Zenon DEF AsTuple, Becomes, Tuple
<1> HIDE DEF pushed, ids
<1> QED BY <1>2, <1>5, <1>6 DEF Fits

LEMMA TimeTupleFits ==
  ASSUME NEW parts \in Seq(Text), Len(parts) \in 4 .. 5, NEW n \in Nat
  PROVE  Fits(TimeTuple(parts, n), n)
<1> DEFINE clock == SubSeq(parts, 1, 4)
<1> DEFINE zone == <<Atom("fixed_int", parts[5]), Holder("nullable", <<n + 1>>)>>
<1> DEFINE offset == IF Len(parts) = 5 THEN zone ELSE <<Holder("nullable", << >>)>>
<1> DEFINE last == n + Len(offset)
<1> DEFINE ids == Numbered(last, 4) \o <<last>>
<1> DEFINE pushed == offset \o Atoms("fixed_int", clock)
<1> DEFINE m == last + 4
<1>1. /\ "fixed_int" \in Text /\ "fixed_int" \notin Specialised
      /\ "nullable" \in Text /\ "nullable" \notin Specialised
      /\ "tuple" \in Text /\ "tuple" \notin Specialised
  BY Written
<1>2. Len(offset) \in 1 .. 2
  OBVIOUS
<1>3. last \in Nat /\ m \in Nat /\ n + 1 \in 1 .. m /\ last \in 1 .. m
  BY <1>2
<1>4. AllKnown(offset, m)
  <2>1. CASE Len(parts) = 5
    <3>1. parts[5] \in Text
      <4>1. 5 \in 1 .. Len(parts)  BY <2>1
      <4> QED BY <4>1, ElementOfSeq
    <3>2. Known(Atom("fixed_int", parts[5]), m)  BY <1>1, <1>3, <3>1, AtomKnown
    <3>3. <<n + 1>> \in Seq(Nat) /\ \A k \in DOMAIN <<n + 1>> : <<n + 1>>[k] \in 1 .. m
      BY <1>3
    <3>4. Known(Holder("nullable", <<n + 1>>), m)  BY <1>1, <1>3, <3>3, HolderKnown
    <3> DEFINE first == Atom("fixed_int", parts[5])
    <3> DEFINE second == Holder("nullable", <<n + 1>>)
    <3>5. offset = <<first, second>>  BY <2>1
    <3>6. Known(first, m) /\ Known(second, m)  BY <3>2, <3>4
    <3> HIDE DEF first, second, offset, m
    <3>7. first \in Value /\ second \in Value  BY <3>6 DEF Known
    <3>8. <<first, second>> \in Seq(Value)  BY <3>7
    <3> QED BY <3>5, <3>6, <3>8 DEF AllKnown
  <2>2. CASE Len(parts) # 5
    <3>1. << >> \in Seq(Nat) /\ \A k \in DOMAIN << >> : << >>[k] \in 1 .. m  OBVIOUS
    <3>2. Known(Holder("nullable", << >>), m)  BY <1>1, <1>3, <3>1, HolderKnown
    <3>3. offset = <<Holder("nullable", << >>)>>  BY <2>2
    <3> HIDE DEF m, offset
    <3> QED BY <1>3, <3>2, <3>3, OneKnown
  <2> QED BY <2>1, <2>2
<1>5. clock \in Seq(Text) /\ Len(clock) = 4
  BY SubSeqProperties, SMTT(30)
<1>6. AllKnown(Atoms("fixed_int", clock), m) /\ Len(Atoms("fixed_int", clock)) = 4
  <2> HIDE DEF clock, m
  <2> QED BY <1>1, <1>3, <1>5, AtomsKnown
<1>7. AllKnown(pushed, m) /\ n + Len(pushed) = m
  <2> DEFINE atoms == Atoms("fixed_int", clock)
  <2>1. Len(offset \o atoms) = Len(offset) + Len(atoms) /\ AllKnown(offset \o atoms, m)
    <3> HIDE DEF offset, atoms, m
    <3> QED BY <1>3, <1>4, <1>6, ConcatKnown DEF atoms
  <2>2. Len(pushed) = Len(offset) + 4  BY <1>6, <2>1
  <2> HIDE DEF offset
  <2> QED BY <1>2, <2>1, <2>2
<1>8. ids \in Seq(Nat) /\ \A k \in DOMAIN ids : ids[k] \in 1 .. m
  <2> DEFINE clocks == Numbered(last, 4)
  <2>1. clocks \in Seq(Nat) /\ Len(clocks) = 4 /\ \A k \in DOMAIN clocks : clocks[k] \in 1 .. m
    <3>1. clocks = Numbered(last, 4) /\ last + 4 <= m  BY <1>3
    <3> HIDE DEF clocks, last, m
    <3>2. last \in Nat /\ m \in Nat  BY <1>3
    <3> QED BY <3>1, <3>2, FourInside
  <2>2. <<last>> \in Seq(Nat) /\ Len(<<last>>) = 1 /\ <<last>>[1] = last
    <3> HIDE DEF last
    <3> QED BY <1>3
  <2> HIDE DEF clocks, last, m
  <2>3. /\ clocks \o <<last>> \in Seq(Nat)
        /\ Len(clocks \o <<last>>) = 5
        /\ \A k \in 1 .. 5 : (clocks \o <<last>>)[k] = IF k <= 4 THEN clocks[k] ELSE <<last>>[k - 4]
    <3> DEFINE rest == <<last>>
    <3>1. rest \in Seq(Nat) /\ Len(rest) = 1  BY <2>2
    <3> HIDE DEF rest
    <3>2. /\ clocks \o rest \in Seq(Nat)
          /\ Len(clocks \o rest) = 5
          /\ \A k \in 1 .. 5 : (clocks \o rest)[k] = IF k <= 4 THEN clocks[k] ELSE rest[k - 4]
      <4>1. clocks \in Seq(Nat) /\ Len(clocks) = 4  BY <2>1
      <4>2. /\ clocks \o rest \in Seq(Nat)
            /\ Len(clocks \o rest) = Len(clocks) + Len(rest)
            /\ \A k \in 1 .. Len(clocks) + Len(rest) :
                 (clocks \o rest)[k] = IF k <= Len(clocks) THEN clocks[k] ELSE rest[k - Len(clocks)]
        BY <3>1, <4>1, ConcatProperties
      <4>3. Len(clocks) + Len(rest) = 5 /\ \A k \in 1 .. 5 : k - Len(clocks) = k - 4
        BY <3>1, <4>1
      <4> QED BY <4>1, <4>2, <4>3
    <3> QED BY <3>2 DEF rest
  <2>4. \A k \in 1 .. 5 : (clocks \o <<last>>)[k] \in 1 .. m
    BY <1>3, <2>1, <2>2, <2>3
  <2>5. ids = clocks \o <<last>>  BY DEF clocks
  <2>6. DOMAIN ids = 1 .. 5
    <3>1. ids \in Seq(Nat) /\ Len(ids) = 5  BY Zenon, <2>3, <2>5
    <3> HIDE DEF ids
    <3> QED BY <3>1
  <2> HIDE DEF ids
  <2> QED BY <2>3, <2>4, <2>5, <2>6
<1>9. Known(Holder("tuple", ids), m)
  <2> HIDE DEF ids, m
  <2> QED BY <1>1, <1>3, <1>8, HolderKnown
<1>10. TimeTuple(parts, n) = [value |-> Holder("tuple", ids), pushed |-> pushed]
  BY Zenon DEF TimeTuple, Becomes, Tuple
<1> HIDE DEF pushed, ids, m
<1> QED BY <1>7, <1>9, <1>10 DEF Fits

LEMMA KnownInMore ==
  ASSUME NEW n \in Nat, NEW m \in Nat, n <= m
  PROVE  /\ \A value : Known(value, n) => Known(value, m)
         /\ \A s : AllKnown(s, n) => AllKnown(s, m)
<1>1. 1 .. n \subseteq 1 .. m  OBVIOUS
<1>2. ASSUME NEW value, Known(value, n) PROVE Known(value, m)
  BY <1>1, <1>2 DEF Known
<1>3. ASSUME NEW s, AllKnown(s, n) PROVE AllKnown(s, m)
  BY <1>2, <1>3 DEF AllKnown
<1> QED BY <1>2, <1>3

LEMMA TimeOfDateTime ==
  ASSUME NEW parts \in Seq(Text), Len(parts) \in 7 .. 8, NEW rest, rest = SubSeq(parts, 4, Len(parts))
  PROVE  rest \in Seq(Text) /\ Len(rest) \in 4 .. 5
<1> DEFINE length == Len(parts)
<1>1. length \in 7 .. 8 /\ length \in Int /\ 4 \in Int  OBVIOUS
<1>2. \A i \in 4 .. length : parts[i] \in Text
  <2>1. \A i \in 4 .. length : i \in 1 .. Len(parts)  OBVIOUS
  <2> QED BY <2>1, ElementOfSeq
<1>3. rest = SubSeq(parts, 4, length)  OBVIOUS
<1> HIDE DEF length
<1>4. rest \in Seq(Text) /\ Len(rest) = IF 4 <= length THEN length - 4 + 1 ELSE 0
  <2>1. SubSeq(parts, 4, length) \in Seq(Text)
        /\ Len(SubSeq(parts, 4, length)) = IF 4 <= length THEN length - 4 + 1 ELSE 0
    BY <1>1, <1>2, SubSeqProperties, SMTT(30)
  <2> QED BY <1>3, <2>1
<1> QED BY <1>1, <1>4

LEMMA DateTimeTupleFits ==
  ASSUME NEW parts \in Seq(Text), Len(parts) \in 7 .. 8, NEW n \in Nat
  PROVE  Fits(DateTimeTuple(parts, n), n)
<1> DEFINE rest == SubSeq(parts, 4, Len(parts))
<1> DEFINE time == TimeTuple(rest, n + 4)
<1> DEFINE date == Atoms("fixed_int", SubSeq(parts, 1, 3))
<1> DEFINE day == Tuple(Numbered(n, 3))
<1> DEFINE count == Len(time.pushed)
<1> DEFINE m == n + 5 + count
<1> DEFINE ids == <<n + 4, n + 5 + count>>
<1> DEFINE pushed == date \o <<day>> \o time.pushed \o <<time.value>>
<1>1. /\ "fixed_int" \in Text /\ "fixed_int" \notin Specialised
      /\ "tuple" \in Text /\ "tuple" \notin Specialised
  BY Written
<1>2. Fits(time, n + 4)
  <2>1. rest = SubSeq(parts, 4, Len(parts))  OBVIOUS
  <2> HIDE DEF rest
  <2>2. rest \in Seq(Text) /\ Len(rest) \in 4 .. 5  BY <2>1, TimeOfDateTime
  <2>3. n + 4 \in Nat  OBVIOUS
  <2> QED BY <2>2, <2>3, TimeTupleFits
<1>3. count \in Nat /\ m \in Nat /\ n + 4 + count \in Nat /\ n + 4 + count <= m
  <2> HIDE DEF time
  <2>1. time.pushed \in Seq(Value)  BY <1>2 DEF Fits, AllKnown
  <2>2. count \in Nat  BY <2>1, LenProperties
  <2> HIDE DEF count
  <2> QED BY <2>2
<1>4. AllKnown(time.pushed, m) /\ Known(time.value, m)
  <2>1. AllKnown(time.pushed, n + 4 + count) /\ Known(time.value, n + 4 + count)
    <3> HIDE DEF time
    <3> QED BY <1>2 DEF Fits
  <2> HIDE DEF time, count, m
  <2> QED BY <1>3, <2>1, KnownInMore
<1>5. AllKnown(date, m) /\ Len(date) = 3
  <2> DEFINE day3 == SubSeq(parts, 1, 3)
  <2>1. day3 \in Seq(Text) /\ Len(day3) = 3  BY SubSeqProperties, SMTT(30)
  <2> HIDE DEF day3, m
  <2>2. AllKnown(Atoms("fixed_int", day3), m) /\ Len(Atoms("fixed_int", day3)) = 3
    BY <1>1, <1>3, <2>1, AtomsKnown
  <2> QED BY <2>2 DEF day3
<1>6. AllKnown(<<day>>, m)
  <2> DEFINE three == Numbered(n, 3)
  <2>1. three \in Seq(Nat) /\ \A k \in DOMAIN three : three[k] \in 1 .. m
    <3> HIDE DEF count
    <3> QED BY <1>3 DEF Numbered
  <2> HIDE DEF three, m
  <2>2. Known(Holder("tuple", three), m)  BY <1>1, <1>3, <2>1, HolderKnown
  <2>3. day = Holder("tuple", three)  BY DEF Tuple, three
  <2> HIDE DEF day
  <2> QED BY <1>3, <2>2, <2>3, OneKnown
<1>7. AllKnown(<<time.value>>, m)
  <2> HIDE DEF time, m
  <2> QED BY <1>3, <1>4, OneKnown
<1>8. AllKnown(pushed, m) /\ n + Len(pushed) = m
  <2> DEFINE a == <<day>>
  <2> DEFINE b == time.pushed
  <2> DEFINE c == <<time.value>>
  <2>1. AllKnown(a, m) /\ AllKnown(b, m) /\ AllKnown(c, m)  BY <1>4, <1>6, <1>7
  <2>2. Len(a) = 1 /\ Len(b) = count /\ Len(c) = 1  OBVIOUS
  <2>3. pushed = date \o a \o b \o c  OBVIOUS
  <2>4. ASSUME NEW s, s = date, NEW t, t = a, NEW u, u = b, NEW v, v = c
        PROVE  AllKnown(s \o t \o u \o v, m) /\ Len(s \o t \o u \o v) = 4 + count + 1
    <3>1. AllKnown(s, m) /\ Len(s) = 3 /\ AllKnown(t, m) /\ AllKnown(u, m) /\ AllKnown(v, m)
          /\ Len(t) = 1 /\ Len(u) = count /\ Len(v) = 1
      <4> HIDE DEF a, b, c, date, m, count
      <4> QED BY <1>5, <2>1, <2>2, <2>4
    <3> HIDE DEF m, count
    <3>2. AllKnown(s \o t \o u \o v, m)
          /\ Len(s \o t \o u \o v) = Len(s) + Len(t) + Len(u) + Len(v)
      <4>1. m \in Nat  BY <1>3
      <4>2. AllKnown(s, m) /\ AllKnown(t, m) /\ AllKnown(u, m) /\ AllKnown(v, m)  BY <3>1
      <4> HIDE DEF a, b, c, date, pushed, time, day, ids, rest
      <4> QED BY <4>1, <4>2, PiecesKnown
    <3> QED BY <1>3, <3>1, <3>2
  <2> HIDE DEF a, b, c, date, m, count, pushed
  <2>5. AllKnown(pushed, m) /\ Len(pushed) = 4 + count + 1  BY <2>3, <2>4
  <2> QED BY <1>3, <2>5 DEF m
<1>9. Known(Holder("tuple", ids), m)
  <2>1. ids \in Seq(Nat) /\ \A k \in DOMAIN ids : ids[k] \in 1 .. m
    <3> HIDE DEF count
    <3> QED BY <1>3
  <2> HIDE DEF ids, m
  <2> QED BY <1>1, <1>3, <2>1, HolderKnown
<1>10. DateTimeTuple(parts, n) = [value |-> Holder("tuple", ids), pushed |-> pushed]
  BY Zenon DEF DateTimeTuple, Becomes, Tuple
<1> HIDE DEF pushed, ids, m
<1> QED BY <1>8, <1>9, <1>10 DEF Fits

-----------------------------------------------------------------------------
LEMMA BecomesFits ==
  ASSUME NEW n, NEW m, NEW value, NEW pushed, m = n + Len(pushed),
         AllKnown(pushed, m), Known(value, m)
  PROVE  Fits(Becomes(value, pushed), n)
<1> DEFINE new == Becomes(value, pushed)
<1>1. new.value = value /\ new.pushed = pushed  BY DEF Becomes
<1> HIDE DEF new
<1>2. Fits(new, n)  BY <1>1 DEF Fits
<1> QED BY <1>2 DEF new

(* One value that is pushed, and a model of it. *)
LEMMA WrapperFits ==
  ASSUME NEW name \in Text, NEW field \in Text, NEW n \in Nat, NEW held, Known(held, n + 1)
  PROVE  Fits(Becomes(Model(name, <<field>>, <<n + 1>>), <<held>>), n)
<1> DEFINE pushed == <<held>>
<1> DEFINE model == Model(name, <<field>>, <<n + 1>>)
<1>1. AllKnown(pushed, n + 1) /\ Len(pushed) = 1
  <2>1. n + 1 \in Nat  OBVIOUS
  <2> QED BY <2>1, OneKnown
<1>2. "model" \in Text /\ "model" \notin Specialised  BY Written
<1>3. <<name>> \in Seq(Text) /\ <<field>> \in Seq(Text) /\ <<n + 1>> \in Seq(Nat)
      /\ \A k \in DOMAIN <<n + 1>> : <<n + 1>>[k] \in 1 .. n + 1
  OBVIOUS
<1>4. Known(model, n + 1)  BY <1>2, <1>3 DEF Known, Model, Value
<1> HIDE DEF model, pushed
<1>5. n + 1 = n + Len(pushed)  BY <1>1
<1>6. Fits(Becomes(model, pushed), n)  BY <1>1, <1>4, <1>5, BecomesFits
<1> QED BY <1>6 DEF model, pushed

LEMMA PatternFits ==
  ASSUME NEW parts \in Seq(Text), Len(parts) = 2, NEW n \in Nat
  PROVE  Fits(Becomes(Model("pattern", <<"source", "flags">>, Numbered(n, 2)),
                      <<Atom("string", parts[1]), Atom("fixed_int", parts[2])>>), n)
<1> DEFINE first == Atom("string", parts[1])
<1> DEFINE second == Atom("fixed_int", parts[2])
<1> DEFINE pushed == <<first, second>>
<1> DEFINE ids == Numbered(n, 2)
<1> DEFINE names == <<"source", "flags">>
<1> DEFINE model == Model("pattern", names, ids)
<1>1. /\ "string" \in Text /\ "string" \notin Specialised
      /\ "fixed_int" \in Text /\ "fixed_int" \notin Specialised
      /\ "model" \in Text /\ "model" \notin Specialised
      /\ "source" \in Text /\ "flags" \in Text
  BY Written
<1>2. "pattern" \in Text  BY TextAssumption
<1>3. parts[1] \in Text /\ parts[2] \in Text /\ n + 2 \in Nat
  <2>1. 1 \in 1 .. Len(parts) /\ 2 \in 1 .. Len(parts)  OBVIOUS
  <2>2. parts[1] \in Text
    <3> HIDE DEF pushed, ids, names, model
    <3> QED BY <2>1, ElementOfSeq
  <2>3. parts[2] \in Text
    <3> HIDE DEF pushed, ids, names, model
    <3> QED BY <2>1, ElementOfSeq
  <2> QED BY <2>2, <2>3
<1>4. Known(first, n + 2) /\ Known(second, n + 2)  BY <1>1, <1>3, AtomKnown
<1>5. AllKnown(pushed, n + 2) /\ Len(pushed) = 2
  <2> HIDE DEF first, second
  <2>1. first \in Value /\ second \in Value  BY <1>4 DEF Known
  <2>2. pushed \in Seq(Value) /\ Len(pushed) = 2 /\ pushed[1] = first /\ pushed[2] = second
    BY <2>1
  <2> HIDE DEF pushed
  <2> QED BY <1>4, <2>2 DEF AllKnown
<1>6. ids \in Seq(Nat) /\ \A k \in DOMAIN ids : ids[k] \in 1 .. n + 2
  BY DEF Numbered
<1>7. names \in Seq(Text) /\ <<"pattern">> \in Seq(Text)  BY <1>1, <1>2
<1>8. Known(model, n + 2)
  <2> HIDE DEF ids, names
  <2> QED BY <1>1, <1>6, <1>7 DEF Known, Model, Value
<1>9. Fits(Becomes(model, pushed), n)
  <2>1. AllKnown(pushed, n + 2) /\ Len(pushed) = 2 /\ Known(model, n + 2)  BY <1>5, <1>8
  <2> HIDE DEF first, second, ids, names, model, pushed
  <2>2. n + 2 = n + Len(pushed)  BY <2>1
  <2> QED BY <2>1, <2>2, BecomesFits
<1> QED BY <1>9

LEMMA DurationFits ==
  ASSUME NEW parts \in Seq(Text), Len(parts) = 4, NEW n \in Nat
  PROVE  Fits(Becomes(Tuple(Numbered(n, 4)),
                      <<Atom("bool", parts[1])>> \o Atoms("fixed_int", Tail(parts))), n)
<1> DEFINE sign == <<Atom("bool", parts[1])>>
<1> DEFINE others == Tail(parts)
<1> DEFINE rest == Atoms("fixed_int", others)
<1> DEFINE ids == Numbered(n, 4)
<1>1. /\ "bool" \in Text /\ "bool" \notin Specialised
      /\ "fixed_int" \in Text /\ "fixed_int" \notin Specialised
      /\ "tuple" \in Text /\ "tuple" \notin Specialised
  BY Written
<1>2. parts[1] \in Text /\ n + 4 \in Nat  OBVIOUS
<1>3. Known(Atom("bool", parts[1]), n + 4)  BY <1>1, <1>2, AtomKnown
<1>4. AllKnown(sign, n + 4) /\ Len(sign) = 1  BY <1>2, <1>3, OneKnown
<1>5. others \in Seq(Text) /\ Len(others) = 3  OBVIOUS
<1>6. AllKnown(rest, n + 4) /\ Len(rest) = 3
  <2> HIDE DEF others
  <2> QED BY <1>1, <1>2, <1>5, AtomsKnown
<1>7. AllKnown(sign \o rest, n + 4) /\ Len(sign \o rest) = 4
  <2> HIDE DEF sign, rest
  <2>1. AllKnown(sign \o rest, n + 4) /\ Len(sign \o rest) = Len(sign) + Len(rest)
    BY <1>2, <1>4, <1>6, ConcatKnown
  <2> QED BY <1>4, <1>6, <2>1
<1>8. ids \in Seq(Nat) /\ \A k \in DOMAIN ids : ids[k] \in 1 .. n + 4
  BY DEF Numbered
<1>9. Known(Holder("tuple", ids), n + 4)
  <2> HIDE DEF ids
  <2> QED BY <1>1, <1>2, <1>8, HolderKnown
<1> DEFINE pushed == sign \o rest
<1> DEFINE tuple == Holder("tuple", ids)
<1>10. Fits(Becomes(tuple, pushed), n)
  <2> HIDE DEF sign, rest, ids
  <2>1. AllKnown(pushed, n + 4) /\ Len(pushed) = 4 /\ Known(tuple, n + 4)  BY <1>7, <1>9
  <2> HIDE DEF tuple, pushed
  <2>2. n + 4 = n + Len(pushed)  BY <2>1
  <2> QED BY <2>1, <2>2, BecomesFits
<1> QED BY <1>10 DEF Tuple

(* Whatever a slot holds, it becomes a value the runtime knows, and so is  *)
(* all that is pushed.                                                     *)
LEMMA ReplacementFits ==
  ASSUME NEW value \in Value, WellFormed(value), NEW n \in Nat,
         \A k \in DOMAIN value.ids : value.ids[k] \in 1 .. n
  PROVE  Fits(Replacement(value, n), n)
<1> DEFINE parts == value.parts
<1>1. value.kind \in Text /\ parts \in Seq(Text) /\ value.ids \in Seq(Nat)  BY DEF Value
<1>2. /\ "string" \in Text /\ "string" \notin Specialised
      /\ "fixed_int" \in Text /\ "fixed_int" \notin Specialised
      /\ "exact_int" \in Text /\ "exact_int" \notin Specialised
      /\ "float" \in Text /\ "float" \notin Specialised
      /\ "set" \in Text /\ "set" \notin Specialised
      /\ "value" \in Text /\ "_values" \in Text
  BY Written
<1>3. CASE value.kind \in Texts
  <2>1. Len(parts) = 1  BY <1>3 DEF WellFormed
  <2> DEFINE held == Atom("string", parts[1])
  <2>2. parts[1] \in Text /\ n + 1 \in Nat  BY <1>1, <2>1
  <2>3. Known(held, n + 1)  BY <1>2, <2>2, AtomKnown
  <2>4. Atoms("string", parts) = <<held>>
    BY <1>1, <2>1 DEF Atoms
  <2>5. Replacement(value, n) = Becomes(Model(value.kind, <<"value">>, <<n + 1>>), Atoms("string", parts))
    <3>1. value.kind = "url" \/ value.kind = "multi_host_url"  BY <1>3 DEF Texts
    <3> QED BY <3>1 DEF Replacement, Texts
  <2> HIDE DEF held
  <2>6. Fits(Becomes(Model(value.kind, <<"value">>, <<n + 1>>), <<held>>), n)
    BY <1>1, <1>2, <2>3, WrapperFits
  <2> QED BY <2>4, <2>5, <2>6
<1>4. CASE value.kind = "pattern"
  <2>1. Len(parts) = 2  BY <1>4 DEF WellFormed
  <2>2. Replacement(value, n)
          = Becomes(Model("pattern", <<"source", "flags">>, Numbered(n, 2)),
                    <<Atom("string", parts[1]), Atom("fixed_int", parts[2])>>)
    BY <1>4 DEF Replacement, Texts
  <2> QED BY <1>1, <2>1, <2>2, PatternFits
<1>5. CASE value.kind = "fraction"
  <2>1. Replacement(value, n) = AsTuple("exact_int", parts, n)  BY <1>5 DEF Replacement, Texts
  <2> QED BY <1>1, <1>2, <2>1, AsTupleFits
<1>6. CASE value.kind = "complex"
  <2>1. Replacement(value, n) = AsTuple("float", parts, n)  BY <1>6 DEF Replacement, Texts
  <2> QED BY <1>1, <1>2, <2>1, AsTupleFits
<1>7. CASE value.kind = "date"
  <2>1. Replacement(value, n) = AsTuple("fixed_int", parts, n)  BY <1>7 DEF Replacement, Texts
  <2> QED BY <1>1, <1>2, <2>1, AsTupleFits
<1>8. CASE value.kind = "time"
  <2>1. Len(parts) \in 4 .. 5  BY <1>8 DEF WellFormed
  <2>2. Replacement(value, n) = TimeTuple(parts, n)  BY <1>8 DEF Replacement, Texts
  <2> QED BY <1>1, <2>1, <2>2, TimeTupleFits
<1>9. CASE value.kind = "datetime"
  <2>1. Len(parts) \in 7 .. 8  BY <1>9 DEF WellFormed
  <2>2. Replacement(value, n) = DateTimeTuple(parts, n)  BY <1>9 DEF Replacement, Texts
  <2> QED BY <1>1, <2>1, <2>2, DateTimeTupleFits
<1>10. CASE value.kind = "duration"
  <2>1. Len(parts) = 4  BY <1>10 DEF WellFormed
  <2>2. Replacement(value, n)
          = Becomes(Tuple(Numbered(n, 4)),
                    <<Atom("bool", parts[1])>> \o Atoms("fixed_int", Tail(parts)))
    BY <1>10 DEF Replacement, Texts
  <2> QED BY <1>1, <2>1, <2>2, DurationFits
<1>11. CASE value.kind = "frozenset"
  <2> DEFINE held == Holder("set", value.ids)
  <2>1. n + 1 \in Nat /\ \A k \in DOMAIN value.ids : value.ids[k] \in 1 .. n + 1  OBVIOUS
  <2>2. Known(held, n + 1)  BY <1>1, <1>2, <2>1, HolderKnown
  <2>3. Replacement(value, n) = Becomes(Model("frozenset", <<"_values">>, <<n + 1>>), <<held>>)
    BY <1>11 DEF Replacement, Texts
  <2>4. "frozenset" \in Text  BY TextAssumption
  <2> HIDE DEF held
  <2> QED BY <1>2, <2>2, <2>3, <2>4, WrapperFits
<1>12. CASE value.kind \notin Specialised
  <2>1. Replacement(value, n) = Becomes(value, << >>)
    BY <1>12 DEF Replacement, Specialised, Texts
  <2>2. AllKnown(<< >>, n) /\ Len(<< >>) = 0  BY DEF AllKnown
  <2>3. Known(value, n)  BY <1>12 DEF Known
  <2>4. Becomes(value, << >>) = [value |-> value, pushed |-> << >>]  BY Zenon DEF Becomes
  <2> QED BY <2>1, <2>2, <2>3, <2>4 DEF Fits
<1> QED BY <1>3, <1>4, <1>5, <1>6, <1>7, <1>8, <1>9, <1>10, <1>11, <1>12 DEF Specialised

-----------------------------------------------------------------------------
LEMMA ArenaValues ==
  ASSUME NEW arena \in Arenas
  PROVE  /\ arena.values \in Seq(Value)
         /\ \A i \in 1 .. Len(arena.values) :
              /\ WellFormed(arena.values[i])
              /\ \A k \in DOMAIN arena.values[i].ids : arena.values[i].ids[k] \in DOMAIN arena.values
<1>1. arena.values \in Seq(Value)  BY ArenasAssumption
<1>2. DOMAIN arena.values = 1 .. Len(arena.values)  BY <1>1
<1> QED BY <1>1, <1>2, ArenasAssumption

LEMMA InitEstablishes == ConstructionInit => IInv
<1> SUFFICES ASSUME ConstructionInit PROVE IInv  OBVIOUS
<1>1. validated \in Arenas /\ values = validated.values /\ index = 1 /\ stage = "validated"
  BY DEF ConstructionInit
<1>2. values \in Seq(Value)  BY <1>1, ArenaValues
<1>3. Progress  BY <1>1, <1>2 DEF Progress
<1>4. ASSUME NEW i \in DOMAIN values, i < index \/ i > Len(validated.values)
      PROVE  values[i].kind \notin Specialised
  <2>1. i \in 1 .. Len(values)  BY <1>2
  <2>2. i < 1 \/ i > Len(values)  BY <1>1, <1>4
  <2> QED BY <1>2, <2>1, <2>2
<1>5. \A i \in DOMAIN values : \A k \in DOMAIN values[i].ids : values[i].ids[k] \in DOMAIN values
  BY <1>1, ArenasAssumption
<1> QED BY <1>3, <1>4, <1>5 DEF IInv, Expanded

LEMMA ExpandSlotPreserves == IInv /\ ExpandSlot => IInv'
<1> SUFFICES ASSUME IInv, ExpandSlot PROVE IInv'  OBVIOUS
<1> DEFINE n == Len(values)
<1> DEFINE new == Replacement(values[index], n)
<1> DEFINE slots == Len(validated.values)
<1>1. /\ validated \in Arenas /\ values \in Seq(Value) /\ index \in Nat \ {0} /\ slots <= n
      /\ \A i \in index .. slots : values[i] = validated.values[i]
  BY DEF IInv, Progress
<1>2. /\ stage = "expanding" /\ index <= slots
      /\ values' = [values EXCEPT ![index] = new.value] \o new.pushed
      /\ index' = index + 1 /\ stage' = stage /\ validated' = validated
  BY DEF ExpandSlot
<1>3. slots \in Nat /\ n \in Nat /\ index \in 1 .. slots /\ index \in 1 .. n
  <2>1. slots \in Nat  BY <1>1, ArenaValues
  <2> QED BY <1>1, <1>2, <2>1
<1>4. /\ values[index] \in Value /\ WellFormed(values[index])
      /\ \A k \in DOMAIN values[index].ids : values[index].ids[k] \in 1 .. n
  <2>1. values[index] = validated.values[index]  BY <1>1, <1>3
  <2>2. WellFormed(values[index])  BY <1>1, <1>3, <2>1, ArenaValues
  <2>3. values[index] \in Value /\ DOMAIN values = 1 .. n  BY <1>1, <1>3
  <2> QED BY <1>3, <2>2, <2>3 DEF IInv, Expanded
<1>5. Fits(new, n)  BY <1>3, <1>4, ReplacementFits
<1>6. /\ values' \in Seq(Value)
      /\ Len(values') \in Nat /\ n <= Len(values')
      /\ Known(values'[index], Len(values'))
      /\ \A i \in 1 .. n : i # index => values'[i] = values[i]
      /\ \A i \in 1 .. Len(values') : i > n => Known(values'[i], Len(values'))
  <2> DEFINE base == [values EXCEPT ![index] = new.value]
  <2> DEFINE pushed == new.pushed
  <2>1. AllKnown(pushed, n + Len(pushed)) /\ Known(new.value, n + Len(pushed))
    BY <1>5 DEF Fits
  <2>2. new.value \in Value  BY <2>1 DEF Known
  <2> HIDE DEF new
  <2>3. base \in Seq(Value) /\ Len(base) = n
    <3>1. n \in Nat /\ values \in [1 .. n -> Value]  BY <1>1
    <3> HIDE DEF n
    <3>2. base \in [1 .. n -> Value]  BY <2>2, <3>1
    <3> HIDE DEF base
    <3> QED BY <3>1, <3>2
  <2>4. base[index] = new.value /\ \A i \in 1 .. n : i # index => base[i] = values[i]
    BY <1>1, <1>3
  <2>5. values' = base \o pushed  BY <1>2
  <2> HIDE DEF base, pushed
  <2>6. Known(base[index], n + Len(pushed))  BY <2>1, <2>4
  <2> DEFINE added == Len(pushed)
  <2>7. pushed \in Seq(Value)  BY <2>1 DEF AllKnown
  <2>8. /\ values' \in Seq(Value)
        /\ Len(values') = n + added
        /\ \A i \in 1 .. n + added : values'[i] = IF i <= n THEN base[i] ELSE pushed[i - n]
    <3> HIDE DEF n
    <3>1. /\ base \o pushed \in Seq(Value)
          /\ Len(base \o pushed) = Len(base) + Len(pushed)
          /\ \A i \in 1 .. Len(base) + Len(pushed) :
               (base \o pushed)[i] = IF i <= Len(base) THEN base[i] ELSE pushed[i - Len(base)]
      BY <2>3, <2>7, ConcatProperties
    <3> QED BY <2>3, <2>5, <3>1
  <2>9. added \in Nat  BY <2>7
  <2> HIDE DEF n, added
  <2>10. \A i \in 1 .. n : values'[i] = base[i]  BY <1>3, <2>8, <2>9
  <2>11. Known(values'[index], Len(values'))  BY <1>3, <2>6, <2>8, <2>10 DEF added
  <2>12. \A i \in 1 .. n : i # index => values'[i] = values[i]  BY <2>4, <2>10
  <2>13. ASSUME NEW i \in 1 .. Len(values'), i > n PROVE Known(values'[i], Len(values'))
    <3>1. i - n \in 1 .. added /\ values'[i] = pushed[i - n]  BY <1>3, <2>8, <2>9, <2>13
    <3> QED BY <2>1, <2>8, <3>1 DEF AllKnown, added
  <2> QED BY <1>3, <2>8, <2>9, <2>11, <2>12, <2>13
<1> HIDE DEF new
<1>7. Progress'
  <2>1. index' \in Nat \ {0} /\ slots <= Len(values')  BY <1>1, <1>2, <1>3, <1>6
  <2>2. \A i \in index' .. slots : values'[i] = validated.values[i]
    <3>1. \A i \in index' .. slots : i \in index .. slots /\ i \in 1 .. n /\ i # index
      BY <1>1, <1>2, <1>3
    <3> QED BY <1>1, <1>6, <3>1
  <2>3. stage' = "expanding"  BY <1>2
  <2> QED BY <1>1, <1>2, <1>6, <2>1, <2>2, <2>3 DEF Progress
<1>8. DOMAIN values' = 1 .. Len(values') /\ DOMAIN values = 1 .. n  BY <1>1, <1>6
<1>9. ASSUME NEW i \in DOMAIN values', i < index' \/ i > slots
      PROVE  values'[i].kind \notin Specialised
  <2>1. CASE i > n  BY <1>6, <1>8, <2>1 DEF Known
  <2>2. CASE i = index  BY <1>6, <2>2 DEF Known
  <2>3. CASE i <= n /\ i # index
    <3>1. i \in 1 .. n /\ (i < index \/ i > slots)  BY <1>1, <1>2, <1>3, <1>6, <1>8, <1>9, <2>3
    <3>2. values'[i] = values[i]  BY <1>6, <2>3, <3>1
    <3> QED BY <1>8, <3>1, <3>2 DEF IInv, Expanded
  <2> QED BY <1>3, <1>6, <1>8, <2>1, <2>2, <2>3
<1>10. ASSUME NEW i \in DOMAIN values', NEW k \in DOMAIN values'[i].ids
       PROVE  values'[i].ids[k] \in DOMAIN values'
  <2>1. CASE i > n  BY <1>6, <1>8, <1>10, <2>1 DEF Known
  <2>2. CASE i = index  BY <1>6, <1>8, <1>10, <2>2 DEF Known
  <2>3. CASE i <= n /\ i # index
    <3>1. i \in 1 .. n  BY <1>3, <1>6, <1>8, <2>3
    <3>2. values'[i] = values[i]  BY <1>6, <2>3, <3>1
    <3>3. values[i].ids[k] \in 1 .. n  BY <1>8, <1>10, <3>1, <3>2 DEF IInv, Expanded
    <3> QED BY <1>3, <1>6, <1>8, <3>2, <3>3
  <2> QED BY <1>3, <1>6, <1>8, <2>1, <2>2, <2>3
<1> QED BY <1>2, <1>7, <1>9, <1>10 DEF IInv, Expanded

(* A scalar that was taken leaves a value behind that holds no ids. *)
LEMMA NothingLeft ==
  /\ NoValue \in Value
  /\ NoValue.kind \notin Specialised
  /\ DOMAIN NoValue.ids = {}
<1>1. << >> \in Seq(Nat) /\ DOMAIN << >> = {}  OBVIOUS
<1>2. "none" \in Text /\ "none" \notin Specialised  BY Written
<1>3. Known(Holder("none", << >>), 0)  BY <1>1, <1>2, HolderKnown
<1>4. Holder("none", << >>).ids = << >>  BY DEF Holder
<1> QED BY <1>1, <1>3, <1>4 DEF NoValue, Known

(* Once everything is expanded, values only give way to what is left of    *)
(* them.                                                                   *)
LEMMA GivingWayPreserves ==
  ASSUME IInv, index > Len(validated.values), validated' = validated, index' = index,
         Len(values') = Len(values), values' \in Seq(Value),
         \A i \in 1 .. Len(values) : values'[i] = values[i] \/ values'[i] = NoValue
  PROVE  IInv'
<1>1. /\ validated \in Arenas /\ values \in Seq(Value) /\ index \in Nat \ {0}
      /\ Len(validated.values) <= Len(values)
  BY DEF IInv, Progress
<1>2. DOMAIN values = 1 .. Len(values) /\ DOMAIN values' = 1 .. Len(values)  BY <1>1
<1>3. \A i \in index' .. Len(validated'.values) : values'[i] = validated'.values[i]
  <2>1. Len(validated.values) \in Nat  BY <1>1, ArenaValues
  <2> QED BY <1>1, <2>1
<1>4. Progress'  BY <1>1, <1>3 DEF Progress
<1>5. ASSUME NEW i \in 1 .. Len(values), i < index \/ i > Len(validated.values)
      PROVE  values'[i].kind \notin Specialised
  <2>1. CASE values'[i] = values[i]  BY <1>2, <1>5, <2>1 DEF IInv, Expanded
  <2>2. CASE values'[i] = NoValue  BY <2>2, NothingLeft
  <2> QED BY <2>1, <2>2
<1>6. ASSUME NEW i \in 1 .. Len(values), NEW k \in DOMAIN values'[i].ids
      PROVE  values'[i].ids[k] \in 1 .. Len(values)
  <2>1. CASE values'[i] = values[i]  BY <1>2, <1>6, <2>1 DEF IInv, Expanded
  <2>2. CASE values'[i] = NoValue  BY <1>6, <2>2, NothingLeft
  <2> QED BY <2>1, <2>2
<1> QED BY <1>2, <1>4, <1>5, <1>6 DEF IInv, Expanded

LEMMA TakeScalarPreserves ==
  ASSUME NEW id, IInv, TakeScalar(id)
  PROVE  IInv'
<1>1. values \in Seq(Value) /\ index > Len(validated.values)
  BY DEF IInv, Progress, TakeScalar
<1>2. values' = [values EXCEPT ![id] = NoValue] /\ validated' = validated /\ index' = index
  BY DEF TakeScalar
<1>3. values' \in Seq(Value) /\ Len(values') = Len(values)
  <2> DEFINE length == Len(values)
  <2>1. length \in Nat /\ values \in [1 .. length -> Value]  BY <1>1
  <2> HIDE DEF length
  <2>2. values' \in [1 .. length -> Value]  BY <1>2, <2>1, NothingLeft
  <2>3. values' \in Seq(Value) /\ Len(values') = length  BY <2>1, <2>2
  <2> QED BY <2>3 DEF length
<1>4. \A i \in 1 .. Len(values) : values'[i] = values[i] \/ values'[i] = NoValue
  BY <1>1, <1>2
<1> QED BY <1>1, <1>2, <1>3, <1>4, GivingWayPreserves

LEMMA SealPreserves == IInv /\ Seal => IInv'
<1> SUFFICES ASSUME IInv, Seal PROVE IInv'  OBVIOUS
<1> DEFINE scalars == {i \in DOMAIN values : values[i].kind \in Scalars}
<1>1. values \in Seq(Value) /\ index > Len(validated.values)
  BY DEF IInv, Progress, Seal
<1>2. /\ values' = [i \in DOMAIN values |-> IF i \in scalars THEN NoValue ELSE values[i]]
      /\ validated' = validated /\ index' = index
  BY DEF Seal
<1> HIDE DEF scalars
<1>3. DOMAIN values = 1 .. Len(values)  BY <1>1
<1>4. \A i \in 1 .. Len(values) : values[i] \in Value  BY <1>1
<1>5. values' \in Seq(Value) /\ Len(values') = Len(values)
  BY <1>1, <1>2, <1>3, <1>4, NothingLeft
<1>6. \A i \in 1 .. Len(values) : values'[i] = values[i] \/ values'[i] = NoValue
  BY <1>2, <1>3
<1> QED BY <1>1, <1>2, <1>5, <1>6, GivingWayPreserves

LEMMA StepPreserves == IInv /\ [ConstructionNext]_constructionVars => IInv'
<1> SUFFICES ASSUME IInv, [ConstructionNext]_constructionVars PROVE IInv'  OBVIOUS
<1>1. CASE Prepare  BY <1>1 DEF Prepare, IInv, Progress, Expanded
<1>2. CASE ExpandSlot  BY <1>2, ExpandSlotPreserves
<1>3. CASE ArenaIsFull  BY <1>3 DEF ArenaIsFull, IInv, Progress, Expanded
<1>4. CASE Describe
  <2>1. /\ index > Len(validated.values)
        /\ UNCHANGED <<validated, values, index>>
    BY <1>4 DEF Describe
  <2> QED BY <2>1 DEF IInv, Progress, Expanded
<1>5. CASE \E id \in DOMAIN nodes : TakeScalar(id)  BY <1>5, TakeScalarPreserves
<1>6. CASE Seal  BY <1>6, SealPreserves
<1>7. CASE UNCHANGED constructionVars  BY <1>7 DEF constructionVars, IInv, Progress, Expanded
<1> QED BY <1>1, <1>2, <1>3, <1>4, <1>5, <1>6, <1>7 DEF ConstructionNext

(* Whatever a validation gives, and however large the arena is: no slot    *)
(* that expand_specialized_values has passed, and nothing it pushed, holds *)
(* a value the runtime has no kind for, and no id leaves the arena, also   *)
(* while scalars are taken and when the arena is sealed.                   *)
THEOREM ConstructionExpanded == ConstructionSpec => []Expanded
<1>1. IInv => Expanded  BY DEF IInv
<1> QED BY <1>1, InitEstablishes, StepPreserves, PTL DEF ConstructionSpec

-----------------------------------------------------------------------------
(* Before an arena is prepared nothing was taken of it; then every slot    *)
(* that was not moved is described as it is, and what was moved is what    *)
(* was taken; an arena to be sealed is whole until it is.                  *)
Described ==
  /\ stage \in {"validated", "expanding", "failed", "prepared", "sealed"}
  /\ stage \in {"validated", "expanding", "failed"} => taken = {}
  /\ stage \in {"prepared", "sealed"} => DOMAIN nodes = DOMAIN values
  /\ stage = "prepared" =>
       /\ moved \in [DOMAIN values -> BOOLEAN]
       /\ \A i \in DOMAIN values : ~moved[i] => nodes[i] = Node(values[i])
       /\ \A t \in taken : t.id \in DOMAIN values /\ moved[t.id]
       /\ purpose = "callback" => \A i \in DOMAIN values : ~moved[i]
       /\ \A i \in DOMAIN values :
            i <= Len(validated.values) /\ validated.values[i].kind \in Scalars /\ ~moved[i] =>
              values[i] = validated.values[i]

ScalarsInv == Described /\ ScalarsAsDescribed

(* The loop has nothing to say of scalars. *)
LEMMA ScalarStays ==
  ASSUME NEW value, value.kind \in Scalars, NEW n
  PROVE  Replacement(value, n) = Becomes(value, << >>)
<1>1. value.kind \notin Specialised  BY DEF Scalars, Specialised, Texts
<1> QED BY <1>1 DEF Replacement, Specialised, Texts

(* A round of the loop changes one slot of those there were. *)
LEMMA RoundChangesOne ==
  ASSUME IInv, ExpandSlot
  PROVE  /\ Len(values) \in Nat /\ Len(values') \in Nat /\ Len(values) <= Len(values')
         /\ values \in Seq(Value) /\ values' \in Seq(Value)
         /\ values'[index] = Replacement(values[index], Len(values)).value
         /\ \A i \in 1 .. Len(values) : i # index => values'[i] = values[i]
<1> DEFINE n == Len(values)
<1> DEFINE new == Replacement(values[index], n)
<1> DEFINE base == [values EXCEPT ![index] = new.value]
<1> DEFINE pushed == new.pushed
<1>1. /\ validated \in Arenas /\ values \in Seq(Value) /\ index \in Nat \ {0}
      /\ Len(validated.values) <= n /\ index <= Len(validated.values)
      /\ values' = base \o pushed
  BY DEF IInv, Progress, ExpandSlot
<1>2. n \in Nat /\ index \in 1 .. n /\ index \in 1 .. Len(validated.values)
  <2>1. Len(validated.values) \in Nat  BY <1>1, ArenaValues
  <2> QED BY <1>1, <2>1
<1>3. Fits(new, n)
  <2>1. values[index] = validated.values[index]  BY <1>1, <1>2 DEF IInv, Progress
  <2>2. WellFormed(values[index])  BY <1>1, <1>2, <2>1, ArenaValues
  <2>3. values[index] \in Value /\ DOMAIN values = 1 .. n  BY <1>1, <1>2
  <2>4. \A k \in DOMAIN values[index].ids : values[index].ids[k] \in 1 .. n
    BY <1>2, <2>3 DEF IInv, Expanded
  <2> QED BY <1>2, <2>2, <2>3, <2>4, ReplacementFits
<1>4. new.value \in Value /\ pushed \in Seq(Value)
  BY <1>3 DEF Fits, AllKnown, Known
<1> HIDE DEF new
<1>5. /\ base \in Seq(Value) /\ Len(base) = n
      /\ base[index] = new.value /\ \A i \in 1 .. n : i # index => base[i] = values[i]
  <2>1. values \in [1 .. n -> Value]  BY <1>1
  <2> HIDE DEF n
  <2>2. base \in [1 .. n -> Value]  BY <1>4, <2>1
  <2>3. base[index] = new.value /\ \A i \in 1 .. n : i # index => base[i] = values[i]
    BY <1>2, <2>1
  <2> HIDE DEF base
  <2> QED BY <1>2, <2>2, <2>3
<1> HIDE DEF base, pushed
<1>6. /\ base \o pushed \in Seq(Value)
      /\ Len(base \o pushed) = Len(base) + Len(pushed)
      /\ \A i \in 1 .. Len(base) + Len(pushed) :
           (base \o pushed)[i] = IF i <= Len(base) THEN base[i] ELSE pushed[i - Len(base)]
  BY <1>4, <1>5, ConcatProperties
<1>7. Len(pushed) \in Nat  BY <1>4
<1> HIDE DEF n
<1>8. /\ Len(values') \in Nat /\ n <= Len(values') /\ values' \in Seq(Value)
      /\ \A i \in 1 .. n : values'[i] = base[i]
  BY <1>1, <1>2, <1>5, <1>6, <1>7
<1>9. values'[index] = new.value /\ \A i \in 1 .. n : i # index => values'[i] = values[i]
  BY <1>2, <1>5, <1>8
<1> QED BY <1>1, <1>2, <1>8, <1>9 DEF n, new

(* What a scalar's node says of it. *)
LEMMA ScalarKinds ==
  ASSUME NEW value, value.kind \in Scalars
  PROVE  TakeStructuralScalar(value).kind = Node(value).kind
BY DEF TakeStructuralScalar, Node

LEMMA InitScalars == ConstructionInit => ScalarsInv
<1> SUFFICES ASSUME ConstructionInit PROVE ScalarsInv  OBVIOUS
<1>1. stage = "validated" /\ taken = {} /\ values = validated.values
  BY DEF ConstructionInit
<1> QED BY <1>1 DEF ScalarsInv, Described, ScalarsAsDescribed

LEMMA ExpandSlotScalars == IInv /\ ScalarsInv /\ ExpandSlot => ScalarsInv'
<1> SUFFICES ASSUME IInv, ScalarsInv, ExpandSlot PROVE ScalarsInv'  OBVIOUS
<1>1. /\ stage = "expanding" /\ stage' = "expanding" /\ taken = {} /\ taken' = {}
      /\ validated' = validated
  BY DEF ExpandSlot, ScalarsInv, Described
<1>2. /\ validated \in Arenas /\ Len(validated.values) \in Nat /\ Len(validated.values) <= Len(values)
      /\ values[index] = validated.values[index] /\ index \in 1 .. Len(validated.values)
  <2>1. validated \in Arenas /\ Len(validated.values) \in Nat  BY ArenaValues DEF IInv, Progress
  <2> QED BY <2>1 DEF IInv, Progress, ExpandSlot
<1>3. /\ Len(values) \in Nat /\ Len(values') \in Nat /\ Len(values) <= Len(values')
      /\ DOMAIN values = 1 .. Len(values) /\ DOMAIN values' = 1 .. Len(values')
      /\ values'[index] = Replacement(values[index], Len(values)).value
      /\ \A i \in 1 .. Len(values) : i # index => values'[i] = values[i]
  BY RoundChangesOne
<1>4. ASSUME NEW i \in DOMAIN values', i <= Len(validated.values), validated.values[i].kind \in Scalars
      PROVE  values'[i] = validated.values[i]
  <2>1. i \in 1 .. Len(values)  BY <1>2, <1>3, <1>4
  <2>2. CASE i # index
    <3>1. values[i] = validated.values[i]  BY <1>1, <1>3, <1>4, <2>1 DEF ScalarsInv, ScalarsAsDescribed
    <3> QED BY <1>3, <2>1, <2>2, <3>1
  <2>3. CASE i = index
    <3>1. Replacement(values[index], Len(values)) = Becomes(values[index], << >>)
      BY <1>2, <1>4, <2>3, ScalarStays
    <3> QED BY <1>2, <1>3, <2>3, <3>1 DEF Becomes
  <2> QED BY <2>2, <2>3
<1> QED BY <1>1, <1>4 DEF ScalarsInv, Described, ScalarsAsDescribed

(* Describing an arena of which nothing was taken. *)
LEMMA DescribeScalars == IInv /\ ScalarsInv /\ Describe => ScalarsInv'
<1> SUFFICES ASSUME IInv, ScalarsInv, Describe PROVE ScalarsInv'  OBVIOUS
<1>1. /\ stage = "expanding" /\ taken = {} /\ taken' = {}
      /\ validated' = validated /\ values' = values /\ purpose' = purpose
      /\ \A i \in DOMAIN values : i <= Len(validated.values) /\ validated.values[i].kind \in Scalars =>
           values[i] = validated.values[i]
  BY DEF Describe, ScalarsInv, Described, ScalarsAsDescribed
<1>2. CASE stage' = "failed"
  BY <1>1, <1>2 DEF ScalarsInv, Described, ScalarsAsDescribed
<1>3. CASE /\ stage' = "prepared"
           /\ nodes' = [i \in DOMAIN values |-> Node(values[i])]
           /\ moved' = [i \in DOMAIN values |-> FALSE]
  <2>1. /\ moved' \in [DOMAIN values -> BOOLEAN] /\ DOMAIN nodes' = DOMAIN values
        /\ \A i \in DOMAIN values : nodes'[i] = Node(values[i]) /\ ~moved'[i]
    BY <1>3
  <2>2. \A value : Node(value)' = Node(value')  BY DEF Node, Kind
  <2>3. \A i \in DOMAIN values' : nodes'[i] = Node(values'[i])  BY <1>1, <2>1
  <2> QED BY <1>1, <1>3, <2>1, <2>3 DEF ScalarsInv, Described, ScalarsAsDescribed
<1> QED BY <1>2, <1>3 DEF Describe

LEMMA TakeScalars ==
  ASSUME NEW id, IInv, ScalarsInv, TakeScalar(id)
  PROVE  ScalarsInv'
<1> DEFINE item == [id |-> id, scalar |-> TakeStructuralScalar(values[id])]
<1>1. /\ stage = "prepared" /\ stage' = "prepared" /\ purpose = "construct" /\ purpose' = purpose
      /\ id \in DOMAIN moved /\ ~moved[id] /\ values[id].kind \in Scalars
      /\ taken' = taken \cup {item}
      /\ values' = [values EXCEPT ![id] = NoValue]
      /\ moved' = [moved EXCEPT ![id] = TRUE]
      /\ validated' = validated /\ nodes' = nodes
  BY DEF TakeScalar
<1>2. /\ DOMAIN nodes = DOMAIN values /\ moved \in [DOMAIN values -> BOOLEAN]
      /\ \A i \in DOMAIN values : ~moved[i] => nodes[i] = Node(values[i])
      /\ \A t \in taken : t.id \in DOMAIN values /\ moved[t.id]
      /\ \A i \in DOMAIN values :
           i <= Len(validated.values) /\ validated.values[i].kind \in Scalars /\ ~moved[i] =>
             values[i] = validated.values[i]
  BY <1>1 DEF ScalarsInv, Described
<1>3. /\ \A t, u \in taken : t.scalar.kind = nodes[t.id].kind /\ (t.id = u.id => t = u)
      /\ \A i \in DOMAIN values :
           i <= Len(validated.values) /\ validated.values[i].kind \in Scalars =>
             \/ [id |-> i, scalar |-> TakeStructuralScalar(validated.values[i])] \in taken
             \/ values[i] = validated.values[i]
  BY DEF ScalarsInv, ScalarsAsDescribed
<1>4. id \in DOMAIN values /\ item.id = id /\ item.scalar.kind = nodes[id].kind
  <2>1. id \in DOMAIN values  BY <1>1, <1>2
  <2>2. TakeStructuralScalar(values[id]).kind = Node(values[id]).kind  BY <1>1, ScalarKinds
  <2> QED BY <1>1, <1>2, <2>1, <2>2
<1>5. \A t \in taken : t.id # id  BY <1>1, <1>2
<1>6. /\ DOMAIN values' = DOMAIN values /\ DOMAIN nodes' = DOMAIN values'
      /\ moved' \in [DOMAIN values' -> BOOLEAN] /\ moved'[id]
      /\ \A i \in DOMAIN values : i # id => values'[i] = values[i] /\ moved'[i] = moved[i]
  BY <1>1, <1>2, <1>4
<1> DEFINE scalarOf(i) == [id |-> i, scalar |-> TakeStructuralScalar(validated.values[i])]
<1>7. ASSUME NEW i \in DOMAIN values', i <= Len(validated.values), validated.values[i].kind \in Scalars
      PROVE  \/ scalarOf(i) \in taken'
             \/ values'[i] = validated.values[i]
  <2>1. CASE i # id
    BY <1>1, <1>3, <1>6, <1>7, <2>1
  <2>2. CASE i = id
    <3>1. values[id] = validated.values[id]  BY <1>1, <1>2, <1>4, <1>7, <2>2
    <3>2. scalarOf(i) = item  BY <2>2, <3>1
    <3> HIDE DEF item, scalarOf
    <3> QED BY <1>1, <3>2
  <2> QED BY <2>1, <2>2
<1> HIDE DEF item
<1>8. \A t, u \in taken' : t.scalar.kind = nodes[t.id].kind /\ (t.id = u.id => t = u)
  <2> SUFFICES ASSUME NEW t \in taken', NEW u \in taken'
               PROVE  t.scalar.kind = nodes[t.id].kind /\ (t.id = u.id => t = u)
    OBVIOUS
  <2>1. (t \in taken \/ t = item) /\ (u \in taken \/ u = item)  BY <1>1
  <2> QED BY <1>3, <1>4, <1>5, <2>1
<1>9. \A t \in taken' : t.id \in DOMAIN values' /\ moved'[t.id]
  BY <1>1, <1>2, <1>4, <1>5, <1>6
<1>10. \A i \in DOMAIN values' : ~moved'[i] => nodes'[i] = Node(values'[i])
  BY <1>1, <1>2, <1>6
<1>11. \A i \in DOMAIN values' :
         i <= Len(validated.values) /\ validated.values[i].kind \in Scalars /\ ~moved'[i] =>
           values'[i] = validated.values[i]
  BY <1>1, <1>2, <1>6
<1>12. Described'
  BY <1>1, <1>6, <1>9, <1>10, <1>11 DEF Described
<1>13. ScalarsAsDescribed'
  BY <1>1, <1>7, <1>8 DEF ScalarsAsDescribed, TakeStructuralScalar, Kind
<1> QED BY <1>12, <1>13 DEF ScalarsInv

(* Sealing takes each scalar once, and all of them. *)
LEMMA SealScalars == IInv /\ ScalarsInv /\ Seal => ScalarsInv'
<1> SUFFICES ASSUME IInv, ScalarsInv, Seal PROVE ScalarsInv'  OBVIOUS
<1> DEFINE scalars == {i \in DOMAIN values : values[i].kind \in Scalars}
<1>1. /\ stage = "prepared" /\ stage' = "sealed" /\ purpose = "callback"
      /\ taken' = {[id |-> i, scalar |-> TakeStructuralScalar(values[i])] : i \in scalars}
      /\ values' = [i \in DOMAIN values |-> IF i \in scalars THEN NoValue ELSE values[i]]
      /\ validated' = validated /\ nodes' = nodes
  BY DEF Seal
<1>2. /\ DOMAIN nodes = DOMAIN values
      /\ \A i \in DOMAIN values : nodes[i] = Node(values[i])
      /\ \A i \in DOMAIN values :
           i <= Len(validated.values) /\ validated.values[i].kind \in Scalars =>
             values[i] = validated.values[i]
  BY <1>1 DEF ScalarsInv, Described
<1>3. DOMAIN values' = DOMAIN values  BY <1>1
<1>4. \A i \in scalars : TakeStructuralScalar(values[i]).kind = nodes[i].kind
  BY <1>2, ScalarKinds
<1>5. \A t, u \in taken' : t.scalar.kind = nodes[t.id].kind /\ (t.id = u.id => t = u)
  <2> SUFFICES ASSUME NEW t \in taken', NEW u \in taken'
               PROVE  t.scalar.kind = nodes[t.id].kind /\ (t.id = u.id => t = u)
    OBVIOUS
  <2>1. PICK i \in scalars : t = [id |-> i, scalar |-> TakeStructuralScalar(values[i])]  BY <1>1
  <2>2. PICK k \in scalars : u = [id |-> k, scalar |-> TakeStructuralScalar(values[k])]  BY <1>1
  <2> QED BY <1>4, <2>1, <2>2
<1>6. ASSUME NEW i \in DOMAIN values, i <= Len(validated.values), validated.values[i].kind \in Scalars
      PROVE  [id |-> i, scalar |-> TakeStructuralScalar(validated.values[i])] \in taken'
  <2>1. values[i] = validated.values[i] /\ i \in scalars  BY <1>2, <1>6
  <2> QED BY <1>1, <2>1
<1>7. Described'  BY <1>1, <1>2, <1>3 DEF Described
<1>8. ScalarsAsDescribed'
  BY <1>1, <1>3, <1>5, <1>6 DEF ScalarsAsDescribed, TakeStructuralScalar, Kind
<1> QED BY <1>7, <1>8 DEF ScalarsInv

LEMMA StepScalars == IInv /\ ScalarsInv /\ [ConstructionNext]_constructionVars => ScalarsInv'
<1> SUFFICES ASSUME IInv, ScalarsInv, [ConstructionNext]_constructionVars PROVE ScalarsInv'  OBVIOUS
<1>1. CASE Prepare  BY <1>1 DEF Prepare, ScalarsInv, Described, ScalarsAsDescribed
<1>2. CASE ExpandSlot  BY <1>2, ExpandSlotScalars
<1>3. CASE ArenaIsFull  BY <1>3 DEF ArenaIsFull, ScalarsInv, Described, ScalarsAsDescribed
<1>4. CASE Describe  BY <1>4, DescribeScalars
<1>5. CASE \E id \in DOMAIN nodes : TakeScalar(id)  BY <1>5, TakeScalars
<1>6. CASE Seal  BY <1>6, SealScalars
<1>7. CASE UNCHANGED constructionVars
  BY <1>7 DEF constructionVars, ScalarsInv, Described, ScalarsAsDescribed
<1> QED BY <1>1, <1>2, <1>3, <1>4, <1>5, <1>6, <1>7 DEF ConstructionNext

(* Whatever a validation gives: a scalar is handed out as its node says,   *)
(* once, and as it was validated; until then it is in its place, although  *)
(* the arena is rewritten there, and a sealed arena has handed out all.    *)
THEOREM ScalarsHandedOver == ConstructionSpec => []ScalarsAsDescribed
<1>1. ConstructionInit => IInv /\ ScalarsInv
  BY InitEstablishes, InitScalars
<1>2. (IInv /\ ScalarsInv) /\ [ConstructionNext]_constructionVars => (IInv /\ ScalarsInv)'
  BY StepPreserves, StepScalars
<1>3. IInv /\ ScalarsInv => ScalarsAsDescribed  BY DEF ScalarsInv
<1> QED BY <1>1, <1>2, <1>3, PTL DEF ConstructionSpec

-----------------------------------------------------------------------------
(* The JSON writer.                                                        *)
(*                                                                         *)
(* A set of numbers that has 0 and, with each number, the next has them    *)
(* all: otherwise the least one it lacks would be missing for no reason.   *)
LEMMA AllNaturals ==
  ASSUME NEW S \in SUBSET Nat, 0 \in S, \A n \in S : n + 1 \in S
  PROVE  S = Nat
  <1> SUFFICES ASSUME Nat \ S # {} PROVE FALSE
    OBVIOUS
  <1> DEFINE R == {p \in Nat \X Nat : p[1] < p[2]}
             T == Nat \ S
  <1>1. IsWellFoundedOn(R, Nat)
    BY NatLessThanWellFounded DEF OpToRel
  <1>2. \A n, m \in Nat : m < n => <<m, n>> \in R
    OBVIOUS
  <1>3. T \in SUBSET Nat /\ T # {}
    OBVIOUS
  <1> HIDE DEF R, T
  <1>4. PICK n \in T : \A m \in T : ~(<<m, n>> \in R)
    BY <1>1, <1>3, WFMin
  <1>5. n \in Nat /\ n \notin S
    BY <1>4 DEF T
  <1>6. n - 1 \in Nat /\ n - 1 < n
    BY <1>5
  <1>7. n - 1 \in S
    BY <1>2, <1>4, <1>5, <1>6 DEF T
  <1> QED
    BY <1>5, <1>6, <1>7

-----------------------------------------------------------------------------
(* Where the children of an aggregate end, given where values do: the      *)
(* function exists, there is one, and it looks at values that start inside *)
(* the aggregate only.                                                     *)
IsChildEnds(after, events, ends, i) ==
  after = [c \in 0 .. events[i].count |->
             IF c = 0 THEN i + 1 ELSE AfterChild(events, ends, i, c - 1, after[c - 1])]

LEMMA SomeChildEnds ==
  ASSUME NEW events, NEW ends, NEW i, events[i].count \in Nat
  PROVE  \E after : IsChildEnds(after, events, ends, i)
<1> DEFINE n == events[i].count
           Step(f, c) == IF c = 0 THEN i + 1 ELSE AfterChild(events, ends, i, c - 1, f[c - 1])
           Made(m) == \E f : f = [c \in 0 .. m |-> Step(f, c)]
           S == {m \in Nat : Made(m)}
<1>1. 0 \in S
  <2>1. 0 .. 0 = {0}  OBVIOUS
  <2>2. [c \in 0 .. 0 |-> i + 1] = [c \in 0 .. 0 |-> Step([d \in 0 .. 0 |-> i + 1], c)]
    BY <2>1
  <2> QED BY <2>2
<1>2. ASSUME NEW m \in S PROVE m + 1 \in S
  <2> m \in Nat  BY <1>2
  <2>1. PICK f : f = [c \in 0 .. m |-> Step(f, c)]  BY <1>2
  <2> DEFINE g == [c \in 0 .. m + 1 |-> IF c = m + 1 THEN AfterChild(events, ends, i, c - 1, f[m]) ELSE f[c]]
  <2>2. ASSUME NEW c \in 0 .. m + 1 PROVE g[c] = Step(g, c)
    <3>1. CASE c = m + 1  BY <3>1
    <3>2. CASE c # m + 1
      <4>1. c \in 0 .. m /\ g[c] = f[c] /\ f[c] = Step(f, c)  BY <2>1, <3>2
      <4>2. c # 0 => c - 1 \in 0 .. m + 1 /\ c - 1 # m + 1 /\ g[c - 1] = f[c - 1]  BY <4>1
      <4> QED BY <4>1, <4>2
    <3> QED BY <3>1, <3>2
  <2>3. g = [c \in 0 .. m + 1 |-> Step(g, c)]
    <3> HIDE DEF Step
    <3> QED BY <2>2
  <2> HIDE DEF g, Step
  <2> QED BY <2>3
<1>3. S \subseteq Nat  OBVIOUS
<1> HIDE DEF S
<1>4. n \in S  BY <1>1, <1>2, <1>3, AllNaturals
<1> QED BY <1>4 DEF S, IsChildEnds

LEMMA OneChildEnds ==
  ASSUME NEW events, NEW ends, NEW others, NEW i \in Nat, events[i].count \in Nat, Len(events) \in Nat,
         \A k \in i + 2 .. Len(events) : ends[k] = others[k],
         NEW f, NEW g, IsChildEnds(f, events, ends, i), IsChildEnds(g, events, others, i)
  PROVE  f = g
<1> DEFINE n == events[i].count
           S == {m \in Nat : m <= n => f[m] = g[m]}
<1>1. 0 \in S  BY DEF IsChildEnds
<1>2. ASSUME NEW m \in S PROVE m + 1 \in S
  <2> SUFFICES ASSUME m + 1 <= n PROVE f[m + 1] = g[m + 1]  BY <1>2
  <2>1. f[m] = g[m] /\ m \in Nat  BY <1>2
  <2>2. /\ f[m + 1] = AfterChild(events, ends, i, m, f[m])
        /\ g[m + 1] = AfterChild(events, others, i, m, g[m])
    BY <2>1 DEF IsChildEnds
  <2>3. ASSUME f[m] \in i + 1 .. Len(events) - 1 PROVE ends[f[m] + 1] = others[f[m] + 1]
    <3>1. f[m] + 1 \in i + 2 .. Len(events)  BY <2>3
    <3> QED BY <3>1
  <2> QED BY <2>1, <2>2, <2>3 DEF AfterChild
<1>3. S \subseteq Nat  OBVIOUS
<1>4. \A m \in 0 .. n : f[m] = g[m]
  <2> HIDE DEF S
  <2>1. S = Nat  BY <1>1, <1>2, <1>3, AllNaturals
  <2> QED BY <2>1 DEF S
<1> QED BY <1>4 DEF IsChildEnds

LEMMA ChildEndsFacts ==
  ASSUME NEW events, NEW ends, NEW i, events[i].count \in Nat
  PROVE  IsChildEnds(ChildEnds(events, ends, i), events, ends, i)
<1>1. PICK after : IsChildEnds(after, events, ends, i)  BY SomeChildEnds
<1> QED BY <1>1 DEF ChildEnds, IsChildEnds

LEMMA ChildEndsInside ==
  ASSUME NEW events, NEW ends, NEW others, NEW i \in Nat, events[i].count \in Nat, Len(events) \in Nat,
         \A k \in i + 2 .. Len(events) : ends[k] = others[k]
  PROVE  ChildEnds(events, ends, i) = ChildEnds(events, others, i)
<1> DEFINE f == ChildEnds(events, ends, i)
           g == ChildEnds(events, others, i)
<1>1. IsChildEnds(f, events, ends, i) /\ IsChildEnds(g, events, others, i)  BY ChildEndsFacts
<1> HIDE DEF f, g
<1>2. f = g  BY <1>1, OneChildEnds
<1> QED BY <1>2 DEF f, g

LEMMA ChildEndsNext ==
  ASSUME NEW events, NEW ends, NEW i, NEW after, IsChildEnds(after, events, ends, i),
         events[i].count \in Nat, NEW m \in Nat, m + 1 <= events[i].count
  PROVE  after[m + 1] = AfterChild(events, ends, i, m, after[m])
BY DEF IsChildEnds

(* The counts of the aggregates are numbers. *)
Counted(events) ==
  /\ Len(events) \in Nat
  /\ \A i \in 1 .. Len(events) : events[i].on = "enter" => events[i].count \in Nat

LEMMA ValueEndInside ==
  ASSUME NEW events, Counted(events), NEW ends, NEW others, NEW i \in 1 .. Len(events),
         \A k \in i + 1 .. Len(events) : ends[k] = others[k]
  PROVE  ValueEnd(events, ends, i) = ValueEnd(events, others, i)
<1>1. i \in Nat /\ Len(events) \in Nat /\ \A k \in i + 2 .. Len(events) : ends[k] = others[k]
  BY DEF Counted
<1>2. events[i].on = "enter" => ChildEnds(events, ends, i) = ChildEnds(events, others, i)
  BY <1>1, ChildEndsInside DEF Counted
<1> QED BY <1>2 DEF ValueEnd

(* Where values end: the function exists, built from the last event back.  *)
LEMMA ValueEndsFacts ==
  ASSUME NEW events, Counted(events)
  PROVE  ValueEnds(events) = [i \in 1 .. Len(events) |-> ValueEnd(events, ValueEnds(events), i)]
<1> DEFINE n == Len(events)
           Made(m) == \E f : f = [i \in n + 1 - m .. n |-> ValueEnd(events, f, i)]
           S == {m \in Nat : m <= n => Made(m)}
<1> n \in Nat  BY DEF Counted
<1>1. 0 \in S
  <2>1. n + 1 - 0 .. n = {}  OBVIOUS
  <2>2. [i \in {} |-> 0] = [i \in n + 1 - 0 .. n |-> ValueEnd(events, [j \in {} |-> 0], i)]
    BY <2>1
  <2> QED BY <2>2
<1>2. ASSUME NEW m \in S PROVE m + 1 \in S
  <2> SUFFICES ASSUME m + 1 <= n PROVE Made(m + 1)  BY <1>2
  <2> m \in Nat  BY <1>2
  <2>1. PICK f : f = [i \in n + 1 - m .. n |-> ValueEnd(events, f, i)]  BY <1>2
  <2> DEFINE g == [i \in n - m .. n |-> IF i = n - m THEN ValueEnd(events, f, i) ELSE f[i]]
  <2>2. ASSUME NEW i \in n - m .. n PROVE g[i] = ValueEnd(events, g, i)
    <3>1. i \in 1 .. n /\ \A k \in i + 1 .. n : k \in n - m .. n /\ k # n - m  OBVIOUS
    <3>2. \A k \in i + 1 .. n : f[k] = g[k]  BY <3>1
    <3> HIDE DEF g
    <3>3. ValueEnd(events, f, i) = ValueEnd(events, g, i)
      BY <3>1, <3>2, ValueEndInside
    <3>4. i # n - m => i \in n + 1 - m .. n  OBVIOUS
    <3>5. i # n - m => f[i] = ValueEnd(events, f, i)  BY <2>1, <3>4
    <3> QED BY <3>3, <3>5 DEF g
  <2>3. n + 1 - (m + 1) = n - m  OBVIOUS
  <2>4. g = [i \in n + 1 - (m + 1) .. n |-> ValueEnd(events, g, i)]  BY <2>2, <2>3
  <2> HIDE DEF g
  <2> QED BY <2>4
<1>3. S \subseteq Nat  OBVIOUS
<1>4. Made(n)
  <2> HIDE DEF S
  <2>1. S = Nat  BY <1>1, <1>2, <1>3, AllNaturals
  <2> HIDE DEF Made
  <2> QED BY <2>1 DEF S
<1>5. PICK f : f = [i \in 1 .. n |-> ValueEnd(events, f, i)]
  <2>1. n + 1 - n = 1  OBVIOUS
  <2> QED BY <1>4, <2>1
<1> QED BY <1>5 DEF ValueEnds

-----------------------------------------------------------------------------
(* Lists whose elements are not all of one type. *)
IsSeq(s) == Len(s) \in Nat /\ s = [k \in 1 .. Len(s) |-> s[k]]

LEMMA SeqOfOwn ==
  ASSUME NEW s, IsSeq(s)
  PROVE  s \in Seq({s[k] : k \in 1 .. Len(s)})
<1>1. [k \in 1 .. Len(s) |-> s[k]] \in [1 .. Len(s) -> {s[k] : k \in 1 .. Len(s)}]  OBVIOUS
<1>2. s \in [1 .. Len(s) -> {s[k] : k \in 1 .. Len(s)}]  BY <1>1 DEF IsSeq
<1> QED BY <1>2, SeqDef DEF IsSeq

LEMMA PopFacts ==
  ASSUME NEW s, IsSeq(s), s # << >>
  PROVE  /\ Len(s) \in Nat \ {0} /\ IsSeq(Pop(s)) /\ Len(Pop(s)) = Len(s) - 1
         /\ \A k \in 1 .. Len(s) - 1 : Pop(s)[k] = s[k]
<1> DEFINE T == {s[k] : k \in 1 .. Len(s)}
<1>1. s \in Seq(T)  BY SeqOfOwn
<1> HIDE DEF T
<1> QED BY <1>1 DEF IsSeq, Pop

LEMMA AppendFacts ==
  ASSUME NEW s, IsSeq(s), NEW e
  PROVE  /\ IsSeq(Append(s, e)) /\ Len(Append(s, e)) = Len(s) + 1
         /\ \A k \in 1 .. Len(s) : Append(s, e)[k] = s[k]
         /\ Append(s, e)[Len(s) + 1] = e
         /\ Append(s, e) # << >>
<1> DEFINE T == {s[k] : k \in 1 .. Len(s)} \cup {e}
<1>1. s \in Seq(T) /\ e \in T
  <2>1. [k \in 1 .. Len(s) |-> s[k]] \in [1 .. Len(s) -> T]  OBVIOUS
  <2>2. s \in [1 .. Len(s) -> T]  BY <2>1 DEF IsSeq
  <2> QED BY <2>2, SeqDef DEF IsSeq
<1> HIDE DEF T
<1>2. Append(s, e) \in Seq(T)  BY <1>1
<1>3. \A t \in Seq(T) : IsSeq(t)  BY DEF IsSeq
<1>4. IsSeq(Append(s, e))  BY <1>2, <1>3
<1> HIDE DEF IsSeq
<1> QED BY <1>1, <1>4

LEMMA EmptyIsSeq == IsSeq(<< >>) /\ Len(<< >>) = 0
BY DEF IsSeq

LEMMA NonEmptyLen ==
  ASSUME NEW s, IsSeq(s)
  PROVE  s = << >> <=> Len(s) = 0
<1>1. s \in Seq({s[k] : k \in 1 .. Len(s)})  BY SeqOfOwn
<1> HIDE DEF IsSeq
<1> QED BY <1>1

-----------------------------------------------------------------------------
(* The shape of the writer.                                                *)
IsFrame(frame) ==
  /\ DOMAIN frame = {"kind", "count", "completed", "emitted", "pending", "prepared"}
  /\ frame.count \in Nat /\ frame.completed \in Nat

IsWriter(v) ==
  /\ DOMAIN v = {"output", "raw", "nodes", "strings", "frames", "path", "rootComplete"}
  /\ IsSeq(v.frames)
  /\ \A f \in 1 .. Len(v.frames) : IsFrame(v.frames[f])
  /\ v.rootComplete \in BOOLEAN

Well(events) == Counted(events) /\ events \in Seq(Events)

LEMMA DumpIsWell == ASSUME dump \in Dumps PROVE Well(dump.events)
<1>1. dump.events \in Seq(Events)  BY DumpsAssumption
<1>2. \A e \in Events : e.on = "enter" => e.count \in Nat  BY DEF Events
<1> QED BY <1>1, <1>2 DEF Well, Counted

-----------------------------------------------------------------------------
(* Where the writer is in the events: each open frame is an aggregate that *)
(* starts at an event, the next frame starts at the child it has come to,  *)
(* and the last has come to the event that is next.                        *)
Reached(events, frame, start) ==
  ChildEnds(events, ValueEnds(events), start)[frame.completed]

Opens(events, frame, start) ==
  /\ start \in 1 .. Len(events) /\ events[start].on = "enter"
  /\ events[start].kind = frame.kind /\ events[start].count = frame.count
  /\ frame.completed <= frame.count

(* The frame waits for the child that follows the edge at this event.      *)
Passing(events, frame, start, at) ==
  /\ frame.pending = NoEdge /\ frame.completed < frame.count
  /\ Reached(events, frame, start) = at
  /\ at \in start + 1 .. Len(events) /\ events[at].on = "edge"
  /\ EdgeFits(frame.kind, frame.completed, events[at].edge)

(* Between two children, or after the edge of the next. *)
Between(events, frame, start, at) ==
  /\ start <= at
  /\ frame.pending = NoEdge => Reached(events, frame, start) = at + 1
  /\ frame.pending # NoEdge =>
       /\ frame.completed < frame.count /\ Reached(events, frame, start) = at
       /\ at \in start + 1 .. Len(events)
       /\ events[at].on = "edge" /\ events[at].edge = frame.pending

Chain(events, frames, opened) ==
  /\ IsSeq(opened) /\ Len(opened) = Len(frames)
  /\ frames # << >> => opened[1] = 1
  /\ \A f \in 1 .. Len(frames) : Opens(events, frames[f], opened[f])
  /\ \A f \in 1 .. Len(frames) - 1 : Passing(events, frames[f], opened[f], opened[f + 1] - 1)

NestedIn(events, frames, complete, at) ==
  /\ at \in 0 .. Len(events)
  /\ \E opened : /\ Chain(events, frames, opened)
                 /\ frames # << >> => Between(events, Top(frames), Top(opened), at)
  /\ frames = << >> => IF complete THEN at >= 1 /\ ValueEnds(events)[1] = at + 1 ELSE at = 0

(* What is known before a value at the event after this: it is a child of  *)
(* the last frame, or the root.                                            *)
Ready(events, frames, at, opened) ==
  /\ Chain(events, frames, opened)
  /\ frames = << >> => at = 0
  /\ frames # << >> => Passing(events, Top(frames), Top(opened), at)

(* The same frames, but for the bookkeeping of the last. *)
Moved(frames, more, pending, completed) ==
  /\ IsSeq(more) /\ Len(more) = Len(frames) /\ more # << >>
  /\ \A f \in 1 .. Len(frames) - 1 : more[f] = frames[f]
  /\ IsFrame(Top(more)) /\ Top(more).kind = Top(frames).kind /\ Top(more).count = Top(frames).count
  /\ Top(more).pending = pending /\ Top(more).completed = completed

LEMMA ReplacedTop ==
  ASSUME NEW frames, IsSeq(frames), frames # << >>, \A f \in 1 .. Len(frames) : IsFrame(frames[f]),
         NEW frame, IsFrame(frame), frame.kind = Top(frames).kind, frame.count = Top(frames).count
  PROVE  Moved(frames, Append(Pop(frames), frame), frame.pending, frame.completed)
<1>1. /\ Len(frames) \in Nat \ {0} /\ IsSeq(Pop(frames)) /\ Len(Pop(frames)) = Len(frames) - 1
      /\ \A k \in 1 .. Len(frames) - 1 : Pop(frames)[k] = frames[k]
  BY PopFacts
<1> DEFINE more == Append(Pop(frames), frame)
<1>2. /\ IsSeq(more) /\ Len(more) = Len(Pop(frames)) + 1
      /\ \A k \in 1 .. Len(Pop(frames)) : more[k] = Pop(frames)[k]
      /\ more[Len(Pop(frames)) + 1] = frame
      /\ more # << >>
  BY <1>1, AppendFacts
<1> HIDE DEF more
<1>3. Top(more) = frame  BY <1>1, <1>2 DEF Top
<1>4. \A k \in 1 .. Len(frames) - 1 : more[k] = frames[k]  BY <1>1, <1>2
<1>5. Len(more) = Len(frames)  BY <1>1, <1>2
<1> QED BY <1>2, <1>3, <1>4, <1>5 DEF Moved, more

LEMMA AfterFitting ==
  ASSUME NEW events, NEW ends, NEW i, NEW c, NEW at, at \in i + 1 .. Len(events) - 1,
         events[at].on = "edge", EdgeFits(events[i].kind, c, events[at].edge)
  PROVE  AfterChild(events, ends, i, c, at) = ends[at + 1]
BY DEF AfterChild

(* A value ends: the frame that waits for it has one child more.           *)
LEMMA ChildCounted ==
  ASSUME NEW events, Well(events), NEW frame, NEW start, NEW at, NEW counted,
         IsFrame(frame), IsFrame(counted),
         Opens(events, frame, start), Passing(events, frame, start, at), at + 1 \in 1 .. Len(events),
         counted.kind = frame.kind, counted.count = frame.count, counted.completed = frame.completed + 1
  PROVE  /\ Opens(events, counted, start)
         /\ Reached(events, counted, start) = ValueEnds(events)[at + 1]
<1> DEFINE ends == ValueEnds(events)
           after == ChildEnds(events, ends, start)
<1>1. start \in 1 .. Len(events) /\ events[start].count = frame.count /\ frame.count \in Nat
  BY DEF Opens, IsFrame
<1>2. IsChildEnds(after, events, ends, start)  BY <1>1, ChildEndsFacts
<1>3. /\ frame.completed + 1 \in 1 .. events[start].count /\ frame.completed \in Nat
      /\ after[frame.completed] = at
  BY <1>1 DEF Passing, Reached, IsFrame
<1> HIDE DEF after
<1>6. after[frame.completed + 1] = AfterChild(events, ends, start, frame.completed, at)
  <2>1. events[start].count \in Nat /\ frame.completed + 1 <= events[start].count  BY <1>1, <1>3
  <2>2. after[frame.completed + 1] = AfterChild(events, ends, start, frame.completed, after[frame.completed])
    BY <1>2, <1>3, <2>1, ChildEndsNext
  <2> QED BY <1>3, <2>2
<1>7. Len(events) \in Nat  BY DEF Well, Counted
<1>8. at \in start + 1 .. Len(events) - 1  BY <1>1, <1>7 DEF Passing
<1>9. after[frame.completed + 1] = ends[at + 1]
  <2>1. EdgeFits(events[start].kind, frame.completed, events[at].edge)
    BY DEF Passing, Opens
  <2>2. events[at].on = "edge"
    BY DEF Passing
  <2> HIDE DEF ends
  <2>3. AfterChild(events, ends, start, frame.completed, at) = ends[at + 1]
    BY <1>3, <1>8, <2>1, <2>2, AfterFitting
  <2> QED BY <1>6, <2>3
<1>10. Reached(events, counted, start) = ends[at + 1]  BY <1>9 DEF Reached, after
<1> HIDE DEF ends
<1>11. Opens(events, counted, start)  BY <1>1, <1>3 DEF Opens, IsFrame, Passing
<1> QED BY <1>10, <1>11 DEF ends

(* The value that follows the event at has ended with the event next.      *)
LEMMA ValueCounted ==
  ASSUME NEW events, Well(events), NEW frames, IsSeq(frames), \A f \in 1 .. Len(frames) : IsFrame(frames[f]),
         NEW at \in Nat, NEW next \in 0 .. Len(events), at + 1 <= next, NEW opened,
         Ready(events, frames, at, opened), ValueEnds(events)[at + 1] = next + 1,
         NEW more, NEW complete,
         frames = << >> => more = << >> /\ complete = TRUE,
         frames # << >> => Moved(frames, more, NoEdge, Top(frames).completed + 1)
  PROVE  NestedIn(events, more, complete, next)
<1>0. Len(events) \in Nat  BY DEF Well, Counted
<1>1. CASE frames = << >>
  <2>1. at = 0 /\ more = << >> /\ complete = TRUE /\ Chain(events, << >>, opened)
    BY <1>1 DEF Ready
  <2>2. ValueEnds(events)[1] = next + 1 /\ next >= 1  BY <2>1
  <2> QED BY <1>0, <2>1, <2>2 DEF NestedIn
<1>2. CASE frames # << >>
  <2>1. Moved(frames, more, NoEdge, Top(frames).completed + 1) /\ Chain(events, frames, opened)
        /\ Passing(events, Top(frames), Top(opened), at)
    BY <1>2 DEF Ready
  <2>2. /\ Len(frames) \in Nat \ {0} /\ Len(more) = Len(frames) /\ more # << >>
        /\ Len(opened) = Len(frames) /\ IsFrame(Top(frames)) /\ IsFrame(Top(more))
        /\ Opens(events, Top(frames), Top(opened))
    BY <1>2, <2>1, PopFacts DEF Moved, Chain, Top
  <2>3. at + 1 \in 1 .. Len(events)  BY <1>0
  <2>10. /\ Top(more).kind = Top(frames).kind /\ Top(more).count = Top(frames).count
         /\ Top(more).completed = Top(frames).completed + 1
    BY <2>1 DEF Moved
  <2>11. /\ Opens(events, Top(more), Top(opened))
         /\ Reached(events, Top(more), Top(opened)) = ValueEnds(events)[at + 1]
    BY <2>1, <2>2, <2>3, <2>10, ChildCounted
  <2>4. /\ Opens(events, Top(more), Top(opened))
        /\ Reached(events, Top(more), Top(opened)) = next + 1
    BY <2>11
  <2>5. Top(opened) < at /\ Top(more).pending = NoEdge
    BY <1>0, <2>1, <2>2 DEF Passing, Moved, Opens
  <2>6. Between(events, Top(more), Top(opened), next)
    BY <1>0, <2>2, <2>4, <2>5 DEF Between, Opens
  <2>7. \A f \in 1 .. Len(more) : Opens(events, more[f], opened[f])
    <3>1. SUFFICES ASSUME NEW f \in 1 .. Len(more) PROVE Opens(events, more[f], opened[f])  OBVIOUS
    <3>2. CASE f = Len(more)  BY <2>2, <2>4, <3>2 DEF Top
    <3>3. CASE f # Len(more)
      <4>1. f \in 1 .. Len(frames) - 1  BY <2>2, <3>3
      <4>2. more[f] = frames[f]  BY <2>1, <4>1 DEF Moved
      <4> QED BY <2>1, <2>2, <4>1, <4>2 DEF Chain
    <3> QED BY <3>2, <3>3
  <2>8. \A f \in 1 .. Len(more) - 1 : Passing(events, more[f], opened[f], opened[f + 1] - 1)
    BY <2>1, <2>2 DEF Moved, Chain
  <2>9. Chain(events, more, opened)
    BY <1>2, <2>1, <2>2, <2>7, <2>8 DEF Chain
  <2> QED BY <2>2, <2>6, <2>9 DEF NestedIn
<1> QED BY <1>1, <1>2

(* An aggregate starts. *)
LEMMA FrameOpened ==
  ASSUME NEW events, Well(events), NEW frames, IsSeq(frames), \A f \in 1 .. Len(frames) : IsFrame(frames[f]),
         NEW at \in Nat, at + 1 \in 1 .. Len(events), NEW opened, Ready(events, frames, at, opened),
         events[at + 1].on = "enter", NEW frame, IsFrame(frame),
         frame.kind = events[at + 1].kind, frame.count = events[at + 1].count,
         frame.completed = 0, frame.pending = NoEdge, NEW complete
  PROVE  NestedIn(events, Append(frames, frame), complete, at + 1)
<1>0. Len(events) \in Nat  BY DEF Well, Counted
<1> DEFINE more == Append(frames, frame)
           starts == Append(opened, at + 1)
<1>1. /\ IsSeq(more) /\ Len(more) = Len(frames) + 1 /\ more # << >>
      /\ \A k \in 1 .. Len(frames) : more[k] = frames[k]
      /\ more[Len(frames) + 1] = frame
  BY AppendFacts
<1>2. Chain(events, frames, opened) /\ IsSeq(opened) /\ Len(opened) = Len(frames)  BY DEF Ready, Chain
<1>3. /\ IsSeq(starts) /\ Len(starts) = Len(frames) + 1
      /\ \A k \in 1 .. Len(frames) : starts[k] = opened[k]
      /\ starts[Len(frames) + 1] = at + 1
  BY <1>2, AppendFacts
<1> HIDE DEF more, starts
<1>4. Len(frames) \in Nat /\ (frames = << >> <=> Len(frames) = 0)  BY NonEmptyLen DEF IsSeq
<1>5. Opens(events, frame, at + 1)  BY DEF Opens, IsFrame
<1>6. \A f \in 1 .. Len(more) : Opens(events, more[f], starts[f])
  <2>1. SUFFICES ASSUME NEW f \in 1 .. Len(more) PROVE Opens(events, more[f], starts[f])  OBVIOUS
  <2>2. CASE f = Len(frames) + 1  BY <1>1, <1>3, <1>5, <2>2
  <2>3. CASE f # Len(frames) + 1
    <3>1. f \in 1 .. Len(frames)  BY <1>1, <1>4, <2>3
    <3>2. more[f] = frames[f] /\ starts[f] = opened[f]  BY <1>1, <1>3, <3>1
    <3> QED BY <1>2, <3>1, <3>2 DEF Chain
  <2> QED BY <2>2, <2>3
<1>7. \A f \in 1 .. Len(more) - 1 : Passing(events, more[f], starts[f], starts[f + 1] - 1)
  <2>1. SUFFICES ASSUME NEW f \in 1 .. Len(frames) PROVE Passing(events, more[f], starts[f], starts[f + 1] - 1)
    BY <1>1, <1>4
  <2>2. more[f] = frames[f] /\ starts[f] = opened[f]  BY <1>1, <1>3
  <2>3. CASE f = Len(frames)
    <3>1. starts[f + 1] - 1 = at  BY <1>3, <2>3
    <3>2. Passing(events, frames[f], opened[f], at)  BY <1>2, <1>4, <2>3 DEF Ready, Top
    <3> QED BY <2>2, <3>1, <3>2
  <2>4. CASE f # Len(frames)
    <3>1. f \in 1 .. Len(frames) - 1 /\ f + 1 \in 1 .. Len(frames)  BY <1>4, <2>4
    <3>2. starts[f + 1] = opened[f + 1]  BY <1>3, <3>1
    <3> QED BY <1>2, <2>2, <3>1, <3>2 DEF Chain
  <2> QED BY <2>3, <2>4
<1>8. starts[1] = 1
  <2>1. CASE frames = << >>  BY <1>3, <1>4, <2>1 DEF Ready
  <2>2. CASE frames # << >>  BY <1>2, <1>3, <1>4, <2>2 DEF Chain
  <2> QED BY <2>1, <2>2
<1>9. Chain(events, more, starts)  BY <1>1, <1>3, <1>6, <1>7, <1>8 DEF Chain
<1>10. Top(more) = frame /\ Top(starts) = at + 1  BY <1>1, <1>3 DEF Top
<1>11. Reached(events, frame, at + 1) = at + 2
  <2>1. IsChildEnds(ChildEnds(events, ValueEnds(events), at + 1), events, ValueEnds(events), at + 1)
    BY ChildEndsFacts DEF IsFrame
  <2>2. 0 \in 0 .. events[at + 1].count  BY DEF IsFrame
  <2>3. ChildEnds(events, ValueEnds(events), at + 1)[0] = (at + 1) + 1  BY <2>1, <2>2 DEF IsChildEnds
  <2> QED BY <2>3 DEF Reached
<1>12. Between(events, Top(more), Top(starts), at + 1)  BY <1>10, <1>11 DEF Between
<1>13. at + 1 \in 0 .. Len(events)  BY <1>0
<1> QED BY <1>1, <1>9, <1>12, <1>13 DEF NestedIn, more

(* The last aggregate ends with the exit after the event at. *)
LEMMA FrameClosed ==
  ASSUME NEW events, Well(events), NEW frames, IsSeq(frames), \A f \in 1 .. Len(frames) : IsFrame(frames[f]),
         frames # << >>, NEW at \in Nat, at + 1 \in 1 .. Len(events), NEW opened, Chain(events, frames, opened),
         Between(events, Top(frames), Top(opened), at),
         Top(frames).pending = NoEdge, Top(frames).completed = Top(frames).count,
         events[at + 1].on = "exit", events[at + 1].kind = Top(frames).kind
  PROVE  \E start \in 1 .. at :
           /\ ValueEnds(events)[start] = at + 2
           /\ Ready(events, Pop(frames), start - 1, Pop(opened))
<1>0. Len(events) \in Nat  BY DEF Well, Counted
<1> DEFINE start == Top(opened)
           frame == Top(frames)
<1>1. /\ Len(frames) \in Nat \ {0} /\ IsSeq(Pop(frames)) /\ Len(Pop(frames)) = Len(frames) - 1
      /\ \A k \in 1 .. Len(frames) - 1 : Pop(frames)[k] = frames[k]
  BY PopFacts
<1>2. IsSeq(opened) /\ Len(opened) = Len(frames)  BY DEF Chain
<1>3. opened # << >>  BY <1>1, <1>2, NonEmptyLen
<1>4. /\ IsSeq(Pop(opened)) /\ Len(Pop(opened)) = Len(frames) - 1
      /\ \A k \in 1 .. Len(frames) - 1 : Pop(opened)[k] = opened[k]
  BY <1>2, <1>3, PopFacts
<1>5. Opens(events, frame, start) /\ IsFrame(frame)  BY <1>1, <1>2 DEF Chain, Top
<1>6. start \in 1 .. at  BY <1>5 DEF Between, Opens
<1>7. ValueEnds(events)[start] = at + 2
  <2>1. Reached(events, frame, start) = at + 1  BY DEF Between
  <2>2. ChildEnds(events, ValueEnds(events), start)[events[start].count] = at + 1
    BY <1>5, <2>1 DEF Reached, Opens
  <2>3. start \in 1 .. Len(events) /\ events[start].on = "enter" /\ events[start].kind = frame.kind
    BY <1>5 DEF Opens
  <2>4. ValueEnds(events)[start] = ValueEnd(events, ValueEnds(events), start)
    <3> HIDE DEF start
    <3>1. ValueEnds(events) = [i \in 1 .. Len(events) |-> ValueEnd(events, ValueEnds(events), i)]
      BY ValueEndsFacts DEF Well
    <3> QED BY <2>3, <3>1
  <2>5. ValueEnd(events, ValueEnds(events), start) = (at + 1) + 1
    <3> HIDE DEF start, frame
    <3> QED BY <2>2, <2>3 DEF ValueEnd, frame
  <2> QED BY <2>4, <2>5
<1>8. Pop(frames) = << >> <=> Len(frames) = 1  BY <1>1, NonEmptyLen
<1>9. Chain(events, Pop(frames), Pop(opened))
  <2>1. \A f \in 1 .. Len(Pop(frames)) : Opens(events, Pop(frames)[f], Pop(opened)[f])
    BY <1>1, <1>4 DEF Chain
  <2>2. ASSUME NEW f \in 1 .. Len(Pop(frames)) - 1
        PROVE  Passing(events, Pop(frames)[f], Pop(opened)[f], Pop(opened)[f + 1] - 1)
    <3>1. f \in 1 .. Len(frames) - 1 /\ f + 1 \in 1 .. Len(frames) - 1  BY <1>1
    <3>2. Pop(frames)[f] = frames[f] /\ Pop(opened)[f] = opened[f] /\ Pop(opened)[f + 1] = opened[f + 1]
      BY <1>1, <1>4, <3>1
    <3> QED BY <3>1, <3>2 DEF Chain
  <2>3. Pop(frames) # << >> => Pop(opened)[1] = 1
    <3>1. Pop(frames) # << >> => 1 \in 1 .. Len(frames) - 1  BY <1>1, <1>8
    <3> QED BY <1>4, <3>1 DEF Chain
  <2> QED BY <1>1, <1>4, <2>1, <2>2, <2>3 DEF Chain
<1>10. Pop(frames) = << >> => start - 1 = 0  BY <1>1, <1>2, <1>8 DEF Chain, Top
<1>11. Pop(frames) # << >> => Passing(events, Top(Pop(frames)), Top(Pop(opened)), start - 1)
  <2>1. HAVE Pop(frames) # << >>
  <2>2. Len(frames) - 1 \in 1 .. Len(frames) - 1  BY <1>1, <1>8, <2>1
  <2>3. Passing(events, frames[Len(frames) - 1], opened[Len(frames) - 1], opened[Len(frames) - 1 + 1] - 1)
    BY <2>2 DEF Chain
  <2>4. Len(frames) - 1 + 1 = Len(frames)  BY <1>1
  <2> QED BY <1>1, <1>2, <1>4, <2>2, <2>3, <2>4 DEF Top
<1> QED BY <1>6, <1>7, <1>9, <1>10, <1>11 DEF Ready

-----------------------------------------------------------------------------
(* What the parts of a step do to the frames. *)
LEMMA ChainMoved ==
  ASSUME NEW events, NEW frames, IsSeq(frames), frames # << >>, NEW opened, Chain(events, frames, opened),
         NEW more, NEW pending, Moved(frames, more, pending, Top(frames).completed)
  PROVE  Chain(events, more, opened)
<1>1. Len(frames) \in Nat \ {0} /\ Len(more) = Len(frames) /\ more # << >>  BY PopFacts DEF Moved
<1>2. \A f \in 1 .. Len(frames) - 1 : more[f] = frames[f]  BY DEF Moved
<1>3. Opens(events, Top(frames), Top(opened))  BY <1>1 DEF Chain, Top
<1>4. Opens(events, Top(more), Top(opened))  BY <1>3 DEF Opens, Moved
<1>5. \A f \in 1 .. Len(more) : Opens(events, more[f], opened[f])
  <2>1. SUFFICES ASSUME NEW f \in 1 .. Len(more) PROVE Opens(events, more[f], opened[f])  OBVIOUS
  <2>2. CASE f = Len(more)  BY <1>1, <1>4, <2>2 DEF Top, Chain
  <2>3. CASE f # Len(more)
    <3>1. f \in 1 .. Len(frames) - 1  BY <1>1, <2>3
    <3> QED BY <1>1, <1>2, <3>1 DEF Chain
  <2> QED BY <2>2, <2>3
<1>6. \A f \in 1 .. Len(more) - 1 : Passing(events, more[f], opened[f], opened[f + 1] - 1)
  BY <1>1, <1>2 DEF Chain
<1> QED BY <1>1, <1>5, <1>6 DEF Chain

LEMMA MovedFrames ==
  ASSUME NEW frames, IsSeq(frames), frames # << >>, \A f \in 1 .. Len(frames) : IsFrame(frames[f]),
         NEW more, NEW pending, NEW completed, Moved(frames, more, pending, completed)
  PROVE  IsSeq(more) /\ \A f \in 1 .. Len(more) : IsFrame(more[f])
<1>1. Len(frames) \in Nat \ {0} /\ Len(more) = Len(frames)  BY PopFacts DEF Moved
<1>2. SUFFICES ASSUME NEW f \in 1 .. Len(more) PROVE IsFrame(more[f])  BY DEF Moved
<1>3. CASE f = Len(more)  BY <1>3 DEF Moved, Top
<1>4. CASE f # Len(more)  BY <1>1, <1>4 DEF Moved
<1> QED BY <1>3, <1>4

LEMMA PrepareErrors ==
  ASSUME NEW isString
  PROVE  PrepareValue(isString).error \in {"fine", "projection", "limit", "unsupported"}
BY DEF PrepareValue

LEMMA CountErrors ==
  ASSUME NEW kind, NEW count
  PROVE  CountError(kind, count) \in {"fine", "projection", "limit"}
BY DEF CountError

LEMMA TopIsFrame ==
  ASSUME NEW v, IsWriter(v), v.frames # << >>
  PROVE  IsFrame(Top(v.frames)) /\ Len(v.frames) \in Nat \ {0}
BY PopFacts DEF IsWriter, Top

LEMMA RootPrepare ==
  ASSUME NEW isString, w.frames = << >>, PrepareValue(isString).error = "fine"
  PROVE  ~w.rootComplete /\ PrepareValue(isString).w = w
BY DEF PrepareValue

LEMMA ChildPrepare ==
  ASSUME NEW isString, IsWriter(w), w.frames # << >>, PrepareValue(isString).error = "fine"
  PROVE  LET frame == Top(w.frames)
             v == PrepareValue(isString).w
         IN  /\ frame.pending # NoEdge /\ EdgeFits(frame.kind, frame.completed, frame.pending)
             /\ DOMAIN v = DOMAIN w /\ v.rootComplete = w.rootComplete
             /\ \E emitted :
                  v.frames = Append(Pop(w.frames), [frame EXCEPT !.pending = NoEdge, !.emitted = emitted])
<1>1. Top(w.frames).pending # NoEdge  BY DEF PrepareValue
<1>2. EdgeFits(Top(w.frames).kind, Top(w.frames).completed, Top(w.frames).pending)  BY <1>1 DEF PrepareValue
<1>4. /\ DOMAIN PrepareValue(isString).w = DOMAIN w
      /\ PrepareValue(isString).w.rootComplete = w.rootComplete
  BY <1>1 DEF PrepareValue, IsWriter
<1>5. \E emitted :
        PrepareValue(isString).w.frames =
          Append(Pop(w.frames), [Top(w.frames) EXCEPT !.pending = NoEdge, !.emitted = emitted])
  BY <1>1 DEF PrepareValue, IsWriter
<1> QED BY <1>1, <1>2, <1>4, <1>5

LEMMA Prepared ==
  ASSUME NEW isString, IsWriter(w), w.frames # << >>, PrepareValue(isString).error = "fine"
  PROVE  LET v == PrepareValue(isString).w
         IN  /\ IsWriter(v) /\ v.rootComplete = w.rootComplete
             /\ Moved(w.frames, v.frames, NoEdge, Top(w.frames).completed)
<1> DEFINE frame == Top(w.frames)
           v == PrepareValue(isString).w
<1>1. PICK emitted :
        /\ DOMAIN v = DOMAIN w /\ v.rootComplete = w.rootComplete
        /\ v.frames = Append(Pop(w.frames), [frame EXCEPT !.pending = NoEdge, !.emitted = emitted])
  BY ChildPrepare
<1> DEFINE handed == [frame EXCEPT !.pending = NoEdge, !.emitted = emitted]
<1>2. IsFrame(frame)  BY TopIsFrame
<1>3. /\ IsFrame(handed) /\ handed.kind = frame.kind /\ handed.count = frame.count
      /\ handed.pending = NoEdge /\ handed.completed = frame.completed
  BY <1>2 DEF IsFrame
<1> HIDE DEF frame, handed
<1>4. /\ DOMAIN v = DOMAIN w /\ v.rootComplete = w.rootComplete
      /\ v.frames = Append(Pop(w.frames), handed)
  BY <1>1 DEF IsWriter, handed
<1>5. Moved(w.frames, v.frames, NoEdge, frame.completed)
  <2>1. IsSeq(w.frames) /\ \A f \in 1 .. Len(w.frames) : IsFrame(w.frames[f])  BY DEF IsWriter
  <2>2. Moved(w.frames, Append(Pop(w.frames), handed), handed.pending, handed.completed)
    BY <1>3, <2>1, ReplacedTop DEF frame
  <2> QED BY <1>3, <1>4, <2>2
<1>6. IsWriter(v)
  <2>1. IsSeq(v.frames) /\ \A f \in 1 .. Len(v.frames) : IsFrame(v.frames[f])
    BY <1>5, MovedFrames DEF IsWriter
  <2> QED BY <1>4, <2>1 DEF IsWriter
<1> QED BY <1>4, <1>5, <1>6 DEF frame

LEMMA WroteFacts ==
  ASSUME NEW v, IsWriter(v), NEW prepared, NEW tokens
  PROVE  /\ IsWriter(Wrote(v, prepared, tokens))
         /\ Wrote(v, prepared, tokens).frames = v.frames
         /\ Wrote(v, prepared, tokens).rootComplete = v.rootComplete
BY DEF Wrote, IsWriter

LEMMA Completed ==
  ASSUME NEW v, IsWriter(v), NEW prepared, NEW isNone
  PROVE  LET c == CompleteValue(v, prepared, isNone)
         IN  /\ IsWriter(c)
             /\ v.frames = << >> => c.frames = << >> /\ c.rootComplete = TRUE
             /\ v.frames # << >> =>
                  /\ c.rootComplete = v.rootComplete
                  /\ Moved(v.frames, c.frames, Top(v.frames).pending, Top(v.frames).completed + 1)
<1> DEFINE c == CompleteValue(v, prepared, isNone)
           frame == Top(v.frames)
<1>1. DOMAIN c = DOMAIN v  BY DEF CompleteValue
<1>2. c.rootComplete = (v.rootComplete \/ v.frames = << >>)  BY DEF CompleteValue, IsWriter
<1>3. CASE v.frames = << >>
  <2>1. c.frames = << >>  BY <1>3 DEF CompleteValue, IsWriter
  <2> QED BY <1>1, <1>2, <1>3, <2>1, EmptyIsSeq DEF IsWriter
<1>4. CASE v.frames # << >>
  <2>1. PICK emitted :
          c.frames = Append(Pop(v.frames), [frame EXCEPT !.completed = @ + 1, !.emitted = emitted])
    BY <1>4 DEF CompleteValue, IsWriter
  <2> DEFINE counted == [frame EXCEPT !.completed = @ + 1, !.emitted = emitted]
  <2>2. IsFrame(frame)  BY <1>4, TopIsFrame
  <2> HIDE DEF frame, c
  <2>3. /\ IsFrame(counted) /\ counted.kind = frame.kind /\ counted.count = frame.count
        /\ counted.pending = frame.pending /\ counted.completed = frame.completed + 1
    BY <2>2 DEF IsFrame
  <2> HIDE DEF counted
  <2>4. Moved(v.frames, c.frames, frame.pending, frame.completed + 1)
    <3>1. IsSeq(v.frames) /\ \A f \in 1 .. Len(v.frames) : IsFrame(v.frames[f])  BY DEF IsWriter
    <3>2. Moved(v.frames, Append(Pop(v.frames), counted), counted.pending, counted.completed)
      BY <1>4, <2>3, <3>1, ReplacedTop DEF frame
    <3> QED BY <2>1, <2>3, <3>2 DEF counted
  <2>5. IsSeq(c.frames) /\ \A f \in 1 .. Len(c.frames) : IsFrame(c.frames[f])
    BY <1>4, <2>4, MovedFrames DEF IsWriter
  <2>6. IsWriter(c)  BY <1>1, <1>2, <2>5 DEF IsWriter
  <2> QED BY <1>2, <1>4, <2>4, <2>6 DEF frame, c, IsWriter
<1> QED BY <1>3, <1>4

-----------------------------------------------------------------------------
(* The inductive invariant: the frames lie in the events as a projection   *)
(* nests, whatever the events are, and the writer is done only at the end. *)
Following ==
  /\ dump \in Dumps
  /\ IsWriter(w)
  /\ NestedIn(dump.events, w.frames, w.rootComplete, pos)

EndsComplete ==
  (status = "done" /\ ~IsRoot) =>
    w.frames = << >> /\ w.rootComplete /\ pos = Len(dump.events)

WriterInv == Following /\ EndsComplete

LEMMA InitFollows == Init => WriterInv
<1> SUFFICES ASSUME Init PROVE WriterInv  OBVIOUS
<1>1. dump \in Dumps /\ Well(dump.events)  BY DumpIsWell DEF Init
<1>2. w.frames = << >> /\ w.rootComplete = FALSE /\ IsWriter(w)  BY EmptyIsSeq DEF Init, IsWriter
<1>3. Chain(dump.events, << >>, << >>)  BY EmptyIsSeq DEF Chain
<1>4. pos = 0 /\ pos \in 0 .. Len(dump.events)  BY <1>1 DEF Init, Well, Counted
<1>5. NestedIn(dump.events, w.frames, w.rootComplete, pos)  BY <1>2, <1>3, <1>4 DEF NestedIn
<1>6. EndsComplete  BY DEF Init, EndsComplete
<1> QED BY <1>1, <1>2, <1>5, <1>6 DEF WriterInv, Following

(* An error leaves the writer as it is. *)
LEMMA FailFollows ==
  ASSUME WriterInv, NEW error, error # "done", Fail(error)
  PROVE  WriterInv'
BY DEF WriterInv, Following, EndsComplete, Fail, IsRoot

(* A step that is made keeps the invariant if it keeps the nesting.        *)
LEMMA StepFollows ==
  ASSUME WriterInv, status = "writing", NEW v, IsWriter(v),
         NestedIn(dump.events, v.frames, v.rootComplete, pos + 1),
         w' = v, pos' = pos + 1, UNCHANGED <<dump, plan, status>>
  PROVE  WriterInv'
BY DEF WriterInv, Following, EndsComplete

LEMMA WriteFollows ==
  ASSUME WriterInv, status = "writing", NEW v, IsWriter(v),
         NestedIn(dump.events, v.frames, v.rootComplete, pos + 1), Write(v)
  PROVE  WriterInv'
<1>1. CASE Len(v.output) > MaxOutput  BY <1>1, FailFollows DEF Write
<1>2. CASE ~(Len(v.output) > MaxOutput)  BY <1>2, StepFollows DEF Write
<1> QED BY <1>1, <1>2

(* The next event is there. *)
LEMMA EventAt ==
  ASSUME WriterInv, pos < Len(dump.events)
  PROVE  /\ Well(dump.events) /\ Len(dump.events) \in Nat /\ pos \in Nat
         /\ pos + 1 \in 1 .. Len(dump.events) /\ Event \in Events
<1>1. Well(dump.events) /\ Len(dump.events) \in Nat  BY DumpIsWell DEF WriterInv, Following, Well, Counted
<1>2. pos \in 0 .. Len(dump.events)  BY DEF WriterInv, Following, NestedIn
<1>3. pos + 1 \in 1 .. Len(dump.events)  BY <1>1, <1>2
<1>4. dump.events[pos + 1] \in Events  BY <1>1, <1>3, ElementOfSeq DEF Well
<1> QED BY <1>1, <1>2, <1>3, <1>4 DEF Event

(* The value of the next event may begin. *)
LEMMA PreparedReady ==
  ASSUME WriterInv, pos < Len(dump.events), NEW isString, PrepareValue(isString).error = "fine"
  PROVE  LET v == PrepareValue(isString).w
         IN  /\ IsWriter(v) /\ v.rootComplete = w.rootComplete
             /\ v.frames # << >> => Top(v.frames).pending = NoEdge
             /\ \E opened : Ready(dump.events, v.frames, pos, opened)
<1> DEFINE v == PrepareValue(isString).w
           frame == Top(w.frames)
<1>1. IsWriter(w) /\ NestedIn(dump.events, w.frames, w.rootComplete, pos)  BY DEF WriterInv, Following
<1>2. PICK opened : /\ Chain(dump.events, w.frames, opened)
                    /\ w.frames # << >> => Between(dump.events, Top(w.frames), Top(opened), pos)
  BY <1>1 DEF NestedIn
<1>3. CASE w.frames = << >>
  <2>1. v = w /\ ~w.rootComplete  BY <1>3, RootPrepare
  <2>2. pos = 0  BY <1>1, <1>3, <2>1 DEF NestedIn
  <2>3. Ready(dump.events, w.frames, pos, opened)  BY <1>2, <1>3, <2>2 DEF Ready
  <2> QED BY <1>1, <1>3, <2>1, <2>3
<1>4. CASE w.frames # << >>
  <2>1. /\ IsWriter(v) /\ v.rootComplete = w.rootComplete
        /\ Moved(w.frames, v.frames, NoEdge, frame.completed)
    BY <1>1, <1>4, Prepared
  <2>2. frame.pending # NoEdge /\ EdgeFits(frame.kind, frame.completed, frame.pending)
    BY <1>1, <1>4, ChildPrepare
  <2>3. Chain(dump.events, v.frames, opened)
    BY <1>1, <1>2, <1>4, <2>1, ChainMoved DEF IsWriter
  <2>4. /\ frame.completed < frame.count /\ Reached(dump.events, frame, Top(opened)) = pos
        /\ pos \in Top(opened) + 1 .. Len(dump.events)
        /\ dump.events[pos].on = "edge" /\ dump.events[pos].edge = frame.pending
    BY <1>2, <1>4, <2>2 DEF Between
  <2> HIDE DEF v, frame
  <2>5. /\ Top(v.frames).kind = frame.kind /\ Top(v.frames).count = frame.count
        /\ Top(v.frames).completed = frame.completed /\ Top(v.frames).pending = NoEdge
        /\ v.frames # << >>
    BY <2>1 DEF Moved, frame
  <2>6. Reached(dump.events, Top(v.frames), Top(opened)) = pos  BY <2>4, <2>5 DEF Reached
  <2>7. EdgeFits(Top(v.frames).kind, Top(v.frames).completed, dump.events[pos].edge)
    BY <2>2, <2>4, <2>5, Zenon
  <2>8. Passing(dump.events, Top(v.frames), Top(opened), pos)
    BY <2>4, <2>5, <2>6, <2>7 DEF Passing
  <2>9. Ready(dump.events, v.frames, pos, opened)  BY <2>3, <2>5, <2>8 DEF Ready
  <2> QED BY <2>1, <2>5, <2>9 DEF v
<1> QED BY <1>3, <1>4

LEMMA EnterFollows == WriterInv /\ Enter => WriterInv'
<1> SUFFICES ASSUME WriterInv, Enter PROVE WriterInv'  OBVIOUS
<1> DEFINE p == PrepareValue(FALSE)
           counted == CountError(Event.kind, Event.count)
           frame == [kind |-> Event.kind, count |-> Event.count, completed |-> 0, emitted |-> 0,
                     pending |-> NoEdge, prepared |-> p.prepared]
           v == Wrote(p.w, p.prepared, Opening(Event.kind))
           made == [v EXCEPT !.nodes = @ + 1, !.frames = Append(@, frame)]
<1>1. status = "writing" /\ pos < Len(dump.events) /\ Event.on = "enter"  BY DEF Enter, Offered
<1>2. CASE p.error # "fine"
  <2>1. Fail(p.error)  BY <1>2 DEF Enter
  <2> QED BY <2>1, PrepareErrors, FailFollows
<1>3. CASE p.error = "fine" /\ (p.w.nodes >= MaxNodes \/ Len(p.w.frames) > MaxDepth)
  <2>1. Fail("limit")  BY <1>3 DEF Enter
  <2> QED BY <2>1, FailFollows
<1>4. CASE p.error = "fine" /\ ~(p.w.nodes >= MaxNodes \/ Len(p.w.frames) > MaxDepth) /\ counted # "fine"
  <2>1. Fail(counted)  BY <1>4 DEF Enter
  <2>2. counted # "done"  BY CountErrors
  <2> HIDE DEF counted
  <2> QED BY <2>1, <2>2, FailFollows
<1>5. CASE p.error = "fine" /\ ~(p.w.nodes >= MaxNodes \/ Len(p.w.frames) > MaxDepth) /\ counted = "fine"
  <2>1. Write(made)  BY <1>5 DEF Enter
  <2>2. PICK opened : Ready(dump.events, p.w.frames, pos, opened)  BY <1>1, <1>5, PreparedReady
  <2>3. IsWriter(p.w) /\ p.w.rootComplete = w.rootComplete  BY <1>1, <1>5, PreparedReady
  <2>4. /\ Well(dump.events) /\ Len(dump.events) \in Nat /\ pos \in Nat
        /\ pos + 1 \in 1 .. Len(dump.events) /\ Event \in Events
    BY <1>1, EventAt
  <2>5. Event.count \in Nat  BY <1>1, <2>4 DEF Events
  <2>6. IsFrame(frame) /\ frame.kind = Event.kind /\ frame.count = Event.count
        /\ frame.completed = 0 /\ frame.pending = NoEdge
    BY <2>5 DEF IsFrame
  <2> HIDE DEF p, frame
  <2>7. IsWriter(v) /\ v.frames = p.w.frames  BY <2>3, WroteFacts
  <2> HIDE DEF v
  <2>8. NestedIn(dump.events, Append(v.frames, frame), v.rootComplete, pos + 1)
    BY <1>1, <2>2, <2>3, <2>4, <2>6, <2>7, FrameOpened DEF IsWriter, Event
  <2>9. DOMAIN made = DOMAIN v /\ made.frames = Append(v.frames, frame) /\ made.rootComplete = v.rootComplete
    BY <2>7 DEF IsWriter
  <2> HIDE DEF made
  <2>10. IsWriter(made)
    <3>1. /\ IsSeq(made.frames) /\ Len(made.frames) = Len(v.frames) + 1
          /\ \A k \in 1 .. Len(v.frames) : made.frames[k] = v.frames[k]
          /\ made.frames[Len(v.frames) + 1] = frame
      BY <2>7, <2>9, AppendFacts DEF IsWriter
    <3>2. Len(v.frames) \in Nat  BY <2>7 DEF IsWriter, IsSeq
    <3>3. \A k \in 1 .. Len(made.frames) : IsFrame(made.frames[k])
      <4>1. SUFFICES ASSUME NEW k \in 1 .. Len(v.frames) + 1 PROVE IsFrame(made.frames[k])  BY <3>1
      <4>2. CASE k = Len(v.frames) + 1  BY <2>6, <3>1, <4>2
      <4>3. CASE k \in 1 .. Len(v.frames)  BY <2>7, <3>1, <4>3 DEF IsWriter
      <4> QED BY <3>2, <4>2, <4>3
    <3> QED BY <2>7, <2>9, <3>1, <3>3 DEF IsWriter
  <2> QED BY <1>1, <2>1, <2>8, <2>9, <2>10, WriteFollows
<1> QED BY <1>2, <1>3, <1>4, <1>5

LEMMA EdgeFollows == WriterInv /\ Edge => WriterInv'
<1> SUFFICES ASSUME WriterInv, Edge PROVE WriterInv'  OBVIOUS
<1>1. status = "writing" /\ pos < Len(dump.events) /\ Event.on = "edge"  BY DEF Edge, Offered
<1> DEFINE frame == Top(w.frames)
<1>2. CASE w.frames = << >>
  <2>1. Fail("projection")  BY <1>2 DEF Edge
  <2> QED BY <2>1, FailFollows
<1>3. CASE w.frames # << >> /\ (frame.completed >= frame.count \/ frame.pending # NoEdge)
  <2>1. Fail("projection")  BY <1>3 DEF Edge
  <2> QED BY <2>1, FailFollows
<1>4. CASE w.frames # << >> /\ ~(frame.completed >= frame.count \/ frame.pending # NoEdge)
  <2> DEFINE asked == [frame EXCEPT !.pending = Event.edge]
             made == [w EXCEPT !.frames = Append(Pop(@), asked)]
  <2>1. w' = made /\ pos' = pos + 1 /\ UNCHANGED <<dump, plan, status>>  BY <1>4 DEF Edge
  <2>2. IsWriter(w) /\ NestedIn(dump.events, w.frames, w.rootComplete, pos)  BY DEF WriterInv, Following
  <2>3. IsFrame(frame) /\ frame.completed < frame.count /\ frame.pending = NoEdge
    <3>1. IsFrame(frame)  BY <1>4, <2>2, TopIsFrame
    <3> QED BY <1>4, <3>1 DEF IsFrame
  <2>4. /\ Well(dump.events) /\ Len(dump.events) \in Nat /\ pos \in Nat
        /\ pos + 1 \in 1 .. Len(dump.events) /\ Event \in Events
    BY <1>1, EventAt
  <2>5. Event.edge # NoEdge
    <3>1. Event.edge \in Edges  BY <1>1, <2>4 DEF Events
    <3> QED BY <3>1 DEF Edges, NoEdge
  <2> HIDE DEF frame
  <2>6. /\ IsFrame(asked) /\ asked.kind = frame.kind /\ asked.count = frame.count
        /\ asked.pending = Event.edge /\ asked.completed = frame.completed
    BY <2>3 DEF IsFrame
  <2>7. DOMAIN made = DOMAIN w /\ made.rootComplete = w.rootComplete /\ made.frames = Append(Pop(w.frames), asked)
    BY <2>2 DEF IsWriter
  <2> HIDE DEF asked, made
  <2>8. IsSeq(w.frames) /\ \A f \in 1 .. Len(w.frames) : IsFrame(w.frames[f])  BY <2>2 DEF IsWriter
  <2>9. Moved(w.frames, made.frames, Event.edge, frame.completed)
    <3>1. Moved(w.frames, Append(Pop(w.frames), asked), asked.pending, asked.completed)
      BY <1>4, <2>6, <2>8, ReplacedTop DEF frame
    <3> QED BY <2>6, <2>7, <3>1
  <2>10. IsWriter(made)
    <3>1. IsSeq(made.frames) /\ \A f \in 1 .. Len(made.frames) : IsFrame(made.frames[f])
      BY <1>4, <2>8, <2>9, MovedFrames
    <3> QED BY <2>2, <2>7, <3>1 DEF IsWriter
  <2>11. PICK opened : /\ Chain(dump.events, w.frames, opened)
                       /\ Between(dump.events, frame, Top(opened), pos)
    BY <1>4, <2>2 DEF NestedIn, frame
  <2>12. Chain(dump.events, made.frames, opened)
    BY <1>4, <2>8, <2>9, <2>11, ChainMoved DEF frame
  <2>13. /\ Top(made.frames).kind = frame.kind /\ Top(made.frames).count = frame.count
         /\ Top(made.frames).completed = frame.completed /\ Top(made.frames).pending = Event.edge
         /\ made.frames # << >>
    BY <2>9 DEF Moved, frame
  <2>14. Top(opened) \in Nat
    <3>1. Len(w.frames) \in Nat \ {0}  BY <1>4, <2>2, TopIsFrame
    <3>2. Opens(dump.events, frame, Top(opened))  BY <2>11, <3>1 DEF Chain, Top, frame
    <3> QED BY <3>2 DEF Opens
  <2>15. Reached(dump.events, frame, Top(opened)) = pos + 1 /\ Top(opened) <= pos
    BY <2>3, <2>11 DEF Between
  <2>16. Reached(dump.events, Top(made.frames), Top(opened)) = pos + 1  BY <2>13, <2>15 DEF Reached
  <2>17. Between(dump.events, Top(made.frames), Top(opened), pos + 1)
    BY <1>1, <2>3, <2>4, <2>5, <2>13, <2>14, <2>15, <2>16 DEF Between, Event
  <2>18. NestedIn(dump.events, made.frames, made.rootComplete, pos + 1)
    BY <2>4, <2>12, <2>13, <2>17 DEF NestedIn
  <2> QED BY <1>1, <2>1, <2>10, <2>18, StepFollows
<1> QED BY <1>2, <1>3, <1>4

LEMMA VisitScalarFollows == WriterInv /\ VisitScalar => WriterInv'
<1> SUFFICES ASSUME WriterInv, VisitScalar PROVE WriterInv'  OBVIOUS
<1> DEFINE p == PrepareValue(IsText(Event.scalar))
           strings == p.w.strings + (IF IsText(Event.scalar) THEN 1 ELSE 0)
           v == Wrote(p.w, p.prepared, <<Event.scalar>>)
           written == [v EXCEPT !.nodes = @ + 1, !.strings = strings]
           isNone == Event.scalar = "null"
           made == CompleteValue(written, p.prepared, isNone)
<1>1. status = "writing" /\ pos < Len(dump.events) /\ Event.on = "scalar"  BY DEF VisitScalar, Offered
<1>2. CASE p.error # "fine"
  <2>1. Fail(p.error)  BY <1>2 DEF VisitScalar
  <2> QED BY <2>1, PrepareErrors, FailFollows
<1>3. CASE p.error = "fine" /\ (p.w.nodes >= MaxNodes \/ strings > MaxStringBytes)
  <2>1. Fail("limit")  BY <1>3 DEF VisitScalar
  <2> QED BY <2>1, FailFollows
<1>4. CASE /\ p.error = "fine" /\ ~(p.w.nodes >= MaxNodes \/ strings > MaxStringBytes)
           /\ Event.scalar = "bytes" /\ (p.prepared.emit \/ p.prepared.capture)
  <2>1. Fail("unsupported")  BY <1>4 DEF VisitScalar
  <2> QED BY <2>1, FailFollows
<1>5. CASE /\ p.error = "fine" /\ ~(p.w.nodes >= MaxNodes \/ strings > MaxStringBytes)
           /\ ~(Event.scalar = "bytes" /\ (p.prepared.emit \/ p.prepared.capture))
  <2>1. Write(made)  BY <1>5 DEF VisitScalar
  <2>2. PICK opened : Ready(dump.events, p.w.frames, pos, opened)  BY <1>1, <1>5, PreparedReady
  <2>3. /\ IsWriter(p.w)
        /\ p.w.frames # << >> => Top(p.w.frames).pending = NoEdge
    BY <1>1, <1>5, PreparedReady
  <2>4. /\ Well(dump.events) /\ Len(dump.events) \in Nat /\ pos \in Nat
        /\ pos + 1 \in 1 .. Len(dump.events)
    BY <1>1, EventAt
  <2> HIDE DEF p, strings, isNone
  <2>5. IsWriter(v) /\ v.frames = p.w.frames  BY <2>3, WroteFacts
  <2> HIDE DEF v
  <2>6. IsWriter(written) /\ written.frames = p.w.frames  BY <2>5 DEF IsWriter
  <2> HIDE DEF written
  <2>7. /\ IsWriter(made)
        /\ written.frames = << >> => made.frames = << >> /\ made.rootComplete = TRUE
        /\ written.frames # << >> =>
             /\ made.rootComplete = written.rootComplete
             /\ Moved(written.frames, made.frames, Top(written.frames).pending, Top(written.frames).completed + 1)
    BY <2>6, Completed
  <2>8. ValueEnds(dump.events)[pos + 1] = (pos + 1) + 1
    <3>1. ValueEnds(dump.events) =
            [i \in 1 .. Len(dump.events) |-> ValueEnd(dump.events, ValueEnds(dump.events), i)]
      BY <2>4, ValueEndsFacts DEF Well
    <3>2. ValueEnds(dump.events)[pos + 1] = ValueEnd(dump.events, ValueEnds(dump.events), pos + 1)
      BY <2>4, <3>1
    <3>3. ValueEnd(dump.events, ValueEnds(dump.events), pos + 1) = (pos + 1) + 1
      BY <1>1 DEF ValueEnd, Event
    <3> QED BY <3>2, <3>3
  <2> HIDE DEF made
  <2>9. /\ IsSeq(p.w.frames) /\ \A f \in 1 .. Len(p.w.frames) : IsFrame(p.w.frames[f])
        /\ p.w.frames = << >> => made.frames = << >> /\ made.rootComplete = TRUE
        /\ p.w.frames # << >> => Moved(p.w.frames, made.frames, NoEdge, Top(p.w.frames).completed + 1)
        /\ pos + 1 \in 0 .. Len(dump.events) /\ pos + 1 <= pos + 1
    BY <2>3, <2>4, <2>6, <2>7 DEF IsWriter
  <2>10. NestedIn(dump.events, made.frames, made.rootComplete, pos + 1)
    BY <2>2, <2>4, <2>8, <2>9, ValueCounted
  <2> QED BY <1>1, <2>1, <2>7, <2>10, WriteFollows
<1> QED BY <1>2, <1>3, <1>4, <1>5

LEMMA ExitFollows == WriterInv /\ Exit => WriterInv'
<1> SUFFICES ASSUME WriterInv, Exit PROVE WriterInv'  OBVIOUS
<1>1. status = "writing" /\ pos < Len(dump.events) /\ Event.on = "exit"  BY DEF Exit, Offered
<1> DEFINE frame == Top(w.frames)
           isNone == frame.kind = "optional" /\ frame.count = 0
           left == [w EXCEPT !.frames = Pop(@)]
           v == Wrote(left, frame.prepared, Closing(frame.kind, isNone))
           made == CompleteValue(v, frame.prepared, isNone)
           mismatch == frame.kind # Event.kind \/ frame.pending # NoEdge \/ frame.completed # frame.count
<1>2. CASE w.frames = << >>
  <2>1. Fail("projection")  BY <1>2 DEF Exit
  <2> QED BY <2>1, FailFollows
<1>3. CASE w.frames # << >> /\ mismatch
  <2>1. Fail("projection")  BY <1>3 DEF Exit
  <2> QED BY <2>1, FailFollows
<1>4. CASE w.frames # << >> /\ ~mismatch
  <2>1. Write(made)  BY <1>4 DEF Exit
  <2>2. IsWriter(w) /\ NestedIn(dump.events, w.frames, w.rootComplete, pos)  BY DEF WriterInv, Following
  <2>3. /\ Well(dump.events) /\ Len(dump.events) \in Nat /\ pos \in Nat
        /\ pos + 1 \in 1 .. Len(dump.events)
    BY <1>1, EventAt
  <2>4. PICK opened : Chain(dump.events, w.frames, opened) /\ Between(dump.events, frame, Top(opened), pos)
    BY <1>4, <2>2 DEF NestedIn
  <2>5. IsSeq(w.frames) /\ \A f \in 1 .. Len(w.frames) : IsFrame(w.frames[f])  BY <2>2 DEF IsWriter
  <2>6. PICK start \in 1 .. pos : /\ ValueEnds(dump.events)[start] = pos + 2
                                  /\ Ready(dump.events, Pop(w.frames), start - 1, Pop(opened))
    BY <1>1, <1>4, <2>3, <2>4, <2>5, FrameClosed DEF Event
  <2>7. /\ Len(w.frames) \in Nat \ {0} /\ IsSeq(Pop(w.frames)) /\ Len(Pop(w.frames)) = Len(w.frames) - 1
        /\ \A k \in 1 .. Len(w.frames) - 1 : Pop(w.frames)[k] = w.frames[k]
    BY <1>4, <2>5, PopFacts
  <2>8. \A f \in 1 .. Len(Pop(w.frames)) : IsFrame(Pop(w.frames)[f])  BY <2>5, <2>7
  <2>9. IsWriter(left) /\ left.frames = Pop(w.frames)  BY <2>2, <2>7, <2>8 DEF IsWriter
  <2> HIDE DEF left
  <2>10. IsWriter(v) /\ v.frames = Pop(w.frames)  BY <2>9, WroteFacts
  <2> HIDE DEF v, isNone
  <2>11. /\ IsWriter(made)
         /\ v.frames = << >> => made.frames = << >> /\ made.rootComplete = TRUE
         /\ v.frames # << >> =>
              /\ made.rootComplete = v.rootComplete
              /\ Moved(v.frames, made.frames, Top(v.frames).pending, Top(v.frames).completed + 1)
    BY <2>10, Completed
  <2> HIDE DEF made
  <2>12. v.frames # << >> => Top(v.frames).pending = NoEdge  BY <2>6, <2>10 DEF Ready, Passing
  <2>13. /\ start - 1 \in Nat /\ pos + 1 \in 0 .. Len(dump.events) /\ start - 1 + 1 <= pos + 1
         /\ start - 1 + 1 = start /\ ValueEnds(dump.events)[start] = (pos + 1) + 1
    BY <2>3, <2>6
  <2>14. ValueEnds(dump.events)[start - 1 + 1] = (pos + 1) + 1  BY <2>13
  <2>15. /\ IsSeq(v.frames) /\ \A f \in 1 .. Len(v.frames) : IsFrame(v.frames[f])
         /\ Ready(dump.events, v.frames, start - 1, Pop(opened))
         /\ v.frames # << >> => Moved(v.frames, made.frames, NoEdge, Top(v.frames).completed + 1)
         /\ v.frames = << >> => made.frames = << >> /\ made.rootComplete = TRUE
    BY <2>6, <2>7, <2>8, <2>10, <2>11, <2>12
  <2>16. NestedIn(dump.events, made.frames, made.rootComplete, pos + 1)
    BY <2>3, <2>13, <2>14, <2>15, ValueCounted
  <2> QED BY <1>1, <2>1, <2>11, <2>16, WriteFollows
<1> QED BY <1>2, <1>3, <1>4

LEMMA FinishFollows == WriterInv /\ Finish => WriterInv'
BY DEF WriterInv, Following, EndsComplete, Finish, IsRoot

LEMMA SerializeRootFollows == WriterInv /\ SerializeRoot => WriterInv'
<1> SUFFICES ASSUME WriterInv, SerializeRoot PROVE WriterInv'  OBVIOUS
<1> DEFINE json == JsonOf(Structural(dump))
<1>1. CASE json = None  BY <1>1, FailFollows DEF SerializeRoot
<1>2. CASE json # None /\ Len(json[1]) > MaxOutput  BY <1>2, FailFollows DEF SerializeRoot
<1>3. CASE json # None /\ ~(Len(json[1]) > MaxOutput)
  <2>1. w' = [w EXCEPT !.output = json[1]] /\ UNCHANGED <<dump, plan, pos>> /\ IsRoot
    BY <1>3 DEF SerializeRoot
  <2>2. IsWriter(w') /\ w'.frames = w.frames /\ w'.rootComplete = w.rootComplete
    BY <2>1 DEF WriterInv, Following, IsWriter
  <2>3. IsRoot'  BY <2>1 DEF IsRoot
  <2> QED BY <2>1, <2>2, <2>3 DEF WriterInv, Following, EndsComplete
<1> QED BY <1>1, <1>2, <1>3

LEMMA NextFollows == WriterInv /\ [Next]_vars => WriterInv'
<1> SUFFICES ASSUME WriterInv, [Next]_vars PROVE WriterInv'  OBVIOUS
<1>1. CASE UNCHANGED vars  BY <1>1 DEF vars, WriterInv, Following, EndsComplete, IsRoot
<1>2. CASE Next
  BY <1>2, EnterFollows, EdgeFollows, VisitScalarFollows, ExitFollows, FinishFollows, SerializeRootFollows
  DEF Next
<1> QED BY <1>1, <1>2

LEMMA CompleteIsOneValue == WriterInv => OnlyProjectionsComplete
<1> SUFFICES ASSUME WriterInv, status = "done", ~IsRoot
             PROVE  dump.events # << >> /\ ValueEnds(dump.events)[1] = Len(dump.events) + 1
  BY DEF OnlyProjectionsComplete
<1>1. w.frames = << >> /\ w.rootComplete /\ pos = Len(dump.events)  BY DEF WriterInv, EndsComplete
<1>2. pos >= 1 /\ ValueEnds(dump.events)[1] = pos + 1  BY <1>1 DEF WriterInv, Following, NestedIn
<1>3. Len(dump.events) # 0  BY <1>1, <1>2
<1> QED BY <1>1, <1>2, <1>3

(* Whatever events a foreign projection sends, under whatever schema,      *)
(* options and limits, serialize_json returns a document only if they are  *)
(* the projection of exactly one value.                                    *)
THEOREM OnlyValuesAreWritten == Spec => []OnlyProjectionsComplete
<1>1. Init => WriterInv  BY InitFollows
<1>2. WriterInv /\ [Next]_vars => WriterInv'  BY NextFollows
<1>3. WriterInv => OnlyProjectionsComplete  BY CompleteIsOneValue
<1> QED BY <1>1, <1>2, <1>3, PTL DEF Spec
=============================================================================
