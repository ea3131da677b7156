------------------------------ MODULE TimeSpans -------------------------------
(***************************************************************************)
(* Time spans (timespantype.go): made of fields, shown in a format, read  *)
(* back with a list of formats, and stored as what they are serialized as. *)
(*                                                                         *)
(* A format is a string, which ParseFormat cuts into segments.  A text is a*)
(* sequence of pieces, one for each literal and for each number that was   *)
(* written: its sign, the digits it has and the spaces around them.  Two   *)
(* numbers of a format have a literal between them, so a text is matched   *)
(* piece by piece.  A second has 10^SecondDigits of the smallest unit and  *)
(* 10^MilliDigits milliseconds; the code has 9 and 3.                      *)
(***************************************************************************)
EXTENDS Integers, Sequences, FiniteSets

CONSTANTS
  SecondDigits, MilliDigits,
  Fields,      \* the fields that spans are made of
  Formats      \* the formats that spans are shown in

LOCAL INSTANCE SequencesExt
LOCAL INSTANCE FiniteSetsExt

VARIABLES
  span, format,  \* chosen by Init
  text,          \* the text of the span, empty before it is shown
  again,         \* the formats that the text was read with, and the span that it gave
  stored         \* the span that was made of the serialized span

vars == <<span, format, text, again, stored>>

Failed == [state |-> "failed"]      \* a panic
NoMatch == [state |-> "no match"]
Span(n) == [state |-> "ok", ns |-> n]

NsecsPerSec == 10 ^ SecondDigits
NsecsPerMsec == 10 ^ (SecondDigits - MilliDigits)
NsecsPerMin == 60 * NsecsPerSec
NsecsPerHour == 60 * NsecsPerMin
NsecsPerDay == 24 * NsecsPerHour

\* Division and remainder of Go, which round towards zero
Quot(a, b) == IF a < 0 THEN -((-a) \div b) ELSE a \div b
Rem(a, b) == a - b * Quot(a, b)

Int64Pow(base, exp) == IF base = 0 \/ exp <= 0 THEN 0 ELSE base ^ exp

FromFields(f) ==
  LET seconds == ((f.days * 24 + f.hours) * 60 + f.minutes) * 60 + f.seconds
      ns == seconds * NsecsPerSec + f.milliseconds * NsecsPerMsec + f.nanoseconds
  IN IF f.negative THEN -ns ELSE ns

TotalSeconds(ns) == Quot(ns, NsecsPerSec)
Equals(a, b) == TotalSeconds(a) = TotalSeconds(b)

----------------------------------------------------------------------------
(* Formats.                                                                *)

Kinds == <<"N", "L", "S", "M", "H", "D">>   \* in the order of their units
Ordinal(kind) == CHOOSE i \in DOMAIN Kinds : Kinds[i] = kind
Digits == <<"0", "1", "2", "3", "4", "5", "6", "7", "8", "9">>
NoWidth == -1

Literal(str) == [kind |-> "literal", str |-> str]
Value(kind, pad, width) == [kind |-> kind, pad |-> pad, width |-> width, total |-> FALSE]
IsValue(s) == s.kind # "literal"
IsFragment(s) == s.kind \in {"N", "L"}

AppendLiteral(segments, c) ==
  IF segments # <<>> /\ ~IsValue(Last(segments))
  THEN Append(Front(segments), Literal(Last(segments).str \o c))
  ELSE Append(segments, Literal(c))

(* One character c of a format.  The state is "literal", "pad" after a %,  *)
(* "width" when no pad may follow.                                         *)
ParseChar(p, c) ==
  CASE p = Failed -> p
    [] p.state = "literal" /\ c = "%" -> [p EXCEPT !.state = "pad", !.pad = "0", !.width = NoWidth]
    [] p.state = "literal" \/ c = "%" ->
         [p EXCEPT !.state = "literal", !.segments = AppendLiteral(p.segments, c)]
    [] c \in {"-", "_"} /\ p.state = "pad" -> [p EXCEPT !.state = "width", !.pad = c]
    [] c \in Range(Kinds) ->
         [p EXCEPT !.state = "literal", !.segments = Append(@, Value(c, p.pad, p.width))]
    [] c = "0" /\ p.state = "pad" -> [p EXCEPT !.state = "width"]
    [] c \in Range(Digits) ->
         LET n == (CHOOSE i \in DOMAIN Digits : Digits[i] = c) - 1
         IN [p EXCEPT !.state = "width", !.width = IF @ = NoWidth THEN n ELSE @ * 10 + n]
    [] OTHER -> Failed

Highest(segments) == Max({0} \cup {Ordinal(s.kind) : s \in {x \in Range(segments) : IsValue(x)}})

\* Faulty variant: the segments of the lowest unit
UseTotalLowest(segments) ==
  [i \in DOMAIN segments |->
     IF IsValue(segments[i])
        /\ \A s \in Range(segments) : IsValue(s) => Ordinal(segments[i].kind) <= Ordinal(s.kind)
     THEN [segments[i] EXCEPT !.total = TRUE] ELSE segments[i]]

\* The segments of the highest unit show its total
UseTotal(segments) ==
  [i \in DOMAIN segments |->
     IF IsValue(segments[i]) /\ Ordinal(segments[i].kind) = Highest(segments)
     THEN [segments[i] EXCEPT !.total = TRUE] ELSE segments[i]]

ParseFormat(str) ==
  LET start == [state |-> "literal", pad |-> "0", width |-> NoWidth, segments |-> <<>>]
      end == FoldLeft(ParseChar, start, [i \in 1 .. Len(str) |-> SubSeq(str, i, i)])
  IN IF end.state = "literal" THEN UseTotal(end.segments) ELSE <<Failed>>

DefaultTimespanFormats ==
  <<"%D-%H:%M:%S.%-N", "%H:%M:%S.%-N", "%M:%S.%-N", "%S.%-N", "%D-%H:%M:%S", "%H:%M:%S", "%D-%H:%M", "%S">>

----------------------------------------------------------------------------
(* Writing.                                                                *)

DefaultWidth(kind) ==
  CASE kind = "N" -> SecondDigits [] kind = "L" -> MilliDigits [] kind = "D" -> 1 [] OTHER -> 2
Width(s) == IF s.width = NoWidth THEN DefaultWidth(s.kind) ELSE s.width

\* The value of a segment in the smallest unit
Multiplier(s) ==
  CASE s.kind = "D" -> NsecsPerDay [] s.kind = "H" -> NsecsPerHour [] s.kind = "M" -> NsecsPerMin
    [] s.kind = "S" -> NsecsPerSec [] s.kind = "L" -> NsecsPerMsec
    [] s.kind = "N" -> IF Width(s) < SecondDigits THEN Int64Pow(10, SecondDigits - Width(s)) ELSE 1

\* After how many of its units the one above begins
Modulus(s) ==
  CASE s.kind = "H" -> 24 [] s.kind \in {"M", "S"} -> 60 [] s.kind = "L" -> 10 ^ MilliDigits
    [] s.kind = "N" -> 10 ^ (IF Width(s) < SecondDigits THEN Width(s) ELSE SecondDigits)

Part(s, ns) ==
  LET all == Quot(ns, Multiplier(s)) IN IF s.total \/ s.kind = "D" THEN all ELSE Rem(all, Modulus(s))

\* A fraction loses its trailing zeros, unless it is padded with zeros
Trimmed(n) ==
  IF n <= 0 THEN n ELSE n \div 10 ^ Max({k \in 0 .. SecondDigits : n % 10 ^ k = 0})
Shown(s, ns) ==
  IF IsFragment(s) /\ ~s.total /\ s.pad # "0" THEN Trimmed(Part(s, ns)) ELSE Part(s, ns)

DigitCount(n) == CHOOSE d \in 1 .. 9 : n < 10 ^ d /\ (d = 1 \/ n >= 10 ^ (d - 1))

(* A number as fmt.Fprintf writes it: padded to the width with zeros or   *)
(* with spaces before it, or, if it is a fraction, with spaces behind it. *)
WriteValue(s, n) ==
  LET size == IF n < 0 THEN -n ELSE n
      sign == IF n < 0 THEN 1 ELSE 0
      missing == Max({0, Width(s) - sign - DigitCount(size)})
      none == [neg |-> n < 0, value |-> size, digits |-> DigitCount(size), lead |-> 0, trail |-> 0]
  IN CASE s.pad = "-" -> none
       [] s.pad # "-" /\ IsFragment(s) -> [none EXCEPT !.trail = missing]
       [] s.pad = "0" /\ ~IsFragment(s) -> [none EXCEPT !.digits = @ + missing]
       [] s.pad = "_" /\ ~IsFragment(s) -> [none EXCEPT !.lead = missing]

Format(ns, segments) ==
  [i \in DOMAIN segments |->
     IF IsValue(segments[i]) THEN WriteValue(segments[i], Shown(segments[i], ns)) ELSE segments[i]]

----------------------------------------------------------------------------
(* Reading.                                                                *)

(* The regular expression of a segment: the class of a padded number is   *)
(* written with one backslash too many, it has no spaces.                  *)
Matches(s, piece, first) ==
  IF ~IsValue(s) THEN piece = s
  ELSE /\ "neg" \in DOMAIN piece
       /\ piece.trail = 0
       /\ piece.neg => first /\ piece.lead = 0
       /\ piece.lead > 0 => s.pad = "_" /\ s.width = NoWidth /\ s.total
       /\ CASE s.width = NoWidth -> s.total \/ piece.digits <= DefaultWidth(s.kind)
            [] s.width # NoWidth /\ s.pad = "-" -> piece.digits <= s.width
            [] s.width # NoWidth /\ s.pad # "-" -> piece.digits = s.width

Nanoseconds(s, piece) ==
  LET n == piece.value * Multiplier(s)
      missing == SecondDigits - piece.digits
  IN IF IsFragment(s) /\ missing > 0 THEN Int64Pow(n * 10, missing) ELSE n

Parse(segments, pieces) ==
  LET values == {i \in DOMAIN segments : IsValue(segments[i])}
  IN CASE ~(Len(segments) = Len(pieces) /\ \A i \in DOMAIN segments : Matches(segments[i], pieces[i], i = 1)) ->
            NoMatch
       [] \E i \in values : IsFragment(segments[i]) /\ segments[i].total -> Failed
       [] OTHER -> Span(MapThenSumSet(LAMBDA i : Nanoseconds(segments[i], pieces[i]), values))

\* The first format of a list that the text matches decides
ParseTimespan(strs, pieces) ==
  LET results == [i \in DOMAIN strs |-> Parse(ParseFormat(strs[i]), pieces)]
      found == {i \in DOMAIN results : results[i] # NoMatch}
  IN IF found = {} THEN Failed ELSE results[Min(found)]

----------------------------------------------------------------------------
Init ==
  /\ \E f \in Fields : span = FromFields(f)
  /\ format \in Formats
  /\ text = <<>> /\ again = [formats |-> <<>>, span |-> NoMatch] /\ stored = NoMatch

Show ==
  /\ text = <<>>
  /\ LET segments == ParseFormat(format)
     IN text' = IF segments = <<Failed>> THEN segments ELSE Format(span, segments)
  /\ UNCHANGED <<span, format, again, stored>>

\* Bound: a list of formats is offered the texts of its own members only
Read(strs) ==
  /\ format \in Range(strs)
  /\ text \notin {<<>>, <<Failed>>}
  /\ again' = [formats |-> strs, span |-> ParseTimespan(strs, text)]
  /\ UNCHANGED <<span, format, text, stored>>

\* A span is serialized as the text of its seconds, with %d, and made of such a text again
Store ==
  /\ LET seconds == WriteValue(Value("S", "-", NoWidth), TotalSeconds(span))
     IN stored' = ParseTimespan(DefaultTimespanFormats, <<seconds>>)
  /\ UNCHANGED <<span, format, text, again>>

Next == Show \/ Read(<<format>>) \/ Read(DefaultTimespanFormats) \/ Store
Spec == Init /\ [][Next]_vars

----------------------------------------------------------------------------
(* Texts that are not made to be read: signs are dropped, spaces are not  *)
(* accepted, a number may be wider than its segment, and a fraction is     *)
(* only understood with all its digits or when it is zero.                 *)
Readable(segments) ==
  /\ span >= 0
  /\ Highest(segments) > Ordinal("L")
  /\ \A i \in DOMAIN segments :
       LET s == segments[i]
       IN IsValue(s) =>
            /\ text[i].lead = 0 /\ text[i].trail = 0
            /\ s.width # NoWidth => text[i].digits <= s.width
            /\ IsFragment(s) => text[i].value = 0 \/ text[i].digits = SecondDigits

\* Each unit from the highest to the lowest is shown once
Gapless(segments) ==
  LET values == {i \in DOMAIN segments : IsValue(segments[i])}
      ordinals == {Ordinal(segments[i].kind) : i \in values}
  IN /\ Cardinality(ordinals) = Cardinality(values)
     /\ ordinals = Min(ordinals) .. Max(ordinals) \/ ordinals = (Min(ordinals) .. Max(ordinals)) \ {Ordinal("L")}

(* A span that is shown in all units down to some unit, in a readable text,*)
(* is read back with that format, or with the default formats when it is  *)
(* one of them, as the span without what is smaller than the unit.  A span *)
(* that is serialized comes back Equal, unless it is negative.             *)
SpansComeBack ==
  /\ format \in Range(again.formats) =>
       LET segments == ParseFormat(format)
           units == {Multiplier(segments[i]) : i \in {j \in DOMAIN segments : IsValue(segments[j])}}
       IN Readable(segments) /\ Gapless(segments)
          => again.span = Span(span - (span % Min(units)))
  /\ stored # NoMatch /\ span >= 0 => stored # Failed /\ Equals(stored.ns, span)
=============================================================================
