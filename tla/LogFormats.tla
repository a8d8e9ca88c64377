----------------------------- MODULE LogFormats ------------------------------
(***************************************************************************)
(* From a format to a line (easylogging++.cc, LogFormat,                   *)
(* DefaultLogBuilder, Str, DateTime, SubsecondPrecision and                *)
(* TypedConfigurations::resolveFilename).                                  *)
(*                                                                         *)
(* A text is a sequence of tokens: a format specifier, the escape, a       *)
(* brace, or anything else.  No token begins or ends within another.       *)
(***************************************************************************)
EXTENDS Integers, Sequences, FiniteSets, SequencesExt, FiniteSetsExt

Escape == "%"
DateTime == "%datetime"

(* In the order parseFromFormat looks for them. *)
Specifiers == <<"%app", "%level", "%levshort", "%logger", "%thread", "%file", "%fbase",
                "%line", "%loc", "%func", "%user", "%host", "%msg", "%vlevel">>

(* The first w in s from position i, or 0. *)
find(s, w, i) ==
  LET at == {j \in i .. Len(s) : s[j] = w} IN IF at = {} THEN 0 ELSE Min(at)

Escaped(s, j) == j > 1 /\ s[j - 1] = Escape

(* The first w in s that is not escaped, or 0. *)
Unescaped(s, w) ==
  LET at == {j \in DOMAIN s : s[j] = w /\ ~Escaped(s, j)} IN IF at = {} THEN 0 ELSE Min(at)

(* The first w that is not escaped gives way to new; the ones before it    *)
(* lose their escapes.                                                     *)
replaceFirstWithEscape(s, w, new) ==
  LET From[i \in 1 .. Len(s) + 1] ==
        LET j == find(s, w, i)
        IN  IF j = 0 THEN SubSeq(s, i, Len(s))
            ELSE IF Escaped(s, j) THEN SubSeq(s, i, j - 2) \o <<w>> \o From[j + 1]
            ELSE SubSeq(s, i, j - 1) \o new \o SubSeq(s, j + 1, Len(s))
  IN  From[1]

replaceAll(s, w, new) == FlattenSeq([i \in DOMAIN s |-> IF s[i] = w THEN new ELSE <<s[i]>>])

-----------------------------------------------------------------------------
(* LogFormat::parseFromFormat.  Of the specifiers after the first that is  *)
(* not escaped the escapes go.                                             *)
conditionalAddFlag(lf, w) ==
  LET s == lf.format
      From[i \in 1 .. Len(s) + 1, has \in BOOLEAN] ==
        LET j == find(s, w, i)
        IN  IF j = 0 THEN SubSeq(s, i, Len(s))
            ELSE IF has /\ Escaped(s, j) THEN SubSeq(s, i, j - 2) \o <<w>> \o From[j + 1, has]
            ELSE SubSeq(s, i, j) \o From[j + 1, has \/ ~Escaped(s, j)]
  IN  [lf EXCEPT !.format = From[1, FALSE],
                 !.flags = IF Unescaped(s, w) # 0 THEN @ \cup {w} ELSE @]

(* A format of its own follows %datetime in braces, or to the end of the   *)
(* text where no brace closes it.                                          *)
InBraces(s, j, default) ==
  IF j < Len(s) /\ s[j + 1] = "{"
    THEN LET close == find(s, "}", j + 2)
             last == IF close = 0 THEN Len(s) ELSE close
         IN  [text |-> SubSeq(s, 1, j) \o SubSeq(s, last + 1, Len(s)),
              date |-> SubSeq(s, j + 2, IF close = 0 THEN last ELSE last - 1)]
    ELSE [text |-> s, date |-> default]

updateDateFormat(lf, j) ==
  LET b == InBraces(lf.format, j, <<"default">>)
  IN  [lf EXCEPT !.format = b.text, !.date = b.date]

DateTimeFlag(lf) ==
  LET j == Unescaped(lf.format, DateTime)
  IN  IF j = 0 THEN lf ELSE updateDateFormat([lf EXCEPT !.flags = @ \cup {DateTime}], j)

(* The level is resolved with the format, as are the user and the host.    *)
updateFormatSpec(lf, v) ==
  LET level == FoldLeft(LAMBDA s, w : replaceFirstWithEscape(s, w, v[w]), lf.format,
                        <<"%level", "%levshort">>)
      others == FoldLeft(LAMBDA s, w : IF w \in lf.flags THEN replaceFirstWithEscape(s, w, v[w])
                                                        ELSE s,
                         level, <<"%user", "%host">>)
  IN  [lf EXCEPT !.format = others]

parseFromFormat(userFormat, v) ==
  updateFormatSpec(DateTimeFlag(FoldLeft(conditionalAddFlag,
      [format |-> userFormat, flags |-> {}, date |-> <<>>], Specifiers)), v)

(* Logger::resolveLoggerFormatSpec, when the logger is configured. *)
resolveLoggerFormatSpec(lf, v) ==
  [lf EXCEPT !.format = replaceFirstWithEscape(@, "%logger", v["%logger"])]

(* Slip: the message is put in first, and looked through for specifiers.   *)
BuildOrder_MessageFirst ==
  <<"%msg", "%app", "%thread", DateTime, "%func", "%file", "%fbase", "%line", "%loc", "%vlevel">>

BuildOrder ==
  <<"%app", "%thread", DateTime, "%func", "%file", "%fbase", "%line", "%loc", "%vlevel",
    "%msg">>

(* DefaultLogBuilder::build; custom is a sequence of [specifier, value].   *)
build(lf, v, verbose, custom) ==
  LET builtin == FoldLeft(LAMBDA s, w :
                   IF w \in lf.flags /\ (w = "%vlevel" => verbose)
                     THEN replaceFirstWithEscape(s, w, v[w]) ELSE s, lf.format, BuildOrder)
  IN  FoldLeft(LAMBDA s, c : replaceFirstWithEscape(s, c.specifier, c.value), builtin, custom)

Line(format, v, verbose, custom) ==
  build(resolveLoggerFormatSpec(parseFromFormat(format, v), v), v, verbose, custom)

(* TypedConfigurations::resolveFilename.  Where every specifier is escaped *)
(* the code reads beyond the name.                                         *)
Undefined == <<"undefined">>

resolveFilename(name, now) ==
  LET j == Unescaped(name, DateTime) IN
  IF j # 0 THEN replaceAll(InBraces(name, j, <<>>).text, DateTime, now)
  ELSE IF find(name, DateTime, 1) # 0 THEN Undefined ELSE name

-----------------------------------------------------------------------------
(* Numbers and times.  Str::convertAndAddToBuff writes the last digits of  *)
(* a number, at most len and at most eight.                                *)
Digit(n, i) == (n \div (10 ^ i)) % 10
Digits(n, w) == [i \in 1 .. w |-> Digit(n, w - i)]

convertAndAddToBuff(n, len, padded) ==
  LET w == Min({len, 8})
      d == CHOOSE k \in 1 .. 10 : n < 10 ^ k /\ (k > 1 => n >= 10 ^ (k - 1))
  IN  Digits(n, IF padded THEN w ELSE Min({w, d}))

Offset(width) == CASE width = 4 -> 100 [] width = 5 -> 10 [] width = 6 -> 1 [] OTHER -> 1000

(* SubsecondPrecision::init: [width, offset]. *)
SubsecondPrecision(width) ==
  LET w == IF width \in 1 .. 6 THEN width ELSE 3 IN [width |-> w, offset |-> Offset(w)]

(* Slip: microseconds whatever the width. *)
Subseconds_Raw(usec, p) == usec

Subseconds(usec, p) == usec \div p.offset

(* A buffer of limit characters takes what fits. *)
addToBuff(buf, new, limit) == SubSeq(buf \o new, 1, Min({Len(buf) + Len(new), limit}))

(* What a letter stands for; names of days and months are their number.    *)
Field(c, t, p) ==
  CASE c = "d" -> convertAndAddToBuff(t.day, 2, TRUE)
    [] c \in {"a", "A"} -> <<t.weekday>>
    [] c = "M" -> convertAndAddToBuff(t.month, 2, TRUE)
    [] c \in {"b", "B"} -> <<t.month>>
    [] c = "y" -> convertAndAddToBuff(t.year, 2, TRUE)
    [] c = "Y" -> convertAndAddToBuff(t.year, 4, TRUE)
    [] c = "h" -> convertAndAddToBuff(t.hour % 12, 2, TRUE)
    [] c = "H" -> convertAndAddToBuff(t.hour, 2, TRUE)
    [] c = "m" -> convertAndAddToBuff(t.min, 2, TRUE)
    [] c = "s" -> convertAndAddToBuff(t.sec, 2, TRUE)
    [] c \in {"z", "g"} -> convertAndAddToBuff(Subseconds(t.usec, p), p.width, TRUE)
    [] c = "F" -> IF t.hour >= 12 THEN <<1>> ELSE <<0>>
    [] OTHER -> <<>>

(* DateTime::parseFormat, a character at a time; a character other than a  *)
(* digit is written as -1 here.  The state is the buffer and whether the   *)
(* character before was a "%".                                             *)
ParsedChar(st, c, t, p, limit) ==
  LET Add(new) == [buf |-> addToBuff(st.buf, new, limit), escape |-> FALSE]
  IN  IF st.escape /\ c # Escape THEN Add(Field(c, t, p))
      ELSE IF c = Escape /\ ~st.escape THEN [st EXCEPT !.escape = TRUE]
      ELSE Add(<<-1>>)

(* A "%" at the end stands for itself.                                     *)
parseFormat(format, t, p, limit) ==
  LET end == FoldLeft(LAMBDA st, c : ParsedChar(st, c, t, p, limit),
                      [buf |-> <<>>, escape |-> FALSE], format)
  IN  IF end.escape THEN addToBuff(end.buf, <<-1>>, limit) ELSE end.buf

timevalToString(format, t, width) == parseFormat(format, t, SubsecondPrecision(width), 30)

(* kDefaultDateTimeFormat *)
DefaultDateFormat ==
  <<"%", "Y", "-", "%", "M", "-", "%", "d", " ", "%", "H", ":", "%", "m", ":", "%", "s", ",",
    "%", "g">>

(* kTimeFormats. *)
Units == <<"us", "ms", "seconds", "minutes", "hours", "days">>
PerNext == <<1000, 1000, 60, 60, 24, 7>>

(* From one unit to the next as long as it is filled; below 1.9 times a    *)
(* thousand the smaller one stays.                                         *)
NextUnit(d, u) ==
  IF d.unit # u \/ d.count <= PerNext[u] \/ (PerNext[u] = 1000 /\ d.count < 1900) THEN d
  ELSE [count |-> d.count \div PerNext[u], unit |-> u + 1]

formatTime(time, unit) ==
  FoldLeft(NextUnit, [count |-> time, unit |-> unit], [u \in 1 .. Len(Units) - 1 |-> u])

(* DateTime::getTimeDifference, in a word of W values. *)
getTimeDifference(end, start, unit, W) ==
  LET conv(t) == IF unit = 1 THEN 1000000 * t.sec + t.usec
                             ELSE t.sec * 1000 + t.usec \div 1000
  IN  (conv(end) - conv(start)) % W
=============================================================================
