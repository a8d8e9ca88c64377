---------------------------- MODULE LogTextProofs -----------------------------
(***************************************************************************)
(* What LogText answers, for any texts, times, statements and clients.     *)
(* Answers is the inductive invariant: an answer is what the code computes *)
(* of the arguments it was given.  The rest is about what is computed.     *)
(* Loops of the code are folds; FoldSteps of Loops gives their values one  *)
(* after the other, and each is followed through its loop.                 *)
(***************************************************************************)
EXTENDS LogText, FunctionTheorems, TLAPS

(* The lines that Parse puts before and after the value, under names. *)
HeadLine == <<LevelMark, "GLOBAL", ":">>
LevelLines == {<<LevelMark, "INFO", ":">>, <<LevelMark, " ", "WARN", ":">>}
Comments == {<<>>, <<" ", Comment, Quote, "x", Quote>>}

(* What a call was asked, and that the answer is what was computed.        *)
Answers ==
  /\ call.op = "resolve" => call.name \in Names /\ result = resolveFilename(call.name, Now)
  /\ call.op = "path" => /\ call.name \in FullNames /\ call.fs \in FileSystems
                         /\ result = PathFor(call.name, call.fs)
  /\ call.op = "source" => /\ call.name \in Sources
                           /\ result = [file |-> buildStrippedFilename(call.name),
                                        fbase |-> buildBaseFilename(call.name)]
  /\ call.op = "dates" => /\ call.first \in Times /\ call.second \in Times /\ call.width \in 0 .. 7
                          /\ result = <<DateTimeOf(call.first, call.width),
                                        DateTimeOf(call.second, call.width)>>
  /\ call.op = "duration" => /\ call.time \in Durations /\ call.unit \in {1, 2}
                             /\ result = formatTime(call.time, call.unit)
  /\ call.op = "difference" => /\ call.first \in Stamps /\ call.second \in Stamps /\ call.unit \in {1, 2}
                               /\ result = getTimeDifference(call.second, call.first, call.unit, W)
  /\ call.op = "request" => /\ call.statement \in Statements /\ call.time \in Times
                            /\ call.client \in Clients
                            /\ result = {requestToJson(request, call.client) :
                                 request \in handle(call.statement, call.time.sec, call.client)}
  /\ call.op = "parse" =>
       /\ call.value \in Quoted /\ call.level \in LevelLines
       /\ \E comment \in Comments, newline \in BOOLEAN :
            result = parseFromFile(<<HeadLine, call.level, FormatLine(call.value, comment)>>, newline)
  /\ call.op = "number" => call.text \in Numbers /\ result = getULong(call.text)
  /\ call.op = "configure" => call.file \in Files /\ result = configureFromGlobal(call.file)

(* What was asked and answered stays so until the next call. *)
LEMMA AnswersStep == Answers /\ [Next]_vars => Answers'
<1> SUFFICES ASSUME Answers, [Next]_vars PROVE Answers'
  OBVIOUS
<1> USE DEF Called, Answer, None
<1>1. CASE Build
  BY <1>1 DEF Build, Answers
<1>2. CASE Stream
  <2>1. PICK v, flags : call' = [op |-> "stream", value |-> v, flags |-> flags]
    BY <1>2, Zenon DEF Stream
  <2> QED BY <2>1 DEF Answers
<1>3. CASE InstallCustomFormatSpecifier
  <2>1. call'.op = "install"
    BY <1>3 DEF InstallCustomFormatSpecifier
  <2> QED BY <2>1 DEF Answers
<1>4. CASE UninstallCustomFormatSpecifier
  <2>1. call'.op = "uninstall"
    BY <1>4 DEF UninstallCustomFormatSpecifier
  <2> QED BY <2>1 DEF Answers
<1>5. CASE Resolve
  BY <1>5 DEF Resolve, Answers
<1>6. CASE MakePath
  BY <1>6 DEF MakePath, Answers
<1>7. CASE SourceName
  BY <1>7 DEF SourceName, Answers
<1>8. CASE Dates
  BY <1>8 DEF Dates, Answers
<1>9. CASE Duration
  BY <1>9 DEF Duration, Answers
<1>10. CASE Difference
  BY <1>10 DEF Difference, Answers
<1>11. CASE Request
  BY <1>11 DEF Request, Answers
<1>12. CASE Parse
  <2>1. PICK v \in Quoted, comment \in Comments, level \in LevelLines, newline \in BOOLEAN :
          /\ call' = [op |-> "parse", value |-> v, level |-> level]
          /\ result' = parseFromFile(<<HeadLine, level, FormatLine(v, comment)>>, newline)
    BY <1>12, Zenon DEF Parse, Answer, HeadLine, LevelLines, Comments
  <2> QED BY <2>1 DEF Answers
<1>13. CASE Number
  BY <1>13 DEF Number, Answer, Answers
<1>14. CASE Configure
  BY <1>14 DEF Configure, Answer, Answers
<1>15. CASE SetVModules
  <2>1. call'.op = "setVModules"
    BY <1>15 DEF SetVModules, Verbose
  <2> QED BY <2>1 DEF Answers
<1>16. CASE ClearVModules
  <2>1. call'.op = "clearVModules"
    BY <1>16 DEF ClearVModules, Verbose
  <2> QED BY <2>1 DEF Answers
<1>17. CASE SetVerboseLevel
  <2>1. call'.op = "setVerboseLevel"
    BY <1>17 DEF SetVerboseLevel, Verbose
  <2> QED BY <2>1 DEF Answers
<1>18. CASE SetFromArgs
  <2>1. call'.op = "setFromArgs"
    BY <1>18 DEF SetFromArgs, Verbose
  <2> QED BY <2>1 DEF Answers
<1>19. CASE Allowed
  BY <1>19 DEF Allowed, Answers
<1>20. CASE Return
  BY <1>20 DEF Return, Answers
<1>21. CASE UNCHANGED vars
  BY <1>21 DEF vars, Answers
<1> QED
  BY <1>1, <1>2, <1>3, <1>4, <1>5, <1>6, <1>7, <1>8, <1>9, <1>10, <1>11, <1>12, <1>13, <1>14,
     <1>15, <1>16, <1>17, <1>18, <1>19, <1>20, <1>21 DEF Next

(* An answer is what the code computes of what was asked, of admissible arguments. *)
THEOREM Answered == Spec => []Answers
<1>1. Init => Answers
  BY DEF Init, None, Answers
<1> QED
  BY <1>1, AnswersStep, PTL DEF Spec

-----------------------------------------------------------------------------
(* Requests. *)

-----------------------------------------------------------------------------
(* Requests. *)
(* When a request says its statement was made. *)
LEMMA DatesOfRequests ==
  ASSUME NEW t \in Int, NEW r \in Clients
  PROVE  LET dated == DateOf(t, r) \div 1000 - r.m_timeOffset
             clock == localtime(dated, r.zone).shows
         IN  IF ~r.m_utc THEN dated = t
             ELSE clock = t \/ (clock - t = 3600 /\ r.zone.summer)
<1>1. PICK o \in Int : o = r.m_timeOffset
  BY StatementsAssumption
<1>2. PICK z \in Int : z = r.zone.standard
  BY StatementsAssumption
<1>3. r.zone.summer \in BOOLEAN /\ r.m_utc \in BOOLEAN
  BY StatementsAssumption
<1>4. CASE ~r.m_utc
  <2>1. DateOf(t, r) = (t + o) * 1000
    BY <1>1, <1>2, <1>3, <1>4 DEF DateOf, mktime, localtime, Saving
  <2> QED
    BY <1>1, <1>4, <2>1
<1>5. CASE r.m_utc
  <2>1. DateOf(t, r) = (t - z + o) * 1000
    BY <1>1, <1>2, <1>3, <1>5 DEF DateOf, mktime, gmtime, Saving
  <2>2. DateOf(t, r) \div 1000 - r.m_timeOffset = t - z
    BY <1>1, <2>1
  <2>3. localtime(t - z, r.zone).shows = IF r.zone.summer THEN t + 3600 ELSE t
    BY <1>2, <1>3 DEF localtime, Saving
  <2> QED
    BY <1>3, <1>5, <2>2, <2>3
<1> QED BY <1>4, <1>5

(* What a request says of its statement. *)
LEMMA FieldsOfRequests ==
  ASSUME NEW s \in Statements, NEW t \in Int, NEW r \in Clients,
         NEW request \in handle(s, t, r), NEW json, json = requestToJson(request, r)
  PROVE  /\ \A k \in DOMAIN s : s[k] = IF k \in DOMAIN json THEN json[k]
                                       ELSE IF k \in {"line", "vlevel"} THEN 0 ELSE <<>>
         /\ json.datetime = DateOf(t, r)
<1> DEFINE d == DateOf(t, r)
<1>1. request = [k \in DOMAIN s \cup {"datetime"} |-> IF k = "datetime" THEN d ELSE s[k]]
  BY DEF handle
<1> HIDE DEF d
<1>2. /\ DOMAIN s = {"logger", "msg", "file", "func", "line", "level", "vlevel"}
      /\ s.line \in Nat /\ s.vlevel \in Nat
  BY StatementsAssumption
<1>3. /\ \A k \in DOMAIN s : request[k] = s[k]
      /\ request.datetime = d
  BY <1>1, <1>2
<1>4. PICK apps \in SUBSET {"app"} :
        json = [k \in {"datetime", "logger", "msg", "level"} \cup Optional(request) \cup apps |->
                  IF k = "app" THEN r.m_applicationId ELSE request[k]]
  BY DEF requestToJson
<1>5. \A k \in DOMAIN s : k \in DOMAIN json => json[k] = s[k]
  BY <1>2, <1>3, <1>4
<1>6. \A k \in DOMAIN s : k \notin DOMAIN json =>
         s[k] = IF k \in {"line", "vlevel"} THEN 0 ELSE <<>>
  BY <1>2, <1>3, <1>4 DEF Optional
<1>7. json.datetime = d
  BY <1>3, <1>4
<1> QED BY <1>5, <1>6, <1>7 DEF d

(* Every request tells all of its statement and dates it by the client's   *)
(* clock, for any statements, times and clients (Residue::requestToJson,   *)
(* ResidueDispatcher::handle).                                             *)
THEOREM RequestsCorrect == Spec => []RequestsTellAll
<1>1. Answers => RequestsTellAll
  <2> SUFFICES ASSUME Answers, call.op = "request" PROVE RequestsTellAll
    BY DEF RequestsTellAll
  <2>1. PICK s \in Statements, time \in Times, r \in Clients :
          /\ s = call.statement /\ time = call.time /\ r = call.client
          /\ result = {requestToJson(request, r) : request \in handle(s, time.sec, r)}
    BY DEF Answers
  <2>2. PICK t \in Int : t = time.sec
    <3>1. time.sec \in Int
      BY TimesAssumption DEF Instant
    <3> QED BY <3>1
  <2>3. ASSUME NEW json \in result
        PROVE  /\ \A k \in DOMAIN s : s[k] = IF k \in DOMAIN json THEN json[k]
                                             ELSE IF k \in {"line", "vlevel"} THEN 0 ELSE <<>>
               /\ json.datetime = DateOf(t, r)
    BY <2>1, <2>2, FieldsOfRequests
  <2>4. LET dated == DateOf(t, r) \div 1000 - r.m_timeOffset
            clock == localtime(dated, r.zone).shows
        IN  IF ~r.m_utc THEN dated = t
            ELSE clock = t \/ (clock - t = 3600 /\ r.zone.summer)
    BY <2>1, <2>2, DatesOfRequests
  <2> QED BY <2>1, <2>2, <2>3, <2>4 DEF RequestsTellAll
<1> QED
  BY <1>1, Answered, PTL

-----------------------------------------------------------------------------
(* Differences of times. *)
(* A difference of times is right to its unit. *)
LEMMA DifferencesRight ==
  ASSUME NEW s \in Stamps, NEW t \in Stamps, NEW unit \in {1, 2}, ~Before(t, s)
  PROVE  LET exact == Micros(t) - Micros(s)
             d == getTimeDifference(t, s, unit, W)
         IN  IF unit = 1 THEN d = exact ELSE d * 1000 \in exact - 999 .. exact + 999
<1>1. PICK a \in Nat, b \in Nat, c \in Nat, e \in Nat :
        /\ a = s.sec /\ b = s.usec /\ c = t.sec /\ e = t.usec
        /\ b < 1000000 /\ e < 1000000
        /\ 1000000 * a + b < W /\ 1000000 * c + e < W /\ W \in Nat
  BY TimesAssumption DEF Instant
<1>2. a < c \/ (a = c /\ b <= e)
  BY <1>1 DEF Before
<1>3. Micros(t) = 1000000 * c + e /\ Micros(s) = 1000000 * a + b
  BY <1>1 DEF Micros
<1>4. \A x \in Nat : x < W => x % W = x
  BY <1>1
<1>5. CASE unit = 1
  <2>1. getTimeDifference(t, s, unit, W) = ((1000000 * c + e) - (1000000 * a + b)) % W
    BY <1>1, <1>5 DEF getTimeDifference
  <2>2. PICK x \in Nat : x = (1000000 * c + e) - (1000000 * a + b) /\ x < W
    BY <1>1, <1>2
  <2> QED BY <1>3, <1>4, <1>5, <2>1, <2>2
<1>6. CASE unit = 2
  <2>1. getTimeDifference(t, s, unit, W) = ((c * 1000 + e \div 1000) - (a * 1000 + b \div 1000)) % W
    BY <1>1, <1>6 DEF getTimeDifference
  <2>2. PICK x \in Nat : x = (c * 1000 + e \div 1000) - (a * 1000 + b \div 1000) /\ x < W
    BY <1>1, <1>2
  <2>3. PICK q \in Nat, r \in Nat : /\ q = b \div 1000 /\ r = e \div 1000
                                  /\ 1000 * q <= b /\ b <= 1000 * q + 999
                                  /\ 1000 * r <= e /\ e <= 1000 * r + 999
    BY <1>1
  <2>4. getTimeDifference(t, s, unit, W) = x
    BY <1>4, <2>1, <2>2
  <2>5. PICK exact \in Int : exact = Micros(t) - Micros(s)
    BY <1>1, <1>3
  <2>6. x * 1000 \in exact - 999 .. exact + 999
    BY <1>1, <1>3, <2>2, <2>3, <2>5
  <2> QED BY <1>6, <2>4, <2>5, <2>6
<1> QED BY <1>5, <1>6

-----------------------------------------------------------------------------
(* Durations. *)
Count(p, d, u) == NextUnit(d, u)
Counting == INSTANCE Loops WITH Op <- Count
Product(p, n, m) == n * m
Multiplying == INSTANCE Loops WITH Op <- Product

(* With which count and unit the loop leaves a unit.                       *)
LEMMA Counted ==
  ASSUME NEW time, NEW unit
  PROVE  \E g : /\ g[0] = [count |-> time, unit |-> unit]
                /\ \A i \in 1 .. 5 : g[i] = NextUnit(g[i - 1], i)
                /\ formatTime(time, unit) = g[5]
<1> DEFINE s == [u \in 1 .. Len(Units) - 1 |-> u]
           b == [count |-> time, unit |-> unit]
<1>1. DOMAIN s = 1 .. 5 /\ \A i \in 1 .. 5 : s[i] = i
  BY DEF Units
<1>2. formatTime(time, unit) = Counting!Fold(0, b, s)
  BY DEF formatTime, Counting!Fold, Counting!MapThenFoldSet, FoldLeft, MapThenFoldSet, Count, Max, Counting!Max
<1> HIDE DEF s, b
<1>3. PICK g : Counting!Run(0, b, s, 5, g)
  BY <1>1, Counting!FoldSteps
<1>4. /\ g[0] = b /\ Counting!Fold(0, b, s) = g[5]
      /\ \A i \in 1 .. 5 : g[i] = NextUnit(g[i - 1], i)
  BY <1>1, <1>3 DEF Counting!Run, Count
<1> QED BY <1>2, <1>4 DEF b

(* How many of unit u make one of unit v. *)
Products ==
  <<<<1, 1000, 1000000, 60000000, 3600000000, 86400000000>>,
    <<0, 1, 1000, 60000, 3600000, 86400000>>>>

(* The factor from one unit to another, multiplied out. *)
LEMMA Factors ==
  ASSUME NEW u \in {1, 2}, NEW v \in u .. 6
  PROVE  Factor(u, v) = Products[u][v]
<1> DEFINE s == SubSeq(PerNext, u, v - 1)
<1>1. /\ v - u \in Nat /\ DOMAIN s = 1 .. v - u
      /\ \A i \in 1 .. v - u : s[i] = PerNext[u + i - 1]
  BY DEF PerNext
<1>2. Factor(u, v) = Multiplying!Fold(0, 1, s)
  BY DEF Factor, Multiplying!Fold, Multiplying!MapThenFoldSet, FoldLeft,
         MapThenFoldSet, Product, Max, Multiplying!Max
<1> HIDE DEF s
<1>3. PICK g : Multiplying!Run(0, 1, s, v - u, g)
  BY <1>1, Multiplying!FoldSteps
<1>4. /\ g[0] = 1 /\ Multiplying!Fold(0, 1, s) = g[v - u]
      /\ \A i \in 1 .. v - u : g[i] = g[i - 1] * PerNext[u + i - 1]
  BY <1>1, <1>3 DEF Multiplying!Run, Product
<1>5. CASE u = 1
  <2>1. /\ v >= 2 => g[1] = 1000
        /\ v >= 3 => g[2] = 1000000
        /\ v >= 4 => g[3] = 60000000
        /\ v >= 5 => g[4] = 3600000000
        /\ v >= 6 => g[5] = 86400000000
    BY <1>4, <1>5 DEF PerNext
  <2> QED BY <1>2, <1>4, <1>5, <2>1 DEF Products
<1>6. CASE u = 2
  <2>1. /\ v >= 3 => g[1] = 1000
        /\ v >= 4 => g[2] = 60000
        /\ v >= 5 => g[3] = 3600000
        /\ v >= 6 => g[4] = 86400000
    BY <1>4, <1>6 DEF PerNext
  <2> QED BY <1>2, <1>4, <1>6, <2>1 DEF Products
<1> QED BY <1>5, <1>6

(* A duration is shown in the largest unit it fills. *)
LEMMA DurationsRight ==
  ASSUME NEW time \in Nat, NEW unit \in {1, 2}, NEW d, d = formatTime(time, unit)
  PROVE  /\ d.count = time \div Factor(unit, d.unit)
         /\ time > 0 => d.count > 0
         /\ d.unit < 6 => d.count < <<1900, 1900, 61, 61, 25>>[d.unit]
<1>1. PICK g : /\ g[0] = [count |-> time, unit |-> unit]
               /\ \A i \in 1 .. 5 : g[i] = NextUnit(g[i - 1], i)
               /\ d = g[5]
  BY Counted
<1> DEFINE Full(n, u) == n > PerNext[u] /\ (PerNext[u] = 1000 => n >= 1900)
           After(x, i) ==
             /\ x = [count |-> x.count, unit |-> x.unit] /\ x.count \in Nat /\ x.unit \in unit .. 6
             /\ x.count = time \div Products[unit][x.unit]
             /\ time > 0 => x.count > 0
             /\ x.unit <= i => ~Full(x.count, x.unit)
             /\ x.unit <= i + 1 \/ x.unit = unit
<1>2. After(g[0], 0)
  BY <1>1 DEF Products
<1>3. ASSUME NEW i \in 1 .. 5, After(g[i - 1], i - 1) PROVE After(g[i], i)
  <2>1. PICK n \in Nat, u \in unit .. 6 : g[i - 1] = [count |-> n, unit |-> u]
    BY <1>3
  <2>2. /\ n = time \div Products[unit][u]
        /\ time > 0 => n > 0
        /\ u <= i - 1 => ~Full(n, u)
        /\ u <= i \/ u = unit
    BY <1>3, <2>1
  <2>5. PerNext[u] \in Nat
    BY DEF PerNext
  <2>6. g[i] = NextUnit([count |-> n, unit |-> u], i)
    BY <1>1, <2>1
  <2>3. CASE u # i \/ ~Full(n, u)
    <3>1. NextUnit([count |-> n, unit |-> u], i) = [count |-> n, unit |-> u]
      BY <2>3, <2>5 DEF NextUnit
    <3> QED BY <2>2, <2>3, <2>6, <3>1
  <2>4. CASE u = i /\ Full(n, u)
    <3>1. NextUnit([count |-> n, unit |-> u], i) = [count |-> n \div PerNext[u], unit |-> u + 1]
      BY <2>4, <2>5 DEF NextUnit
    <3>2. /\ n \div PerNext[u] \in Nat /\ n \div PerNext[u] > 0
          /\ u \in 1 .. 5 /\ u + 1 \in unit .. 6
      BY <2>1, <2>4 DEF PerNext
    <3>3. n \div PerNext[u] = time \div Products[unit][u + 1]
      BY <2>2, <3>2 DEF PerNext, Products
    <3> QED BY <2>4, <2>6, <3>1, <3>2, <3>3
  <2> QED BY <2>3, <2>4
<1> HIDE DEF After
<1>4. After(g[5], 5)
  <2>1. After(g[1], 1)
    BY <1>2, <1>3
  <2>2. After(g[2], 2)
    BY <1>3, <2>1
  <2>3. After(g[3], 3)
    BY <1>3, <2>2
  <2>4. After(g[4], 4)
    BY <1>3, <2>3
  <2> QED BY <1>3, <2>4
<1>5. PICK n \in Nat, u \in unit .. 6 : d.count = n /\ d.unit = u
  BY <1>1, <1>4 DEF After
<1>6. u < 6 => n < <<1900, 1900, 61, 61, 25>>[u]
  BY <1>1, <1>4, <1>5 DEF After, PerNext
<1> QED BY <1>1, <1>4, <1>5, <1>6, Factors DEF After

-----------------------------------------------------------------------------
(* Dates: numbers and their digits. *)
(* Numbers taken apart digit by digit. *)
Power(i) == 10 ^ i

(* The powers that are needed. *)
LEMMA Powers ==
  /\ Power(0) = 1 /\ Power(1) = 10 /\ Power(2) = 100 /\ Power(3) = 1000 /\ Power(4) = 10000
  /\ Power(5) = 100000 /\ Power(6) = 1000000
BY DEF Power

(* A digit is what a quotient leaves of the one before. *)
LEMMA Quotients ==
  ASSUME NEW n \in Nat, NEW i \in 0 .. 5
  PROVE  /\ n \div Power(i) \in Nat /\ n \div Power(i + 1) \in Nat
         /\ Digit(n, i) \in 0 .. 9
         /\ n \div Power(i) = 10 * (n \div Power(i + 1)) + Digit(n, i)
<1>1. Digit(n, i) = (n \div Power(i)) % 10
  BY DEF Digit, Power
<1>2. CASE i = 0
  BY <1>1, <1>2, Powers
<1>3. CASE i = 1
  BY <1>1, <1>3, Powers
<1>4. CASE i = 2
  BY <1>1, <1>4, Powers
<1>5. CASE i = 3
  BY <1>1, <1>5, Powers
<1>6. CASE i = 4
  BY <1>1, <1>6, Powers
<1>7. CASE i = 5
  BY <1>1, <1>7, Powers
<1> QED BY <1>2, <1>3, <1>4, <1>5, <1>6, <1>7

(* Quotients are ordered as the numbers. *)
LEMMA QuotientsOrdered ==
  ASSUME NEW n \in Nat, NEW m \in Nat, n <= m, NEW i \in 0 .. 6
  PROVE  n \div Power(i) <= m \div Power(i)
BY Powers

(* The first digit in which two numbers differ is the smaller one's. *)
LEMMA DigitsSort ==
  ASSUME NEW w \in 1 .. 6, NEW n \in Nat, NEW m \in Nat, n < m, m < Power(w)
  PROVE  \E i \in 0 .. w - 1 : /\ Digit(n, i) < Digit(m, i)
                               /\ \A j \in i + 1 .. w - 1 : Digit(n, j) = Digit(m, j)
<1> DEFINE q == [i \in 0 .. 6 |-> n \div Power(i)]
           r == [i \in 0 .. 6 |-> m \div Power(i)]
           T == {k \in Nat : k <= w /\ q[w - k] # r[w - k]}
<1>1. q[w] = 0 /\ r[w] = 0
  BY Powers
<1>2. q[0] = n /\ r[0] = m
  BY Powers
<1>3. \A i \in 0 .. 5 : /\ q[i] \in Nat /\ r[i] \in Nat /\ q[i] <= r[i]
                        /\ Digit(n, i) \in 0 .. 9 /\ Digit(m, i) \in 0 .. 9
                        /\ q[i] = 10 * q[i + 1] + Digit(n, i)
                        /\ r[i] = 10 * r[i + 1] + Digit(m, i)
  <2> SUFFICES ASSUME NEW i \in 0 .. 5
               PROVE  /\ q[i] \in Nat /\ r[i] \in Nat /\ q[i] <= r[i]
                      /\ Digit(n, i) \in 0 .. 9 /\ Digit(m, i) \in 0 .. 9
                      /\ q[i] = 10 * q[i + 1] + Digit(n, i)
                      /\ r[i] = 10 * r[i + 1] + Digit(m, i)
    BY Zenon
  <2>1. /\ q[i] = n \div Power(i) /\ q[i + 1] = n \div Power(i + 1)
        /\ r[i] = m \div Power(i) /\ r[i + 1] = m \div Power(i + 1)
    OBVIOUS
  <2>2. n \div Power(i) <= m \div Power(i)
    BY QuotientsOrdered
  <2> HIDE DEF q, r
  <2> QED BY <2>1, <2>2, Quotients
<1>4. \A i \in 0 .. 6 : q[i] \in Nat /\ r[i] \in Nat
  BY Powers
<1> HIDE DEF q, r
<1>5. PICK k \in T : \A y \in T : k <= y
  <2>1. w \in T
    BY <1>2
  <2> QED BY <2>1, Counting!LeastNat
<1> DEFINE i == w - k
<1>6. i \in 0 .. w - 1 /\ q[i] # r[i] /\ q[i + 1] = r[i + 1]
  <2>1. k # 0
    BY <1>1
  <2>2. k - 1 \in Nat /\ k - 1 \notin T
    BY <1>5, <2>1
  <2> QED BY <1>5, <2>1, <2>2
<1>7. \A j \in i + 1 .. w - 1 : Digit(n, j) = Digit(m, j)
  <2> SUFFICES ASSUME NEW j \in i + 1 .. w - 1 PROVE Digit(n, j) = Digit(m, j)
    OBVIOUS
  <2>1. w - j \in Nat /\ w - j \notin T /\ w - (j + 1) \in Nat /\ w - (j + 1) \notin T
    BY <1>5
  <2>2. q[j] = r[j] /\ q[j + 1] = r[j + 1]
    BY <2>1
  <2>3. j \in 0 .. 5
    BY <1>6
  <2>4. /\ q[j] = 10 * q[j + 1] + Digit(n, j) /\ r[j] = 10 * r[j + 1] + Digit(m, j)
        /\ Digit(n, j) \in 0 .. 9 /\ Digit(m, j) \in 0 .. 9 /\ q[j + 1] \in Nat
    BY <1>3, <1>4, <2>3
  <2>5. PICK x \in Nat, y \in Nat : x = q[j + 1] /\ y = q[j]
    BY <1>3, <1>4, <2>3
  <2>6. y = 10 * x + Digit(n, j) /\ y = 10 * x + Digit(m, j)
    BY <2>2, <2>4, <2>5
  <2>7. PICK d \in 0 .. 9, e \in 0 .. 9 : d = Digit(n, j) /\ e = Digit(m, j)
    BY <2>4
  <2>8. d = e
    BY <2>6, <2>7
  <2> QED BY <2>7, <2>8
<1> HIDE DEF i
<1>8. Digit(n, i) < Digit(m, i)
  <2>1. i \in 0 .. 5
    BY <1>6
  <2>2. /\ q[i] \in Nat /\ r[i] \in Nat /\ q[i] <= r[i]
        /\ Digit(n, i) \in 0 .. 9 /\ Digit(m, i) \in 0 .. 9
        /\ q[i] = 10 * q[i + 1] + Digit(n, i) /\ r[i] = 10 * r[i + 1] + Digit(m, i)
        /\ q[i + 1] \in Nat /\ r[i + 1] \in Nat
    BY <1>3, <1>4, <2>1
  <2> QED BY <1>6, <2>2
<1> QED BY <1>6, <1>7, <1>8

(* w digits of x in a, from place k + 1 on; two texts alike up to place k. *)
Part(a, k, w, x) == \A i \in 1 .. w : a[k + i] = Digit(x, w - i)
Alike(a, b, k) == \A i \in 1 .. k : a[i] = b[i]

(* Two texts that agree but for a number, digit by digit from place k + 1  *)
(* on, sort as the numbers.                                                *)
LEMMA PartSorts ==
  ASSUME NEW N \in Nat, NEW a, NEW b, DOMAIN a = 1 .. N, NEW k \in Nat, Alike(a, b, k),
         NEW w \in 1 .. 6, k + w <= N, NEW n \in Nat, NEW m \in Nat, n < m, m < Power(w),
         Part(a, k, w, n), Part(b, k, w, m)
  PROVE  SortsBefore(a, b)
<1>5. \A i \in 1 .. w : a[k + i] = Digit(n, w - i) /\ b[k + i] = Digit(m, w - i)
  BY DEF Part
<1>6. \A i \in 1 .. k : a[i] = b[i]
  BY DEF Alike
<1>1. PICK i \in 0 .. w - 1 : /\ Digit(n, i) < Digit(m, i)
                              /\ \A j \in i + 1 .. w - 1 : Digit(n, j) = Digit(m, j)
  BY DigitsSort
<1>2. PICK e \in 1 .. w : e = w - i
  OBVIOUS
<1>3. a[k + e] < b[k + e] /\ k + e \in DOMAIN a
  BY <1>5, <1>1, <1>2
<1>4. ASSUME NEW j \in 1 .. (k + e) - 1 PROVE a[j] = b[j]
  <2>1. CASE j <= k
    BY <1>6, <2>1
  <2>2. CASE j > k
    <3>1. PICK d \in 1 .. w : j = k + d /\ d < e
      BY <1>2, <2>2
    <3>2. w - d \in i + 1 .. w - 1
      BY <1>2, <3>1
    <3> QED BY <1>5, <1>1, <3>1, <3>2
  <2> QED BY <2>1, <2>2
<1> QED BY <1>3, <1>4 DEF SortsBefore

-----------------------------------------------------------------------------
(* Dates: the loop that writes them. *)
(* What is in a concatenation. *)
LEMMA ConcatFacts ==
  ASSUME NEW S, NEW d \in Seq(S), NEW e \in Seq(S)
  PROVE  /\ d \o e \in Seq(S) /\ Len(d \o e) = Len(d) + Len(e)
         /\ \A i \in 1 .. Len(d) : (d \o e)[i] = d[i]
         /\ \A i \in 1 .. Len(e) : (d \o e)[Len(d) + i] = e[i]
OBVIOUS

(* A padded number of at most eight digits has all its digits. *)
LEMMA Padded ==
  ASSUME NEW n, NEW w \in 1 .. 8
  PROVE  convertAndAddToBuff(n, w, TRUE) = Digits(n, w)
<1>1. Min({w, 8}) = w
  BY DEF Min
<1> QED BY <1>1 DEF convertAndAddToBuff

(* The first n characters of F. *)
Prefix(F, n) == [i \in 1 .. n |-> F[i]]

(* The buffer takes the next characters of a text. *)
LEMMA Added ==
  ASSUME NEW F, NEW n \in Nat, NEW m \in Nat, n + m <= 30, \A i \in 1 .. n + m : F[i] \in Int,
         NEW new \in Seq(Int), Len(new) = m, \A i \in 1 .. m : new[i] = F[n + i]
  PROVE  addToBuff(Prefix(F, n), new, 30) = Prefix(F, n + m)
<1> DEFINE buf == Prefix(F, n)
           all == buf \o new
<1>1. buf \in Seq(Int) /\ Len(buf) = n /\ \A i \in 1 .. n : buf[i] = F[i]
  <2>1. \A i \in 1 .. n : F[i] \in Int
    OBVIOUS
  <2> QED BY <2>1 DEF Prefix
<1> HIDE DEF buf
<1>3. /\ all \in Seq(Int) /\ Len(all) = n + m
      /\ \A i \in 1 .. n : all[i] = F[i]
      /\ \A i \in 1 .. m : all[n + i] = F[n + i]
  BY <1>1, ConcatFacts
<1> HIDE DEF all
<1>4. ASSUME NEW i \in 1 .. n + m PROVE all[i] = F[i]
  <2>1. i \in 1 .. n \/ (i - n \in 1 .. m /\ i = n + (i - n))
    OBVIOUS
  <2> QED BY <1>3, <2>1
<1>5. Min({n + m, 30}) = n + m
  BY DEF Min
<1>6. SubSeq(all, 1, n + m) = Prefix(F, n + m)
  BY <1>3, <1>4 DEF Prefix
<1>7. addToBuff(buf, new, 30) = Prefix(F, n + m)
  BY <1>1, <1>5, <1>6 DEF addToBuff, all
<1> QED BY <1>7 DEF buf

Char(q, st, c) == ParsedChar(st, c, q[1], q[2], q[3])
Parsing == INSTANCE Loops WITH Op <- Char

(* The states of the loop that writes a date. *)
LEMMA Parsed ==
  ASSUME NEW t, NEW p
  PROVE  \E g : /\ g[0] = [buf |-> <<>>, escape |-> FALSE]
                /\ \A i \in 1 .. 20 : g[i] = ParsedChar(g[i - 1], DefaultDateFormat[i], t, p, 30)
                /\ ~g[20].escape => parseFormat(DefaultDateFormat, t, p, 30) = g[20].buf
<1> DEFINE b == [buf |-> <<>>, escape |-> FALSE]
           q == <<t, p, 30>>
           s == DefaultDateFormat
           end == FoldLeft(LAMBDA st, c : ParsedChar(st, c, t, p, 30), b, s)
<1>1. DOMAIN s = 1 .. 20
  BY DEF DefaultDateFormat
<1>2. end = Parsing!Fold(q, b, s)
  BY DEF Parsing!Fold, Parsing!MapThenFoldSet, FoldLeft, MapThenFoldSet, Char,
         Max, Parsing!Max
<1>3. ~end.escape => parseFormat(DefaultDateFormat, t, p, 30) = end.buf
  BY DEF parseFormat
<1> HIDE DEF s, b, end
<1>4. PICK g : Parsing!Run(q, b, s, 20, g)
  BY <1>1, Parsing!FoldSteps
<1>5. /\ g[0] = b /\ end = g[20]
      /\ \A i \in 1 .. 20 : g[i] = ParsedChar(g[i - 1], s[i], t, p, 30)
  BY <1>2, <1>4 DEF Parsing!Run, Char
<1> QED BY <1>3, <1>5 DEF b, s

(* The steps of the loop: a buffer of the first n characters of F grows.   *)
State(F, n, e) == [buf |-> Prefix(F, n), escape |-> e]

(* A percent sign is remembered. *)
LEMMA PercentStep ==
  ASSUME NEW F, NEW n \in Nat, NEW t, NEW p
  PROVE  ParsedChar(State(F, n, FALSE), "%", t, p, 30) = State(F, n, TRUE)
BY DEF ParsedChar, State, Escape

(* A date in the default format with w digits of subseconds.               *)
Shown(t, w) ==
  LET d == TimeInfo(t)
  IN  [i \in 1 .. 20 + w |->
         IF i \in {5, 8, 11, 14, 17, 20} THEN -1
         ELSE IF i < 5 THEN Digit(d.year, 4 - i)
         ELSE IF i < 8 THEN Digit(d.month, 7 - i)
         ELSE IF i < 11 THEN Digit(d.day, 10 - i)
         ELSE IF i < 14 THEN Digit(d.hour, 13 - i)
         ELSE IF i < 17 THEN Digit(d.min, 16 - i)
         ELSE IF i < 20 THEN Digit(d.sec, 19 - i)
         ELSE Digit(d.usec \div Offset(w), 20 + w - i)]

(* What a time of January is taken apart into. *)
LEMMA TimesOfJanuary ==
  ASSUME NEW t \in Times, NEW w \in 3 .. 6
  PROVE  LET d == TimeInfo(t)
         IN  /\ d.year = 2018 /\ d.month = 1
             /\ d.day \in 1 .. 31 /\ d.hour \in 0 .. 23 /\ d.min \in 0 .. 59 /\ d.sec \in 0 .. 59
             /\ d.usec \in Nat /\ d.usec \div Offset(w) \in Nat
             /\ d.usec \div Offset(w) < Power(w)
<1>1. PICK s \in Nat, u \in Nat : s = t.sec /\ u = t.usec /\ u < 1000000 /\ s < 31 * 86400
  BY TimesAssumption DEF Instant
<1>2. \A d : d = TimeInfo(t) =>
        /\ d.year = 2018 /\ d.month = 1 /\ d.day = 1 + s \div 86400
        /\ d.hour = (s \div 3600) % 24 /\ d.min = (s \div 60) % 60 /\ d.sec = s % 60
        /\ d.usec = u
  BY <1>1 DEF TimeInfo
<1>3. /\ 1 + s \div 86400 \in 1 .. 31 /\ (s \div 3600) % 24 \in 0 .. 23
      /\ (s \div 60) % 60 \in 0 .. 59 /\ s % 60 \in 0 .. 59
  BY <1>1
<1>4. u \div Offset(w) \in Nat /\ u \div Offset(w) < Power(w)
  <2>1. CASE w = 3
    BY <1>1, <2>1, Powers DEF Offset
  <2>2. CASE w = 4
    BY <1>1, <2>2, Powers DEF Offset
  <2>3. CASE w = 5
    BY <1>1, <2>3, Powers DEF Offset
  <2>4. CASE w = 6
    BY <1>1, <2>4, Powers DEF Offset
  <2> QED BY <2>1, <2>2, <2>3, <2>4
<1> QED BY <1>2, <1>3, <1>4

(* Any digit is a number between 0 and 9. *)
LEMMA DigitType ==
  ASSUME NEW n \in Nat, NEW i \in 0 .. 5
  PROVE  Digit(n, i) \in Int
<1>1. Digit(n, i) \in 0 .. 9
  BY Quotients
<1> QED BY <1>1

(* Every place of a date is a number. *)
LEMMA ShownType ==
  ASSUME NEW t \in Times, NEW w \in 3 .. 6, NEW i \in 1 .. 20 + w
  PROVE  Shown(t, w)[i] \in Int
<1> DEFINE d == TimeInfo(t)
<1>1. /\ d.year \in Nat /\ d.month \in Nat /\ d.day \in Nat /\ d.hour \in Nat /\ d.min \in Nat
      /\ d.sec \in Nat /\ d.usec \div Offset(w) \in Nat
  BY TimesOfJanuary
<1>2. Shown(t, w)[i] = IF i \in {5, 8, 11, 14, 17, 20} THEN -1
         ELSE IF i < 5 THEN Digit(d.year, 4 - i)
         ELSE IF i < 8 THEN Digit(d.month, 7 - i)
         ELSE IF i < 11 THEN Digit(d.day, 10 - i)
         ELSE IF i < 14 THEN Digit(d.hour, 13 - i)
         ELSE IF i < 17 THEN Digit(d.min, 16 - i)
         ELSE IF i < 20 THEN Digit(d.sec, 19 - i)
         ELSE Digit(d.usec \div Offset(w), 20 + w - i)
  BY DEF Shown
<1> HIDE DEF d
<1>3. CASE i \in {5, 8, 11, 14, 17, 20}
  BY <1>2, <1>3
<1>4. CASE i < 5
  BY <1>1, <1>2, <1>4, DigitType
<1>5. CASE i \in {6, 7}
  BY <1>1, <1>2, <1>5, DigitType
<1>6. CASE i \in {9, 10}
  BY <1>1, <1>2, <1>6, DigitType
<1>7. CASE i \in {12, 13}
  BY <1>1, <1>2, <1>7, DigitType
<1>8. CASE i \in {15, 16}
  BY <1>1, <1>2, <1>8, DigitType
<1>9. CASE i \in {18, 19}
  BY <1>1, <1>2, <1>9, DigitType
<1>10. CASE i > 20
  BY <1>1, <1>2, <1>10, DigitType
<1> QED BY <1>3, <1>4, <1>5, <1>6, <1>7, <1>8, <1>9, <1>10

(* What the letters of the default format stand for. *)
LEMMA FieldsOfLetters ==
  ASSUME NEW d, NEW p, p.width \in 1 .. 8
  PROVE  /\ Field("Y", d, p) = Digits(d.year, 4) /\ Field("M", d, p) = Digits(d.month, 2)
         /\ Field("d", d, p) = Digits(d.day, 2) /\ Field("H", d, p) = Digits(d.hour, 2)
         /\ Field("m", d, p) = Digits(d.min, 2) /\ Field("s", d, p) = Digits(d.sec, 2)
         /\ Field("g", d, p) = Digits(Subseconds(d.usec, p), p.width)
<1>1. Field("Y", d, p) = convertAndAddToBuff(d.year, 4, TRUE)
  BY DEF Field
<1>2. Field("M", d, p) = convertAndAddToBuff(d.month, 2, TRUE)
  BY DEF Field
<1>3. Field("d", d, p) = convertAndAddToBuff(d.day, 2, TRUE)
  BY DEF Field
<1>4. Field("H", d, p) = convertAndAddToBuff(d.hour, 2, TRUE)
  BY DEF Field
<1>5. Field("m", d, p) = convertAndAddToBuff(d.min, 2, TRUE)
  BY DEF Field
<1>6. Field("s", d, p) = convertAndAddToBuff(d.sec, 2, TRUE)
  BY DEF Field
<1>7. Field("g", d, p) = convertAndAddToBuff(Subseconds(d.usec, p), p.width, TRUE)
  BY DEF Field
<1>8. \A n : convertAndAddToBuff(n, 4, TRUE) = Digits(n, 4)
  <2>1. 4 \in 1 .. 8
    OBVIOUS
  <2> QED BY <2>1, Padded, Zenon
<1>9. \A n : convertAndAddToBuff(n, 2, TRUE) = Digits(n, 2)
  <2>1. 2 \in 1 .. 8
    OBVIOUS
  <2> QED BY <2>1, Padded, Zenon
<1>10. \A n : convertAndAddToBuff(n, p.width, TRUE) = Digits(n, p.width)
  BY Padded
<1> QED BY <1>1, <1>2, <1>3, <1>4, <1>5, <1>6, <1>7, <1>8, <1>9, <1>10

(* The default format, a character at a time. *)
LEMMA DefaultFormat ==
  /\ DefaultDateFormat[1] = "%" /\ DefaultDateFormat[2] = "Y"
  /\ DefaultDateFormat[3] # "%" /\ DefaultDateFormat[4] = "%"
  /\ DefaultDateFormat[5] = "M" /\ DefaultDateFormat[6] # "%"
  /\ DefaultDateFormat[7] = "%" /\ DefaultDateFormat[8] = "d"
  /\ DefaultDateFormat[9] # "%" /\ DefaultDateFormat[10] = "%"
  /\ DefaultDateFormat[11] = "H" /\ DefaultDateFormat[12] # "%"
  /\ DefaultDateFormat[13] = "%" /\ DefaultDateFormat[14] = "m"
  /\ DefaultDateFormat[15] # "%" /\ DefaultDateFormat[16] = "%"
  /\ DefaultDateFormat[17] = "s" /\ DefaultDateFormat[18] # "%"
  /\ DefaultDateFormat[19] = "%" /\ DefaultDateFormat[20] = "g"
<1>1. DefaultDateFormat[1] = "%"
  BY DEF DefaultDateFormat
<1>2. DefaultDateFormat[2] = "Y"
  BY DEF DefaultDateFormat
<1>3. DefaultDateFormat[3] # "%"
  BY DEF DefaultDateFormat
<1>4. DefaultDateFormat[4] = "%"
  BY DEF DefaultDateFormat
<1>5. DefaultDateFormat[5] = "M"
  BY DEF DefaultDateFormat
<1>6. DefaultDateFormat[6] # "%"
  BY DEF DefaultDateFormat
<1>7. DefaultDateFormat[7] = "%"
  BY DEF DefaultDateFormat
<1>8. DefaultDateFormat[8] = "d"
  BY DEF DefaultDateFormat
<1>9. DefaultDateFormat[9] # "%"
  BY DEF DefaultDateFormat
<1>10. DefaultDateFormat[10] = "%"
  BY DEF DefaultDateFormat
<1>11. DefaultDateFormat[11] = "H"
  BY DEF DefaultDateFormat
<1>12. DefaultDateFormat[12] # "%"
  BY DEF DefaultDateFormat
<1>13. DefaultDateFormat[13] = "%"
  BY DEF DefaultDateFormat
<1>14. DefaultDateFormat[14] = "m"
  BY DEF DefaultDateFormat
<1>15. DefaultDateFormat[15] # "%"
  BY DEF DefaultDateFormat
<1>16. DefaultDateFormat[16] = "%"
  BY DEF DefaultDateFormat
<1>17. DefaultDateFormat[17] = "s"
  BY DEF DefaultDateFormat
<1>18. DefaultDateFormat[18] # "%"
  BY DEF DefaultDateFormat
<1>19. DefaultDateFormat[19] = "%"
  BY DEF DefaultDateFormat
<1>20. DefaultDateFormat[20] = "g"
  BY DEF DefaultDateFormat
<1> QED BY <1>1, <1>2, <1>3, <1>4, <1>5, <1>6, <1>7, <1>8, <1>9, <1>10, <1>11, <1>12, <1>13, <1>14, <1>15, <1>16, <1>17, <1>18, <1>19, <1>20

(* The states of the loop that writes the date, one for each character.    *)
Steps(g, d, p) ==
  /\ g[0] = [buf |-> <<>>, escape |-> FALSE]
  /\ \A i \in 1 .. 20 : g[i] = ParsedChar(g[i - 1], DefaultDateFormat[i], d, p, 30)

(* From state k to state i; a text of numbers; w digits of x in a text,    *)
(* from place n to place m.                                                *)
Follows(g, k, i, d, p) == g[i] = ParsedChar(g[k], DefaultDateFormat[i], d, p, 30)
Reaches(g, i, F, n, e) == g[i] = State(F, n, e)
Numeric(F, m) == \A j \in 1 .. m : F[j] \in Int
Holds(F, n, m, x, w) ==
  /\ n \in Nat /\ w \in 1 .. 8 /\ m = n + w /\ m <= 30
  /\ \A j \in 1 .. w : F[n + j] = Digit(x, w - j)
NotEscape(i) == DefaultDateFormat[i] # "%"
Separates(F, n, m) == n \in Nat /\ m = n + 1 /\ m <= 30 /\ F[m] = -1

(* From one state of the loop to the next. *)
LEMMA Following ==
  ASSUME NEW g, NEW d, NEW p, Steps(g, d, p), NEW k \in 0 .. 19, NEW i, i = k + 1
  PROVE  Follows(g, k, i, d, p)
<1>1. i \in 1 .. 20 /\ i - 1 = k
  OBVIOUS
<1> QED BY <1>1 DEF Steps, Follows

(* The start of a field. *)
LEMMA AtPercent ==
  ASSUME NEW g, NEW k, NEW i, NEW d, NEW p, Follows(g, k, i, d, p), NEW F, NEW n \in Nat,
         Reaches(g, k, F, n, FALSE), DefaultDateFormat[i] = "%"
  PROVE  Reaches(g, i, F, n, TRUE)
BY PercentStep DEF Follows, Reaches

(* A character that stands for itself. *)
LEMMA AtSeparator ==
  ASSUME NEW g, NEW k, NEW i, NEW d, NEW p, Follows(g, k, i, d, p), NEW F, NEW n, NEW m,
         Reaches(g, k, F, n, FALSE), NotEscape(i),
         Numeric(F, m), Separates(F, n, m)
  PROVE  Reaches(g, i, F, m, FALSE)
<1>1. n \in Nat /\ n + 1 <= 30 /\ F[n + 1] = -1 /\ m = n + 1
  BY DEF Separates
<1>2. \A j \in 1 .. n + 1 : F[j] \in Int
  BY <1>1 DEF Numeric
<1>3. <<-1>> \in Seq(Int) /\ Len(<<-1>>) = 1 /\ \A j \in 1 .. 1 : <<-1>>[j] = F[n + j]
  BY <1>1
<1>4. addToBuff(Prefix(F, n), <<-1>>, 30) = Prefix(F, n + 1)
  BY <1>1, <1>2, <1>3, Added
<1>5. ParsedChar(State(F, n, FALSE), DefaultDateFormat[i], d, p, 30) = State(F, n + 1, FALSE)
  BY <1>4 DEF ParsedChar, State, Escape, NotEscape
<1> QED BY <1>1, <1>5 DEF Follows, Reaches

(* A character that stands for itself, and the start of the next field.   *)
LEMMA ToNextField ==
  ASSUME NEW g, NEW k, NEW i, NEW j, NEW d, NEW p, Follows(g, k, i, d, p), Follows(g, i, j, d, p),
         NEW F, NEW n, NEW m, Reaches(g, k, F, n, FALSE), NotEscape(i),
         DefaultDateFormat[j] = "%", Numeric(F, m), Separates(F, n, m)
  PROVE  Reaches(g, j, F, m, TRUE)
<1>1. Reaches(g, i, F, m, FALSE)
  BY AtSeparator
<1>2. m \in Nat
  BY DEF Separates
<1> QED BY <1>1, <1>2, AtPercent

(* A field. *)
LEMMA AtField ==
  ASSUME NEW g, NEW k, NEW i, NEW d, NEW p, Follows(g, k, i, d, p), NEW F, NEW n, NEW m,
         Reaches(g, k, F, n, TRUE), DefaultDateFormat[i] # "%",
         Numeric(F, m), NEW x, NEW w, Holds(F, n, m, x, w),
         Field(DefaultDateFormat[i], d, p) = Digits(x, w)
  PROVE  Reaches(g, i, F, m, FALSE)
<1>1. n \in Nat /\ w \in 1 .. 8 /\ n + w <= 30 /\ m = n + w
  BY DEF Holds
<1>2. \A j \in 1 .. n + w : F[j] \in Int
  BY <1>1 DEF Numeric
<1>3. \A j \in 1 .. w : Digit(x, w - j) = F[n + j] /\ Digit(x, w - j) \in Int
  BY <1>1, <1>2 DEF Holds
<1>4. /\ Digits(x, w) \in Seq(Int) /\ Len(Digits(x, w)) = w
      /\ \A j \in 1 .. w : Digits(x, w)[j] = F[n + j]
  BY <1>1, <1>3 DEF Digits
<1>5. addToBuff(Prefix(F, n), Digits(x, w), 30) = Prefix(F, n + w)
  BY <1>1, <1>2, <1>4, Added
<1>6. ParsedChar(State(F, n, TRUE), DefaultDateFormat[i], d, p, 30) = State(F, n + w, FALSE)
  BY <1>5 DEF ParsedChar, State, Escape
<1> QED BY <1>1, <1>6 DEF Follows, Reaches

(* The loop writes a date as it is shown. *)
LEMMA DateShown ==
  ASSUME NEW t \in Times, NEW width \in 0 .. 7, width \notin {1, 2},
         NEW w \in 3 .. 6, w = IF width \in 1 .. 6 THEN width ELSE 3
  PROVE  DateTimeOf(t, width) = Shown(t, w)
<1> DEFINE F == Shown(t, w)
           d == TimeInfo(t)
           p == SubsecondPrecision(width)
<1>1. \A n \in Nat : n <= 20 + w => \A i \in 1 .. n : F[i] \in Int
  BY ShownType
<1>2. PICK g : /\ Steps(g, d, p)
               /\ ~g[20].escape => parseFormat(DefaultDateFormat, d, p, 30) = g[20].buf
  BY Parsed DEF Steps
<1>3. /\ Field("Y", d, p) = Digits(d.year, 4) /\ Field("M", d, p) = Digits(d.month, 2)
      /\ Field("d", d, p) = Digits(d.day, 2) /\ Field("H", d, p) = Digits(d.hour, 2)
      /\ Field("m", d, p) = Digits(d.min, 2) /\ Field("s", d, p) = Digits(d.sec, 2)
      /\ Field("g", d, p) = Digits(d.usec \div Offset(w), w)
  <2>1. p.width = w /\ Subseconds(d.usec, p) = d.usec \div Offset(w)
    BY DEF SubsecondPrecision, Subseconds
  <2> HIDE DEF d, p
  <2> QED BY <2>1, FieldsOfLetters
<1>4. /\ \A i \in 1 .. 4 : F[0 + i] = Digit(d.year, 4 - i)
      /\ \A i \in 1 .. 2 : F[5 + i] = Digit(d.month, 2 - i)
      /\ \A i \in 1 .. 2 : F[8 + i] = Digit(d.day, 2 - i)
      /\ \A i \in 1 .. 2 : F[11 + i] = Digit(d.hour, 2 - i)
      /\ \A i \in 1 .. 2 : F[14 + i] = Digit(d.min, 2 - i)
      /\ \A i \in 1 .. 2 : F[17 + i] = Digit(d.sec, 2 - i)
      /\ \A i \in 1 .. w : F[20 + i] = Digit(d.usec \div Offset(w), w - i)
      /\ \A i \in {5, 8, 11, 14, 17, 20} : F[i] = -1
  <2> HIDE DEF d
  <2> QED BY DEF Shown, d
<1> HIDE DEF F, d, p
<1>5. Reaches(g, 0, F, 0, FALSE)
  <2>1. Prefix(F, 0) = <<>>
    BY DEF Prefix
  <2> QED BY <1>2, <2>1 DEF State, Steps, Reaches
<1>6. \A m \in 0 .. 20 + w : Numeric(F, m)
  BY <1>1 DEF Numeric
<1>7. Reaches(g, 1, F, 0, TRUE)
  <2>1. Follows(g, 0, 1, d, p)
    BY <1>2, Following
  <2> QED BY <1>5, <2>1, AtPercent, DefaultFormat
<1>8. Reaches(g, 2, F, 4, FALSE)
  <2>1. Follows(g, 1, 2, d, p)
    BY <1>2, Following
  <2>2. Holds(F, 0, 4, d.year, 4)
    BY <1>4 DEF Holds
  <2>3. Field(DefaultDateFormat[2], d, p) = Digits(d.year, 4) /\ DefaultDateFormat[2] # "%"
    BY <1>3, DefaultFormat
  <2>4. Numeric(F, 4)
    BY <1>6
  <2> QED BY <1>7, <2>1, <2>2, <2>3, <2>4, AtField
<1>9. Reaches(g, 4, F, 5, TRUE)
  <2>1. Follows(g, 2, 3, d, p)
    BY <1>2, Following
  <2>2. Follows(g, 3, 4, d, p)
    BY <1>2, Following
  <2>3. Separates(F, 4, 5)
    BY <1>4 DEF Separates
  <2>4. NotEscape(3)
    BY DefaultFormat DEF NotEscape
  <2>5. Numeric(F, 5)
    BY <1>6
  <2> QED BY <1>8, <2>1, <2>2, <2>3, <2>4, <2>5, ToNextField, DefaultFormat
<1>10. Reaches(g, 5, F, 7, FALSE)
  <2>1. Follows(g, 4, 5, d, p)
    BY <1>2, Following
  <2>2. Holds(F, 5, 7, d.month, 2)
    BY <1>4 DEF Holds
  <2>3. Field(DefaultDateFormat[5], d, p) = Digits(d.month, 2) /\ DefaultDateFormat[5] # "%"
    BY <1>3, DefaultFormat
  <2>4. Numeric(F, 7)
    BY <1>6
  <2> QED BY <1>9, <2>1, <2>2, <2>3, <2>4, AtField
<1>11. Reaches(g, 7, F, 8, TRUE)
  <2>1. Follows(g, 5, 6, d, p)
    BY <1>2, Following
  <2>2. Follows(g, 6, 7, d, p)
    BY <1>2, Following
  <2>3. Separates(F, 7, 8)
    BY <1>4 DEF Separates
  <2>4. NotEscape(6)
    BY DefaultFormat DEF NotEscape
  <2>5. Numeric(F, 8)
    BY <1>6
  <2> QED BY <1>10, <2>1, <2>2, <2>3, <2>4, <2>5, ToNextField, DefaultFormat
<1>12. Reaches(g, 8, F, 10, FALSE)
  <2>1. Follows(g, 7, 8, d, p)
    BY <1>2, Following
  <2>2. Holds(F, 8, 10, d.day, 2)
    BY <1>4 DEF Holds
  <2>3. Field(DefaultDateFormat[8], d, p) = Digits(d.day, 2) /\ DefaultDateFormat[8] # "%"
    BY <1>3, DefaultFormat
  <2>4. Numeric(F, 10)
    BY <1>6
  <2> QED BY <1>11, <2>1, <2>2, <2>3, <2>4, AtField
<1>13. Reaches(g, 10, F, 11, TRUE)
  <2>1. Follows(g, 8, 9, d, p)
    BY <1>2, Following
  <2>2. Follows(g, 9, 10, d, p)
    BY <1>2, Following
  <2>3. Separates(F, 10, 11)
    BY <1>4 DEF Separates
  <2>4. NotEscape(9)
    BY DefaultFormat DEF NotEscape
  <2>5. Numeric(F, 11)
    BY <1>6
  <2> QED BY <1>12, <2>1, <2>2, <2>3, <2>4, <2>5, ToNextField, DefaultFormat
<1>14. Reaches(g, 11, F, 13, FALSE)
  <2>1. Follows(g, 10, 11, d, p)
    BY <1>2, Following
  <2>2. Holds(F, 11, 13, d.hour, 2)
    BY <1>4 DEF Holds
  <2>3. Field(DefaultDateFormat[11], d, p) = Digits(d.hour, 2) /\ DefaultDateFormat[11] # "%"
    BY <1>3, DefaultFormat
  <2>4. Numeric(F, 13)
    BY <1>6
  <2> QED BY <1>13, <2>1, <2>2, <2>3, <2>4, AtField
<1>15. Reaches(g, 13, F, 14, TRUE)
  <2>1. Follows(g, 11, 12, d, p)
    BY <1>2, Following
  <2>2. Follows(g, 12, 13, d, p)
    BY <1>2, Following
  <2>3. Separates(F, 13, 14)
    BY <1>4 DEF Separates
  <2>4. NotEscape(12)
    BY DefaultFormat DEF NotEscape
  <2>5. Numeric(F, 14)
    BY <1>6
  <2> QED BY <1>14, <2>1, <2>2, <2>3, <2>4, <2>5, ToNextField, DefaultFormat
<1>16. Reaches(g, 14, F, 16, FALSE)
  <2>1. Follows(g, 13, 14, d, p)
    BY <1>2, Following
  <2>2. Holds(F, 14, 16, d.min, 2)
    BY <1>4 DEF Holds
  <2>3. Field(DefaultDateFormat[14], d, p) = Digits(d.min, 2) /\ DefaultDateFormat[14] # "%"
    BY <1>3, DefaultFormat
  <2>4. Numeric(F, 16)
    BY <1>6
  <2> QED BY <1>15, <2>1, <2>2, <2>3, <2>4, AtField
<1>17. Reaches(g, 16, F, 17, TRUE)
  <2>1. Follows(g, 14, 15, d, p)
    BY <1>2, Following
  <2>2. Follows(g, 15, 16, d, p)
    BY <1>2, Following
  <2>3. Separates(F, 16, 17)
    BY <1>4 DEF Separates
  <2>4. NotEscape(15)
    BY DefaultFormat DEF NotEscape
  <2>5. Numeric(F, 17)
    BY <1>6
  <2> QED BY <1>16, <2>1, <2>2, <2>3, <2>4, <2>5, ToNextField, DefaultFormat
<1>18. Reaches(g, 17, F, 19, FALSE)
  <2>1. Follows(g, 16, 17, d, p)
    BY <1>2, Following
  <2>2. Holds(F, 17, 19, d.sec, 2)
    BY <1>4 DEF Holds
  <2>3. Field(DefaultDateFormat[17], d, p) = Digits(d.sec, 2) /\ DefaultDateFormat[17] # "%"
    BY <1>3, DefaultFormat
  <2>4. Numeric(F, 19)
    BY <1>6
  <2> QED BY <1>17, <2>1, <2>2, <2>3, <2>4, AtField
<1>19. Reaches(g, 19, F, 20, TRUE)
  <2>1. Follows(g, 17, 18, d, p)
    BY <1>2, Following
  <2>2. Follows(g, 18, 19, d, p)
    BY <1>2, Following
  <2>3. Separates(F, 19, 20)
    BY <1>4 DEF Separates
  <2>4. NotEscape(18)
    BY DefaultFormat DEF NotEscape
  <2>5. Numeric(F, 20)
    BY <1>6
  <2> QED BY <1>18, <2>1, <2>2, <2>3, <2>4, <2>5, ToNextField, DefaultFormat
<1>20. Reaches(g, 20, F, 20 + w, FALSE)
  <2>1. Follows(g, 19, 20, d, p)
    BY <1>2, Following
  <2>2. Holds(F, 20, 20 + w, d.usec \div Offset(w), w)
    BY <1>4 DEF Holds
  <2>3. Field(DefaultDateFormat[20], d, p) = Digits(d.usec \div Offset(w), w) /\ DefaultDateFormat[20] # "%"
    BY <1>3, DefaultFormat
  <2>4. Numeric(F, 20 + w)
    BY <1>6
  <2> QED BY <1>19, <2>1, <2>2, <2>3, <2>4, AtField
<1>21. parseFormat(DefaultDateFormat, d, p, 30) = Prefix(F, 20 + w)
  BY <1>2, <1>20 DEF State, Reaches
<1>22. Prefix(F, 20 + w) = F
  BY DEF Prefix, F, Shown
<1> QED BY <1>21, <1>22 DEF DateTimeOf, timevalToString, F, d, p

-----------------------------------------------------------------------------
(* Dates: which of two sorts first. *)
(* A number of seconds taken apart. *)
DayOf(n) == 1 + n \div 86400
HourOf(n) == (n \div 3600) % 24
MinOf(n) == (n \div 60) % 60
SecOf(n) == n % 60
Seconds(day, hour, min, sec) == 86400 * (day - 1) + 3600 * hour + 60 * min + sec

(* The numbers a date in January 2018 shows, and where. *)
Parts(a, w, day, hour, min, sec, sub) ==
  /\ DOMAIN a = 1 .. 20 + w
  /\ \A i \in 1 .. 8 : a[i] = <<2, 0, 1, 8, -1, 0, 1, -1>>[i]
  /\ Part(a, 8, 2, day) /\ a[11] = -1 /\ Part(a, 11, 2, hour) /\ a[14] = -1
  /\ Part(a, 14, 2, min) /\ a[17] = -1 /\ Part(a, 17, 2, sec) /\ a[20] = -1
  /\ Part(a, 20, w, sub)

(* What a date shows. *)
LEMMA PartsOfDates ==
  ASSUME NEW t \in Times, NEW w \in 3 .. 6
  PROVE  Parts(Shown(t, w), w, DayOf(t.sec), HourOf(t.sec), MinOf(t.sec), SecOf(t.sec),
               t.usec \div Offset(w))
<1> DEFINE d == TimeInfo(t)
           a == Shown(t, w)
<1>1. /\ d.year = 2018 /\ d.month = 1 /\ d.day = DayOf(t.sec)
      /\ d.hour = HourOf(t.sec) /\ d.min = MinOf(t.sec) /\ d.sec = SecOf(t.sec)
      /\ d.usec = t.usec
  BY DEF TimeInfo, DayOf, HourOf, MinOf, SecOf
<1>2. /\ DOMAIN a = 1 .. 20 + w
      /\ \A i \in 1 .. 4 : a[i] = Digit(d.year, 4 - i)
      /\ \A i \in 6 .. 7 : a[i] = Digit(d.month, 7 - i)
      /\ \A i \in 1 .. 2 : a[8 + i] = Digit(d.day, 2 - i)
      /\ \A i \in 1 .. 2 : a[11 + i] = Digit(d.hour, 2 - i)
      /\ \A i \in 1 .. 2 : a[14 + i] = Digit(d.min, 2 - i)
      /\ \A i \in 1 .. 2 : a[17 + i] = Digit(d.sec, 2 - i)
      /\ \A i \in 1 .. w : a[20 + i] = Digit(d.usec \div Offset(w), w - i)
      /\ a[5] = -1 /\ a[8] = -1 /\ a[11] = -1 /\ a[14] = -1 /\ a[17] = -1 /\ a[20] = -1
  <2> HIDE DEF d
  <2> QED BY DEF Shown, d
<1>3. /\ Digit(2018, 3) = 2 /\ Digit(2018, 2) = 0 /\ Digit(2018, 1) = 1 /\ Digit(2018, 0) = 8
      /\ Digit(1, 1) = 0 /\ Digit(1, 0) = 1
  BY DEF Digit
<1> HIDE DEF a, d
<1>4. \A i \in 1 .. 8 : a[i] = <<2, 0, 1, 8, -1, 0, 1, -1>>[i]
  <2>1. /\ a[1] = Digit(2018, 3) /\ a[2] = Digit(2018, 2) /\ a[3] = Digit(2018, 1)
        /\ a[4] = Digit(2018, 0) /\ a[6] = Digit(1, 1) /\ a[7] = Digit(1, 0)
    BY <1>1, <1>2
  <2> QED BY <1>2, <1>3, <2>1
<1> QED BY <1>1, <1>2, <1>4 DEF Parts, Part, a

(* Two texts alike up to a number are alike past it where the number is the same. *)
LEMMA AlikeThrough ==
  ASSUME NEW a, NEW b, NEW k \in Nat, NEW j, j = k + 3, NEW x, Alike(a, b, k),
         Part(a, k, 2, x), Part(b, k, 2, x), a[j] = -1, b[j] = -1
  PROVE  Alike(a, b, j)
<1>1. \A i \in 1 .. 2 : a[k + i] = b[k + i]
  BY DEF Part
<1>2. a[k + 1] = b[k + 1] /\ a[k + 2] = b[k + 2] /\ a[k + 3] = b[k + 3]
  BY <1>1
<1>3. \A i \in 1 .. j : i \in 1 .. k \/ i = k + 1 \/ i = k + 2 \/ i = k + 3
  OBVIOUS
<1> QED BY <1>2, <1>3 DEF Alike

(* Two dates sort by the first number in which they differ. *)
LEMMA PartsSort ==
  ASSUME NEW w \in 3 .. 6, NEW a, NEW b,
         NEW day1 \in 1 .. 31, NEW hour1 \in 0 .. 23, NEW min1 \in 0 .. 59, NEW sec1 \in 0 .. 59,
         NEW day2 \in 1 .. 31, NEW hour2 \in 0 .. 23, NEW min2 \in 0 .. 59, NEW sec2 \in 0 .. 59,
         NEW sub1 \in Nat, NEW sub2 \in Nat, sub1 < Power(w), sub2 < Power(w),
         Parts(a, w, day1, hour1, min1, sec1, sub1), Parts(b, w, day2, hour2, min2, sec2, sub2),
         \/ day1 < day2
         \/ day1 = day2 /\ hour1 < hour2
         \/ day1 = day2 /\ hour1 = hour2 /\ min1 < min2
         \/ day1 = day2 /\ hour1 = hour2 /\ min1 = min2 /\ sec1 < sec2
         \/ day1 = day2 /\ hour1 = hour2 /\ min1 = min2 /\ sec1 = sec2 /\ sub1 < sub2
  PROVE  SortsBefore(a, b)
<1>1. Alike(a, b, 8)
  BY DEF Parts, Alike
<1>2. /\ Part(a, 8, 2, day1) /\ Part(a, 11, 2, hour1) /\ Part(a, 14, 2, min1)
      /\ Part(a, 17, 2, sec1) /\ Part(a, 20, w, sub1)
      /\ Part(b, 8, 2, day2) /\ Part(b, 11, 2, hour2) /\ Part(b, 14, 2, min2)
      /\ Part(b, 17, 2, sec2) /\ Part(b, 20, w, sub2)
  BY DEF Parts
<1>3. /\ a[11] = -1 /\ a[14] = -1 /\ a[17] = -1 /\ a[20] = -1
      /\ b[11] = -1 /\ b[14] = -1 /\ b[17] = -1 /\ b[20] = -1
  BY DEF Parts
<1>4. PICK N \in Nat : N = 20 + w /\ DOMAIN a = 1 .. N
  BY DEF Parts
<1>5. 8 + 2 <= N /\ 11 + 2 <= N /\ 14 + 2 <= N /\ 17 + 2 <= N /\ 20 + w <= N
  BY <1>4
<1>6. \A x \in 0 .. 59 : x \in Nat /\ x < Power(2)
  BY Powers
<1>7. day1 = day2 => Alike(a, b, 11)
  <2>1. 8 \in Nat /\ 11 = 8 + 3
    OBVIOUS
  <2> QED BY <1>1, <1>2, <1>3, <2>1, AlikeThrough
<1>8. day1 = day2 /\ hour1 = hour2 => Alike(a, b, 14)
  <2>1. 11 \in Nat /\ 14 = 11 + 3
    OBVIOUS
  <2> QED BY <1>7, <1>2, <1>3, <2>1, AlikeThrough
<1>9. day1 = day2 /\ hour1 = hour2 /\ min1 = min2 => Alike(a, b, 17)
  <2>1. 14 \in Nat /\ 17 = 14 + 3
    OBVIOUS
  <2> QED BY <1>8, <1>2, <1>3, <2>1, AlikeThrough
<1>10. day1 = day2 /\ hour1 = hour2 /\ min1 = min2 /\ sec1 = sec2 => Alike(a, b, 20)
  <2>1. 17 \in Nat /\ 20 = 17 + 3
    OBVIOUS
  <2> QED BY <1>9, <1>2, <1>3, <2>1, AlikeThrough
<1>11. /\ day1 \in Nat /\ day2 \in Nat /\ day2 < Power(2) /\ hour1 \in Nat /\ hour2 \in Nat
       /\ hour2 < Power(2) /\ min1 \in Nat /\ min2 \in Nat /\ min2 < Power(2)
       /\ sec1 \in Nat /\ sec2 \in Nat /\ sec2 < Power(2)
       /\ 2 \in 1 .. 6 /\ w \in 1 .. 6 /\ 8 \in Nat /\ 11 \in Nat /\ 14 \in Nat /\ 17 \in Nat /\ 20 \in Nat
  BY <1>6
<1>12. CASE day1 < day2
  BY <1>1, <1>2, <1>4, <1>5, <1>11, <1>12, PartSorts
<1>13. CASE day1 = day2 /\ hour1 < hour2
  BY <1>2, <1>4, <1>5, <1>7, <1>11, <1>13, PartSorts
<1>14. CASE day1 = day2 /\ hour1 = hour2 /\ min1 < min2
  BY <1>2, <1>4, <1>5, <1>8, <1>11, <1>14, PartSorts
<1>15. CASE day1 = day2 /\ hour1 = hour2 /\ min1 = min2 /\ sec1 < sec2
  BY <1>2, <1>4, <1>5, <1>9, <1>11, <1>15, PartSorts
<1>16. CASE day1 = day2 /\ hour1 = hour2 /\ min1 = min2 /\ sec1 = sec2 /\ sub1 < sub2
  BY <1>2, <1>4, <1>5, <1>10, <1>11, <1>16, PartSorts
<1> QED BY <1>12, <1>13, <1>14, <1>15, <1>16

(* A number of seconds is its days, hours, minutes and seconds. *)
LEMMA Clock ==
  ASSUME NEW n \in Nat, n < 31 * 86400
  PROVE  /\ DayOf(n) \in 1 .. 31 /\ HourOf(n) \in 0 .. 23 /\ MinOf(n) \in 0 .. 59 /\ SecOf(n) \in 0 .. 59
         /\ n = Seconds(DayOf(n), HourOf(n), MinOf(n), SecOf(n))
<1>1. PICK m \in Nat, sec \in 0 .. 59 : m = n \div 60 /\ sec = n % 60 /\ n = 60 * m + sec
  OBVIOUS
<1>2. PICK h \in Nat, min \in 0 .. 59 : h = m \div 60 /\ min = m % 60 /\ m = 60 * h + min
  BY <1>1
<1>3. PICK d \in Nat, hour \in 0 .. 23 : d = h \div 24 /\ hour = h % 24 /\ h = 24 * d + hour
  BY <1>2
<1>4. h = n \div 3600 /\ d = n \div 86400
  BY <1>1, <1>2, <1>3
<1>5. d <= 30
  BY <1>1, <1>2, <1>3
<1>6. DayOf(n) = 1 + d /\ HourOf(n) = hour /\ MinOf(n) = min /\ SecOf(n) = sec
  BY <1>1, <1>2, <1>3, <1>4 DEF DayOf, HourOf, MinOf, SecOf
<1>7. n = 86400 * ((1 + d) - 1) + 3600 * hour + 60 * min + sec
  BY <1>1, <1>2, <1>3
<1>8. 1 + d \in 1 .. 31
  BY <1>5
<1> QED BY <1>6, <1>7, <1>8 DEF Seconds

OnClock(day, hour, min, sec) ==
  day \in 1 .. 31 /\ hour \in 0 .. 23 /\ min \in 0 .. 59 /\ sec \in 0 .. 59

InOrder(day1, hour1, min1, sec1, day2, hour2, min2, sec2) ==
  /\ day1 <= day2
  /\ day1 = day2 => hour1 <= hour2
  /\ day1 = day2 /\ hour1 = hour2 => min1 <= min2
  /\ day1 = day2 /\ hour1 = hour2 /\ min1 = min2 => sec1 <= sec2

(* Seconds are compared from the days on. *)
LEMMA ClocksInOrder ==
  ASSUME NEW day1, NEW hour1, NEW min1, NEW sec1, NEW day2, NEW hour2, NEW min2, NEW sec2,
         OnClock(day1, hour1, min1, sec1), OnClock(day2, hour2, min2, sec2),
         Seconds(day1, hour1, min1, sec1) <= Seconds(day2, hour2, min2, sec2)
  PROVE  InOrder(day1, hour1, min1, sec1, day2, hour2, min2, sec2)
BY SMT DEF OnClock, InOrder, Seconds

(* Of two dates that are not shown alike, the earlier one sorts first.     *)
LEMMA DatesSort ==
  ASSUME NEW s \in Times, NEW t \in Times, NEW w \in 3 .. 6, Before(s, t),
         s.sec # t.sec \/ s.usec \div Offset(w) # t.usec \div Offset(w)
  PROVE  SortsBefore(Shown(s, w), Shown(t, w))
<1>1. PICK n \in Nat, u \in Nat, m \in Nat, v \in Nat :
        n = s.sec /\ u = s.usec /\ m = t.sec /\ v = t.usec /\ n < 31 * 86400 /\ m < 31 * 86400
  BY TimesAssumption DEF Instant
<1>2. PICK sub1 \in Nat, sub2 \in Nat : /\ sub1 = u \div Offset(w) /\ sub2 = v \div Offset(w)
                                        /\ sub1 < Power(w) /\ sub2 < Power(w)
  <2>1. u = TimeInfo(s).usec /\ v = TimeInfo(t).usec
    BY <1>1 DEF TimeInfo
  <2> QED BY <2>1, TimesOfJanuary
<1>3. n < m \/ (n = m /\ sub1 < sub2)
  <2>1. n < m \/ (n = m /\ u < v /\ sub1 # sub2)
    BY <1>1, <1>2 DEF Before
  <2>2. u < v => u \div Offset(w) <= v \div Offset(w)
    BY DEF Offset
  <2> QED BY <1>2, <2>1, <2>2
<1>4. PICK day1 \in 1 .. 31, hour1 \in 0 .. 23, min1 \in 0 .. 59, sec1 \in 0 .. 59 :
        day1 = DayOf(n) /\ hour1 = HourOf(n) /\ min1 = MinOf(n) /\ sec1 = SecOf(n)
  <2>1. /\ DayOf(n) \in 1 .. 31 /\ HourOf(n) \in 0 .. 23 /\ MinOf(n) \in 0 .. 59
        /\ SecOf(n) \in 0 .. 59
    BY <1>1, Clock
  <2> QED BY <2>1, Zenon
<1>5. PICK day2 \in 1 .. 31, hour2 \in 0 .. 23, min2 \in 0 .. 59, sec2 \in 0 .. 59 :
        day2 = DayOf(m) /\ hour2 = HourOf(m) /\ min2 = MinOf(m) /\ sec2 = SecOf(m)
  <2>1. /\ DayOf(m) \in 1 .. 31 /\ HourOf(m) \in 0 .. 23 /\ MinOf(m) \in 0 .. 59
        /\ SecOf(m) \in 0 .. 59
    BY <1>1, Clock
  <2> QED BY <2>1, Zenon
<1>6. \/ day1 < day2
      \/ day1 = day2 /\ hour1 < hour2
      \/ day1 = day2 /\ hour1 = hour2 /\ min1 < min2
      \/ day1 = day2 /\ hour1 = hour2 /\ min1 = min2 /\ sec1 < sec2
      \/ day1 = day2 /\ hour1 = hour2 /\ min1 = min2 /\ sec1 = sec2 /\ sub1 < sub2
  <2>1. n = Seconds(day1, hour1, min1, sec1) /\ m = Seconds(day2, hour2, min2, sec2)
    BY <1>1, <1>4, <1>5, Clock
  <2>2. Seconds(day1, hour1, min1, sec1) <= Seconds(day2, hour2, min2, sec2)
    BY <1>3, <2>1
  <2>3. OnClock(day1, hour1, min1, sec1) /\ OnClock(day2, hour2, min2, sec2)
    BY DEF OnClock
  <2>5. InOrder(day1, hour1, min1, sec1, day2, hour2, min2, sec2)
    BY <2>2, <2>3, ClocksInOrder
  <2>4. day1 = day2 /\ hour1 = hour2 /\ min1 = min2 /\ sec1 = sec2 => sub1 < sub2
    BY <1>3, <2>1
  <2> QED BY <2>4, <2>5 DEF InOrder
<1>7. /\ Parts(Shown(s, w), w, day1, hour1, min1, sec1, sub1)
      /\ Parts(Shown(t, w), w, day2, hour2, min2, sec2, sub2)
  <2>1. Parts(Shown(s, w), w, DayOf(s.sec), HourOf(s.sec), MinOf(s.sec), SecOf(s.sec),
              s.usec \div Offset(w))
    BY PartsOfDates
  <2>2. Parts(Shown(t, w), w, DayOf(t.sec), HourOf(t.sec), MinOf(t.sec), SecOf(t.sec),
              t.usec \div Offset(w))
    BY PartsOfDates
  <2> QED BY <1>1, <1>2, <1>4, <1>5, <2>1, <2>2
<1> QED BY <1>2, <1>6, <1>7, PartsSort

(* No date sorts before itself. *)
LEMMA NotBeforeItself ==
  ASSUME NEW t \in Times, NEW w \in 3 .. 6
  PROVE  ~SortsBefore(Shown(t, w), Shown(t, w))
<1>1. ASSUME NEW i \in DOMAIN Shown(t, w), Shown(t, w)[i] < Shown(t, w)[i] PROVE FALSE
  <2>1. i \in 1 .. 20 + w
    BY DEF Shown
  <2>2. PICK x \in Int : x = Shown(t, w)[i]
    BY <2>1, ShownType
  <2> QED BY <1>1, <2>2
<1> QED BY <1>1 DEF SortsBefore

(* Dates sort as the times do, and are alike only for times that are. *)
LEMMA DatesRight ==
  ASSUME NEW s \in Times, NEW t \in Times, NEW width \in 0 .. 7, width \notin {1, 2}
  PROVE  LET a == DateTimeOf(s, width)
             b == DateTimeOf(t, width)
         IN  /\ Before(s, t) => a = b \/ SortsBefore(a, b)
             /\ a = b => s.sec = t.sec /\ (width = 6 => s = t)
<1>1. PICK w \in 3 .. 6 : w = IF width \in 1 .. 6 THEN width ELSE 3
  OBVIOUS
<1>2. DateTimeOf(s, width) = Shown(s, w) /\ DateTimeOf(t, width) = Shown(t, w)
  BY <1>1, DateShown
<1> DEFINE Same == s.sec = t.sec /\ s.usec \div Offset(w) = t.usec \div Offset(w)
<1>3. Same => Shown(s, w) = Shown(t, w)
  <2>1. ASSUME Same PROVE TimeInfo(s) = [TimeInfo(t) EXCEPT !.usec = s.usec]
    BY <2>1 DEF TimeInfo
  <2>2. TimeInfo(s).usec = s.usec /\ TimeInfo(t).usec = t.usec
    BY DEF TimeInfo
  <2>3. ASSUME Same
        PROVE  /\ TimeInfo(s).year = TimeInfo(t).year /\ TimeInfo(s).month = TimeInfo(t).month
               /\ TimeInfo(s).day = TimeInfo(t).day /\ TimeInfo(s).hour = TimeInfo(t).hour
               /\ TimeInfo(s).min = TimeInfo(t).min /\ TimeInfo(s).sec = TimeInfo(t).sec
               /\ TimeInfo(s).usec \div Offset(w) = TimeInfo(t).usec \div Offset(w)
    BY <2>2, <2>3 DEF TimeInfo
  <2> QED BY <2>3 DEF Shown
<1>4. Before(s, t) /\ ~Same => SortsBefore(Shown(s, w), Shown(t, w))
  BY DatesSort
<1>5. Before(t, s) /\ ~Same => SortsBefore(Shown(t, w), Shown(s, w))
  <2>1. ~Same => t.sec # s.sec \/ t.usec \div Offset(w) # s.usec \div Offset(w)
    OBVIOUS
  <2> QED BY <2>1, DatesSort
<1>6. Before(s, t) \/ Before(t, s) \/ (s.sec = t.sec /\ s.usec = t.usec)
  BY TimesAssumption DEF Before, Instant
<1>7. Shown(s, w) = Shown(t, w) => Same
  BY <1>4, <1>5, <1>6, NotBeforeItself
<1>8. width = 6 /\ Same => s = t
  <2> SUFFICES ASSUME width = 6, Same PROVE s = t
    OBVIOUS
  <2>1. w = 6 /\ Offset(w) = 1
    BY <1>1 DEF Offset
  <2>2. s.usec \in Nat /\ t.usec \in Nat
    BY TimesAssumption DEF Instant
  <2>3. s.usec = t.usec
    BY <2>1, <2>2
  <2> QED BY <2>3, TimesAssumption DEF Instant
<1> HIDE DEF Same
<1>9. Same => s.sec = t.sec
  BY DEF Same
<1> QED BY <1>2, <1>3, <1>4, <1>7, <1>8, <1>9

(* A date sorts as its time, a duration is shown in the largest unit it    *)
(* fills and a difference of times is right to its unit, for any times,    *)
(* durations and stamps (DateTime, SubsecondPrecision).                    *)
THEOREM TimesCorrect == Spec => []TimesRight
<1>1. Answers => TimesRight
  <2> SUFFICES ASSUME Answers PROVE TimesRight
    OBVIOUS
  <2>1. ASSUME call.op = "dates", call.width \notin {1, 2}
        PROVE  /\ Before(call.first, call.second) =>
                    result[1] = result[2] \/ SortsBefore(result[1], result[2])
               /\ result[1] = result[2] =>
                    /\ call.first.sec = call.second.sec
                    /\ call.width = 6 => call.first = call.second
    <3>1. PICK s \in Times, t \in Times, width \in 0 .. 7 :
            /\ s = call.first /\ t = call.second /\ width = call.width /\ width \notin {1, 2}
            /\ result = <<DateTimeOf(s, width), DateTimeOf(t, width)>>
      BY <2>1 DEF Answers
    <3>2. result[1] = DateTimeOf(s, width) /\ result[2] = DateTimeOf(t, width)
      BY <3>1
    <3>3. /\ Before(s, t) => result[1] = result[2] \/ SortsBefore(result[1], result[2])
          /\ result[1] = result[2] => s.sec = t.sec /\ (width = 6 => s = t)
      BY <3>1, <3>2, DatesRight
    <3> QED BY <3>1, <3>3
  <2>2. ASSUME call.op = "duration"
        PROVE  /\ result.count = call.time \div Factor(call.unit, result.unit)
               /\ call.time > 0 => result.count > 0
               /\ result.unit < 6 => result.count < <<1900, 1900, 61, 61, 25>>[result.unit]
    <3>1. PICK time \in Durations, unit \in {1, 2} :
            time = call.time /\ unit = call.unit /\ result = formatTime(time, unit)
      BY <2>2 DEF Answers
    <3>2. time \in Nat
      BY TimesAssumption
    <3> QED BY <3>1, <3>2, DurationsRight
  <2>3. ASSUME call.op = "difference", ~Before(call.second, call.first)
        PROVE  LET exact == Micros(call.second) - Micros(call.first)
               IN  IF call.unit = 1 THEN result = exact
                   ELSE result * 1000 \in exact - 999 .. exact + 999
    <3>1. PICK s \in Stamps, t \in Stamps, unit \in {1, 2} :
            /\ s = call.first /\ t = call.second /\ unit = call.unit
            /\ result = getTimeDifference(t, s, unit, W) /\ ~Before(t, s)
      BY <2>3 DEF Answers
    <3> QED BY <3>1, DifferencesRight
  <2> HIDE DEF Answers
  <2> QED BY <2>1, <2>2, <2>3 DEF TimesRight
<1> QED BY <1>1, Answered, PTL

-----------------------------------------------------------------------------
(* Names of files: texts one after the other. *)
Joined(p, f, i) == IF i = 1 THEN p[i] ELSE f[i - 1] \o p[i]
Flattening == INSTANCE Loops WITH Op <- Joined

(* The values of FlattenSeq, from the first piece on. *)
LEMMA FlattenSteps ==
  ASSUME NEW T, NEW s \in Seq(T), s # <<>>
  PROVE  \E f : /\ FlattenSeq(s) = f[Len(s)] /\ f[1] = s[1]
                /\ \A i \in 1 .. Len(s) - 1 : f[i + 1] = f[i] \o s[i + 1]
<1> DEFINE N == Len(s)
           it == CHOOSE f : f = [i \in 1 .. Len(s) |-> IF i = 1 THEN s[i] ELSE f[i - 1] \o s[i]]
           m == [i \in 1 .. Len(s) |-> i]
<1>1. N \in Nat /\ N > 0
  OBVIOUS
<1>2. FlattenSeq(s) = it[N]
  BY DEF FlattenSeq
<1>3. \E f : Flattening!RecOf(s, 1 .. N, f)
  <2>1. m \in [1 .. N -> Nat]
    OBVIOUS
  <2>2. \A i \in 1 .. N : \A f, g :
          (\A e \in 1 .. N : m[e] < m[i] => f[e] = g[e]) => Joined(s, f, i) = Joined(s, g, i)
    <3> SUFFICES ASSUME NEW i \in 1 .. N, NEW f, NEW g, \A e \in 1 .. N : m[e] < m[i] => f[e] = g[e]
                 PROVE  Joined(s, f, i) = Joined(s, g, i)
      OBVIOUS
    <3>1. i # 1 => i - 1 \in 1 .. N /\ m[i - 1] < m[i]
      OBVIOUS
    <3>2. i # 1 => f[i - 1] = g[i - 1]
      BY <3>1
    <3> QED BY <3>2 DEF Joined
  <2> HIDE DEF m
  <2> QED BY <2>1, <2>2, Flattening!RecursionExists
<1>4. Flattening!RecOf(s, 1 .. N, it)
  BY <1>3 DEF Flattening!RecOf, Joined
<1>5. \A i \in 1 .. N : it[i] = IF i = 1 THEN s[i] ELSE it[i - 1] \o s[i]
  <2> HIDE DEF it
  <2> QED BY <1>4 DEF Flattening!RecOf, Joined
<1> HIDE DEF it
<1>6. it[1] = s[1]
  BY <1>1, <1>5
<1>7. ASSUME NEW i \in 1 .. N - 1 PROVE it[i + 1] = it[i] \o s[i + 1]
  <2> DEFINE j == i + 1
  <2>1. j \in 1 .. N /\ j # 1 /\ j - 1 = i
    BY <1>1
  <2> HIDE DEF j, N
  <2>2. it[j] = it[j - 1] \o s[j]
    BY <2>1, <1>5
  <2>3. it[j] = it[i] \o s[j]
    BY <2>1, <2>2
  <2> QED BY <2>3 DEF j
<1> QED BY <1>2, <1>6, <1>7, Zenon

(* Texts one after the other are a text. *)
LEMMA FlattenType ==
  ASSUME NEW T, NEW s \in Seq(Seq(T))
  PROVE  FlattenSeq(s) \in Seq(T)
<1>1. CASE s = <<>>
  BY <1>1 DEF FlattenSeq
<1>2. CASE s # <<>>
  <2>1. PICK f : /\ FlattenSeq(s) = f[Len(s)] /\ f[1] = s[1]
                 /\ \A i \in 1 .. Len(s) - 1 : f[i + 1] = f[i] \o s[i + 1]
    BY <1>2, FlattenSteps
  <2> DEFINE B == {n \in Nat : n \in 1 .. Len(s) => f[n] \in Seq(T)}
  <2>2. 0 \in B
    OBVIOUS
  <2>3. ASSUME NEW n \in Nat, n \in B PROVE n + 1 \in B
    <3>1. CASE n + 1 = 1
      BY <2>1, <3>1
    <3>2. CASE n + 1 \in 2 .. Len(s)
      <4>0. n \in 1 .. Len(s) /\ n \in 1 .. Len(s) - 1 /\ n + 1 \in DOMAIN s
        BY <3>2
      <4>1. n \in 1 .. Len(s) /\ f[n + 1] = f[n] \o s[n + 1] /\ n + 1 \in DOMAIN s
        BY <2>1, <4>0
      <4>2. f[n] \in Seq(T) /\ s[n + 1] \in Seq(T)
        BY <2>3, <4>1
      <4>3. f[n + 1] \in Seq(T)
        BY <4>1, <4>2
      <4> QED BY <4>3
    <3> QED BY <3>1, <3>2
  <2>4. Nat \subseteq B
    <3> HIDE DEF B
    <3> QED BY <2>2, <2>3, Flattening!Induction
  <2>5. Len(s) \in 1 .. Len(s)
    BY <1>2
  <2> QED BY <2>1, <2>4, <2>5
<1> QED BY <1>1, <1>2

(* Of single pieces it is the text they are of. *)
LEMMA FlattenSingles ==
  ASSUME NEW T, NEW e \in Seq(T)
  PROVE  FlattenSeq([i \in DOMAIN e |-> <<e[i]>>]) = e
<1> DEFINE s == [i \in DOMAIN e |-> <<e[i]>>]
<1>0. s \in Seq(Seq(T)) /\ Len(s) = Len(e) /\ \A i \in 1 .. Len(e) : s[i] = <<e[i]>>
  <2>1. \A i \in 1 .. Len(e) : <<e[i]>> \in Seq(T)
    OBVIOUS
  <2>2. DOMAIN e = 1 .. Len(e) /\ Len(e) \in Nat
    OBVIOUS
  <2>3. s \in [1 .. Len(e) -> Seq(T)] /\ \A i \in 1 .. Len(e) : s[i] = <<e[i]>>
    BY <2>1, <2>2
  <2> HIDE DEF s
  <2> QED BY <2>2, <2>3
<1> HIDE DEF s
<1>1. CASE e = <<>>
  <2>1. s = <<>>
    BY <1>0, <1>1
  <2> QED BY <1>1, <2>1 DEF FlattenSeq, s
<1>2. CASE e # <<>>
  <2>0. s # <<>>
    BY <1>0, <1>2
  <2>1. PICK f : /\ FlattenSeq(s) = f[Len(s)] /\ f[1] = s[1]
                 /\ \A i \in 1 .. Len(s) - 1 : f[i + 1] = f[i] \o s[i + 1]
    BY <1>0, <2>0, FlattenSteps
  <2> DEFINE B == {n \in Nat : n \in 1 .. Len(e) => f[n] = SubSeq(e, 1, n)}
  <2>2. 0 \in B
    OBVIOUS
  <2>3. ASSUME NEW n \in Nat, n \in B PROVE n + 1 \in B
    <3>1. CASE n + 1 = 1
      <4>1. 1 \in 1 .. Len(e) /\ f[1] = s[1]
        BY <1>2, <2>1
      <4>2. f[1] = <<e[1]>>
        BY <1>0, <4>1
      <4>3. SubSeq(e, 1, 1) = <<e[1]>>
        <5>1. SubSeq(e, 1, 1) \in Seq(T) /\ Len(SubSeq(e, 1, 1)) = 1 /\ SubSeq(e, 1, 1)[1] = e[1]
          BY <4>1
        <5>2. <<e[1]>> \in Seq(T) /\ Len(<<e[1]>>) = 1 /\ <<e[1]>>[1] = e[1]
          BY <4>1
        <5>3. ASSUME NEW u \in Seq(T), NEW v \in Seq(T), Len(u) = 1, Len(v) = 1, u[1] = v[1]
              PROVE  u = v
          BY <5>3
        <5> QED BY <5>1, <5>2, <5>3
      <4>4. n = 0
        BY <3>1
      <4> QED BY <4>2, <4>3, <4>4
    <3>2. CASE n + 1 \in 2 .. Len(e)
      <4>0. n \in 1 .. Len(s) - 1 /\ n + 1 \in 1 .. Len(e) /\ n \in 1 .. Len(e)
        BY <1>0, <3>2
      <4>1. n \in 1 .. Len(e) /\ f[n + 1] = f[n] \o <<e[n + 1]>>
        BY <1>0, <2>1, <4>0
      <4>2. f[n] = SubSeq(e, 1, n)
        BY <2>3, <4>1
      <4>3. SubSeq(e, 1, n + 1) = SubSeq(e, 1, n) \o <<e[n + 1]>>
        BY <3>2
      <4> QED BY <4>1, <4>2, <4>3
    <3> QED BY <3>1, <3>2
  <2>4. Nat \subseteq B
    <3> HIDE DEF B
    <3> QED BY <2>2, <2>3, Flattening!Induction
  <2>5. Len(e) \in 1 .. Len(e) /\ SubSeq(e, 1, Len(e)) = e
    BY <1>2
  <2> QED BY <1>0, <2>1, <2>4, <2>5 DEF s
<1> QED BY <1>1, <1>2

(* A sequence from which a stretch is cut out. *)
LEMMA CutOut ==
  ASSUME NEW T, NEW a \in Seq(T), NEW j \in Nat, NEW k \in Nat, j <= k, k <= Len(a)
  PROVE  LET c == SubSeq(a, 1, j) \o SubSeq(a, k + 1, Len(a))
             M == Len(a) - (k - j)
         IN  /\ c \in Seq(T) /\ Len(c) = M /\ M \in Nat
             /\ \A i \in 1 .. j : c[i] = a[i]
             /\ \A i \in j + 1 .. M : c[i] = a[i + (k - j)]
<1> DEFINE u == SubSeq(a, 1, j)
           v == SubSeq(a, k + 1, Len(a))
           M == Len(a) - (k - j)
<1>1. Len(a) \in Nat /\ M \in Nat /\ M = j + (Len(a) - k) /\ Len(a) - k \in Nat
  OBVIOUS
<1>2. u \in Seq(T) /\ Len(u) = j /\ \A i \in 1 .. j : u[i] = a[i]
  BY <1>1
<1>3. v \in Seq(T) /\ Len(v) = Len(a) - k /\ \A i \in 1 .. Len(a) - k : v[i] = a[i + k]
  BY <1>1
<1> HIDE DEF u, v
<1>4. u \o v \in Seq(T) /\ Len(u \o v) = M
  <2> HIDE DEF M
  <2>1. u \o v \in Seq(T) /\ Len(u \o v) = Len(u) + Len(v)
    <3>1. u \in Seq(T) /\ v \in Seq(T)
      BY <1>2, <1>3
    <3> QED BY <3>1
  <2> QED BY <1>1, <1>2, <1>3, <2>1
<1>5. ASSUME NEW i \in 1 .. j PROVE (u \o v)[i] = a[i]
  <2>1. i \in 1 .. Len(u)
    BY <1>2
  <2>2. (u \o v)[i] = u[i]
    BY <1>2, <1>3, <2>1
  <2> QED BY <1>2, <2>2
<1>6. ASSUME NEW i \in j + 1 .. M PROVE (u \o v)[i] = a[i + (k - j)]
  <2>1. (u \o v)[i] = v[i - j]
    BY <1>1, <1>2, <1>3
  <2>2. i - j \in 1 .. Len(a) - k /\ i - j + k = i + (k - j)
    BY <1>1
  <2>3. v[i - j] = a[i - j + k]
    BY <1>3, <2>2
  <2> QED BY <2>1, <2>2, <2>3
<1> QED BY <1>1, <1>4, <1>5, <1>6 DEF u, v

(* Empty pieces are as well left out. *)
LEMMA FlattenSkips ==
  ASSUME NEW T, NEW a \in Seq(Seq(T)), NEW j \in 1 .. Len(a), NEW k \in j .. Len(a),
         \A i \in j + 1 .. k : a[i] = <<>>
  PROVE  FlattenSeq(a) = FlattenSeq(SubSeq(a, 1, j) \o SubSeq(a, k + 1, Len(a)))
<1> DEFINE b == SubSeq(a, 1, j) \o SubSeq(a, k + 1, Len(a))
           N == Len(a)
           M == Len(a) - (k - j)
<1>0. N \in Nat /\ 1 <= j /\ j <= k /\ k <= N /\ j \in Nat /\ k \in Nat
  OBVIOUS
<1>1. /\ N \in Nat /\ M \in Nat /\ 1 <= j /\ j <= k /\ k <= N /\ j \in Nat /\ k \in Nat
      /\ b \in Seq(Seq(T)) /\ Len(b) = M
  BY <1>0, CutOut
<1>2. \A i \in 1 .. j : b[i] = a[i]
  BY <1>0, CutOut
<1>3. \A i \in j + 1 .. M : b[i] = a[i + (k - j)]
  BY <1>0, CutOut
<1>4. a # <<>> /\ b # <<>> /\ a \in Seq(Seq(T))
  <2>1. M > 0
    BY <1>1
  <2> HIDE DEF b, M
  <2>2. b # <<>>
    BY <1>1, <2>1
  <2> QED BY <1>1, <2>2
<1> HIDE DEF b
<1>5. PICK f : /\ FlattenSeq(a) = f[N] /\ f[1] = a[1]
               /\ \A i \in 1 .. N - 1 : f[i + 1] = f[i] \o a[i + 1]
  BY <1>4, FlattenSteps
<1>6. PICK g : /\ FlattenSeq(b) = g[M] /\ g[1] = b[1]
               /\ \A i \in 1 .. M - 1 : g[i + 1] = g[i] \o b[i + 1]
  <2>1. \E g : /\ FlattenSeq(b) = g[Len(b)] /\ g[1] = b[1]
               /\ \A i \in 1 .. Len(b) - 1 : g[i + 1] = g[i] \o b[i + 1]
    BY <1>1, <1>4, FlattenSteps
  <2> QED BY <1>1, <2>1
<1> DEFINE B == {n \in Nat : n \in 1 .. N =>
                   /\ f[n] \in Seq(T)
                   /\ f[n] = IF n <= j THEN g[n] ELSE IF n <= k THEN g[j] ELSE g[n - (k - j)]}
<1>7. 0 \in B
  OBVIOUS
<1>8. ASSUME NEW n \in Nat, n \in B, n + 1 \in 1 .. N
      PROVE  /\ f[n + 1] \in Seq(T)
             /\ f[n + 1] = IF n + 1 <= j THEN g[n + 1] ELSE IF n + 1 <= k THEN g[j]
                           ELSE g[n + 1 - (k - j)]
  <2>1. CASE n = 0
    <3>1. f[1] = a[1] /\ g[1] = a[1] /\ a[1] \in Seq(T)
      BY <1>1, <1>2, <1>4, <1>5, <1>6
    <3> QED BY <1>1, <2>1, <3>1
  <2>2. CASE n > 0
    <3>1. n \in 1 .. N /\ n \in 1 .. N - 1 /\ n + 1 \in DOMAIN a
      BY <1>1, <1>8, <2>2
    <3>2. f[n] \in Seq(T) /\ a[n + 1] \in Seq(T) /\ f[n + 1] = f[n] \o a[n + 1]
      <4>1. f[n + 1] = f[n] \o a[n + 1]
        BY <1>5, <3>1
      <4> HIDE DEF N
      <4> QED BY <1>4, <1>8, <3>1, <4>1
    <3>3. f[n + 1] \in Seq(T)
      BY <3>2
    <3>4. CASE n + 1 <= j
      <4>1. f[n] = g[n] /\ n \in 1 .. M - 1 /\ n + 1 \in 1 .. j
        BY <1>1, <1>8, <3>1, <3>4
      <4>2. g[n + 1] = g[n] \o b[n + 1] /\ b[n + 1] = a[n + 1]
        BY <1>2, <1>6, <4>1
      <4> QED BY <3>2, <3>3, <3>4, <4>1, <4>2
    <3>5. CASE ~(n + 1 <= j) /\ n + 1 <= k
      <4>1. n + 1 \in j + 1 .. k
        BY <1>1, <3>5
      <4>2. f[n + 1] = f[n]
        <5>1. a[n + 1] = <<>>
          BY <4>1
        <5>2. f[n] \o <<>> = f[n]
          BY <3>2
        <5> QED BY <3>2, <5>1, <5>2
      <4>3. f[n] = g[j]
        BY <1>1, <1>8, <3>1, <3>5
      <4> QED BY <3>3, <3>5, <4>2, <4>3
    <3>6. CASE ~(n + 1 <= k)
      <4> DEFINE m == n - (k - j)
      <4>1. /\ m \in 1 .. M - 1 /\ m + 1 \in j + 1 .. M /\ ~(n + 1 <= j)
            /\ m + 1 + (k - j) = n + 1 /\ n + 1 - (k - j) = m + 1
        BY <1>1, <3>1, <3>6
      <4>2. f[n] = g[m]
        <5>1. n = k \/ (n > k /\ ~(n <= k) /\ ~(n <= j))
          BY <1>1, <3>6
        <5>2. n = k => m = j
          BY <1>1
        <5>3. n = j => k = j /\ m = n
          BY <1>1, <3>6
        <5>4. f[n] = IF n <= j THEN g[n] ELSE IF n <= k THEN g[j] ELSE g[m]
          BY <1>8, <3>1
        <5>5. CASE n = k
          <6> HIDE DEF m
          <6> QED BY <1>1, <5>2, <5>3, <5>4, <5>5
        <5>6. CASE n > k /\ ~(n <= k) /\ ~(n <= j)
          BY <5>4, <5>6
        <5> QED BY <5>1, <5>5, <5>6
      <4>3. g[m + 1] = g[m] \o b[m + 1] /\ b[m + 1] = a[n + 1]
        <5> HIDE DEF m, M
        <5>1. g[m + 1] = g[m] \o b[m + 1]
          BY <1>6, <4>1
        <5>2. b[m + 1] = a[m + 1 + (k - j)]
          BY <1>3, <4>1
        <5> QED BY <5>1, <5>2, <4>1
      <4> HIDE DEF m
      <4> QED BY <3>2, <3>3, <3>6, <4>1, <4>2, <4>3
    <3> QED BY <3>4, <3>5, <3>6
  <2> QED BY <2>1, <2>2
<1>9. Nat \subseteq B
  <2>1. ASSUME NEW n \in Nat, n \in B PROVE n + 1 \in B
    <3>1. n + 1 \in Nat
      OBVIOUS
    <3> QED BY <1>8, <2>1, <3>1
  <2> HIDE DEF B
  <2> QED BY <1>7, <2>1, Flattening!Induction
<1>10. f[N] = g[M]
  <2>1. N \in B /\ N \in 1 .. N
    BY <1>1, <1>9
  <2>2. f[N] = IF N <= j THEN g[N] ELSE IF N <= k THEN g[j] ELSE g[M]
    BY <2>1
  <2>3. ASSUME N <= k PROVE N = k /\ M = j
    <3>1. N = k
      BY <1>1, <2>3
    <3> QED BY <1>1, <3>1
  <2>4. ASSUME N <= j PROVE M = N
    <3>1. N = k /\ N = j
      BY <1>1, <2>4
    <3> QED BY <1>1, <3>1
  <2> HIDE DEF N, M
  <2> QED BY <2>2, <2>3, <2>4
<1> QED BY <1>5, <1>6, <1>10 DEF b

-----------------------------------------------------------------------------
(* Names of log files: dates. *)
(* One token is a text. *)
LEMMA SingleText ==
  ASSUME NEW T, NEW x \in T
  PROVE  <<x>> \in Seq(T)
OBVIOUS

(* Texts are the same when they are so token by token. *)
LEMMA SameTexts ==
  ASSUME NEW T, NEW u \in Seq(T), NEW v \in Seq(T), Len(u) = Len(v),
         \A i \in 1 .. Len(u) : u[i] = v[i]
  PROVE  u = v
OBVIOUS

(* The least of a set of indices. *)
LEMMA MinIs ==
  ASSUME NEW S, S \subseteq Nat, S # {}
  PROVE  Min(S) \in S /\ Min(S) \in Nat /\ \A y \in S : Min(S) <= y
<1>1. \E x \in S : \A y \in S : x <= y
  BY Flattening!LeastNat
<1> QED BY <1>1 DEF Min

Opening == "{"
Closing == "}"

(* What is in braces behind a place, and the text without it. *)
LEMMA BracesOf ==
  ASSUME NEW s \in Text, NEW j \in DOMAIN s, FirstFree(s, DateTime) = j
  PROVE  \E k \in j .. Len(s) :
           /\ Braced(s) = j + 1 .. k
           /\ InBraces(s, j, <<>>).text = SubSeq(s, 1, j) \o SubSeq(s, k + 1, Len(s))
<1> DEFINE at == {i \in j + 2 .. Len(s) : s[i] = Closing}
           last == IF at = {} THEN Len(s) ELSE Min(at)
<1>1. j \in Nat /\ 1 <= j /\ j <= Len(s) /\ Len(s) \in Nat
  BY DEF Text
<1>2. Braced(s) = {k \in j + 1 .. Len(s) : s[j + 1] = Opening /\ Closing \notin {s[i] : i \in j + 2 .. k - 1}}
  BY Zenon DEF Braced, Opening, Closing
<1>3. CASE ~(j < Len(s) /\ s[j + 1] = Opening)
  <2>1. Braced(s) = j + 1 .. j
    <3>1. \A k \in j + 1 .. Len(s) : j < Len(s)
      BY <1>1
    <3>2. j + 1 .. j = {}
      BY <1>1
    <3> QED BY <1>2, <1>3, <3>1, <3>2
  <2>2. InBraces(s, j, <<>>).text = s
    BY <1>3, Zenon DEF InBraces, Opening
  <2>3. s = SubSeq(s, 1, j) \o SubSeq(s, j + 1, Len(s))
    <3> DEFINE u == SubSeq(s, 1, j)
               v == SubSeq(s, j + 1, Len(s))
    <3>1. u \in Text /\ v \in Text /\ Len(u) = j /\ Len(v) = Len(s) - j
      BY <1>1 DEF Text
    <3>2. \A i \in 1 .. j : u[i] = s[i]
      BY <1>1 DEF Text
    <3>3. \A i \in 1 .. Len(s) - j : v[i] = s[i + j]
      BY <1>1 DEF Text
    <3> HIDE DEF u, v
    <3>4. ASSUME NEW i \in 1 .. Len(s) PROVE (u \o v)[i] = s[i]
      <4>1. CASE i <= j
        BY <1>1, <3>1, <3>2, <4>1 DEF Text
      <4>2. CASE ~(i <= j)
        <5>1. i - j \in 1 .. Len(s) - j /\ i - j + j = i
          BY <1>1, <4>2
        <5>2. (u \o v)[i] = v[i - j]
          BY <1>1, <3>1, <4>2 DEF Text
        <5> QED BY <3>3, <5>1, <5>2
      <4> QED BY <4>1, <4>2
    <3>5. u \o v \in Text /\ Len(u \o v) = Len(s)
      BY <1>1, <3>1 DEF Text
    <3>6. u \o v = s
      BY <3>4, <3>5, SameTexts DEF Text
    <3> QED BY <3>6 DEF u, v
  <2>4. j \in j .. Len(s)
    BY <1>1
  <2> QED BY <2>1, <2>2, <2>3, <2>4
<1>4. CASE j < Len(s) /\ s[j + 1] = Opening
  <2>1. last \in j + 1 .. Len(s) /\ (at = {} \/ last \in at) /\ \A y \in at : last <= y
    <3>1. CASE at = {}
      BY <1>1, <1>4, <3>1
    <3>2. CASE at # {}
      <4>1. at \subseteq Nat
        BY <1>1
      <4>2. Min(at) \in at /\ \A y \in at : Min(at) <= y
        <5> HIDE DEF at
        <5> QED BY <3>2, <4>1, MinIs
      <4>3. last = Min(at)
        BY <3>2
      <4> QED BY <1>1, <4>2, <4>3
    <3> QED BY <3>1, <3>2
  <2>2. InBraces(s, j, <<>>).text = SubSeq(s, 1, j) \o SubSeq(s, last + 1, Len(s))
    <3>1. at # {} => Min(at) # 0
      BY <1>1, <2>1
    <3>2. find(s, Closing, j + 2) = IF at = {} THEN 0 ELSE Min(at)
      BY DEF find
    <3>3. (IF find(s, Closing, j + 2) = 0 THEN Len(s) ELSE find(s, Closing, j + 2)) = last
      <4> HIDE DEF at
      <4> QED BY <3>1, <3>2
    <3> HIDE DEF last, at
    <3>4. InBraces(s, j, <<>>).text =
            SubSeq(s, 1, j) \o
            SubSeq(s, (IF find(s, Closing, j + 2) = 0 THEN Len(s)
                       ELSE find(s, Closing, j + 2)) + 1, Len(s))
      BY <1>4 DEF InBraces, Opening, Closing
    <3> QED BY <3>3, <3>4
  <2>3. Braced(s) = j + 1 .. last
    <3>1. ASSUME NEW k \in j + 1 .. Len(s)
          PROVE  Closing \notin {s[i] : i \in j + 2 .. k - 1} <=> k <= last
      <4>1. ASSUME k <= last, NEW i \in j + 2 .. k - 1 PROVE s[i] # Closing
        <5>1. i < last /\ i \in j + 2 .. Len(s)
          BY <1>1, <2>1, <4>1
        <5>2. i \notin at
          <6>1. last \in Nat /\ i \in Nat
            BY <1>1, <2>1, <5>1
          <6> HIDE DEF last, at
          <6> QED BY <2>1, <5>1, <6>1
        <5> QED BY <5>1, <5>2
      <4>2. ASSUME ~(k <= last) PROVE \E i \in j + 2 .. k - 1 : s[i] = Closing
        <5>1. at # {}
          BY <1>1, <4>2
        <5>2. last \in at
          BY <2>1, <5>1
        <5>3. last \in j + 2 .. k - 1 /\ s[last] = Closing
          <6>1. last \in j + 2 .. Len(s) /\ s[last] = Closing
            BY <5>2
          <6> HIDE DEF last, at
          <6> QED BY <1>1, <4>2, <6>1
        <5> HIDE DEF last
        <5> QED BY <5>3
      <4> QED BY <4>1, <4>2
    <3>2. j + 1 .. last \subseteq j + 1 .. Len(s) /\ \A k \in j + 1 .. Len(s) : k \in j + 1 .. last <=> k <= last
      <4> HIDE DEF last
      <4> QED BY <1>1, <2>1
    <3>3. Braced(s) = {k \in j + 1 .. Len(s) : k <= last}
      <4> HIDE DEF last
      <4> QED BY <1>2, <1>4, <3>1
    <3> HIDE DEF last
    <3> QED BY <3>2, <3>3
  <2>4. last \in j .. Len(s)
    <3> HIDE DEF last
    <3> QED BY <1>1, <2>1
  <2> HIDE DEF last
  <2> QED BY <2>2, <2>3, <2>4
<1> QED BY <1>3, <1>4

(* Where a date is to be filled in, all are. *)
LEMMA DatesFilledIn ==
  ASSUME NEW s \in Text, At(s, DateTime, FALSE) # {}
  PROVE  resolveFilename(s, Now) = ExpectedName(s)
<1> DEFINE j == Min(At(s, DateTime, FALSE))
<1>1. Unescaped(s, DateTime) = j /\ FirstFree(s, DateTime) = j
  <2>1. At(s, DateTime, FALSE) = {i \in DOMAIN s : s[i] = DateTime /\ ~Escaped(s, i)}
    BY DEF At, Escaped
  <2> QED BY <2>1 DEF Unescaped, FirstFree
<1>2. j \in DOMAIN s /\ j \in Nat /\ j # 0
  <2>1. At(s, DateTime, FALSE) \subseteq Nat /\ At(s, DateTime, FALSE) \subseteq DOMAIN s
    BY DEF At, Text
  <2>2. j \in At(s, DateTime, FALSE)
    BY <2>1, MinIs
  <2> HIDE DEF j
  <2>3. j \in DOMAIN s
    BY <2>1, <2>2
  <2> QED BY <2>3 DEF Text
<1> HIDE DEF j
<1>3. PICK k \in j .. Len(s) :
        /\ Braced(s) = j + 1 .. k
        /\ InBraces(s, j, <<>>).text = SubSeq(s, 1, j) \o SubSeq(s, k + 1, Len(s))
  BY <1>1, <1>2, BracesOf
<1> DEFINE text == SubSeq(s, 1, j) \o SubSeq(s, k + 1, Len(s))
           a == [i \in DOMAIN s |-> IF i \in Braced(s) THEN <<>>
                                    ELSE IF s[i] = DateTime THEN Now ELSE <<s[i]>>]
           b == [i \in DOMAIN text |-> IF text[i] = DateTime THEN Now ELSE <<text[i]>>]
<1>4. resolveFilename(s, Now) = FlattenSeq(b) /\ ExpectedName(s) = FlattenSeq(a)
  BY <1>1, <1>2, <1>3 DEF resolveFilename, replaceAll, ExpectedName
<1> DEFINE T == STRING \cup {"now"}
<1>5. a \in Seq(Seq(T)) /\ Len(a) = Len(s)
  <2>1. DOMAIN s = 1 .. Len(s) /\ Len(s) \in Nat /\ \A i \in DOMAIN s : s[i] \in T
    BY DEF Text
  <2>2. "now" \in T
    OBVIOUS
  <2> HIDE DEF T
  <2>3. <<>> \in Seq(T) /\ Now \in Seq(T)
    BY <2>2, SingleText DEF Now
  <2>4. ASSUME NEW i \in DOMAIN s PROVE <<s[i]>> \in Seq(T)
    BY <2>1, SingleText
  <2>5. a \in [DOMAIN s -> Seq(T)]
    BY <2>3, <2>4
  <2> HIDE DEF a
  <2> QED BY <2>1, <2>5
<1> HIDE DEF T
<1>6. b = SubSeq(a, 1, j) \o SubSeq(a, k + 1, Len(a))
  <2> DEFINE c == SubSeq(a, 1, j) \o SubSeq(a, k + 1, Len(a))
             M == Len(s) - (k - j)
  <2>0. /\ j \in Nat /\ k \in Nat /\ 1 <= j /\ j <= k /\ k <= Len(s) /\ Len(s) \in Nat /\ M \in Nat
        /\ DOMAIN s = 1 .. Len(s)
    BY <1>2, <1>3 DEF Text
  <2>1. text \in Text /\ Len(text) = M /\ DOMAIN text = 1 .. M
    <3>1. text \in Seq(STRING) /\ Len(text) = M
      BY <2>0, CutOut DEF Text
    <3> HIDE DEF text
    <3> QED BY <3>1 DEF Text
  <2>2. /\ \A i \in 1 .. j : text[i] = s[i]
        /\ \A i \in j + 1 .. M : text[i] = s[i + (k - j)]
    BY <2>0, CutOut DEF Text
  <2>3. c \in Seq(Seq(T)) /\ Len(c) = M /\ DOMAIN c = 1 .. M
    <3> HIDE DEF a
    <3>1. c \in Seq(Seq(T)) /\ Len(c) = Len(a) - (k - j)
      <4>1. k <= Len(a)
        BY <1>5, <2>0
      <4>2. a \in Seq(Seq(T)) /\ j \in Nat /\ k \in Nat /\ j <= k
        BY <1>5, <2>0
      <4> QED BY <4>1, <4>2, CutOut
    <3>2. Len(c) = M
      BY <1>5, <3>1
    <3> HIDE DEF c
    <3> QED BY <3>1, <3>2
  <2>4. /\ \A i \in 1 .. j : c[i] = a[i]
        /\ \A i \in j + 1 .. M : c[i] = a[i + (k - j)]
    <3> HIDE DEF a
    <3> QED BY <1>5, <2>0, CutOut
  <2> HIDE DEF text, c
  <2>5. ASSUME NEW i \in 1 .. M PROVE b[i] = c[i]
    <3>1. CASE i \in 1 .. j
      <4>1. i \notin Braced(s) /\ i \in DOMAIN s
        BY <1>3, <2>0, <3>1
      <4> QED BY <2>1, <2>2, <2>4, <3>1, <4>1
    <3>2. CASE i \in j + 1 .. M
      <4> DEFINE n == i + (k - j)
      <4>1. n \notin Braced(s) /\ n \in DOMAIN s
        BY <1>3, <2>0, <3>2
      <4>2. a[n] = IF s[n] = DateTime THEN Now ELSE <<s[n]>>
        <5> HIDE DEF n
        <5> QED BY <4>1
      <4>3. c[i] = a[n] /\ text[i] = s[n]
        BY <2>2, <2>4, <3>2
      <4>4. b[i] = IF text[i] = DateTime THEN Now ELSE <<text[i]>>
        BY <2>1
      <4> QED BY <4>2, <4>3, <4>4
    <3>3. i \in 1 .. j \/ i \in j + 1 .. M
      BY <2>0
    <3> QED BY <3>1, <3>2, <3>3
  <2>6. b = [i \in 1 .. M |-> b[i]] /\ c = [i \in 1 .. M |-> c[i]]
    BY <2>1, <2>3
  <2>7. b = c
    <3> HIDE DEF b, M
    <3> QED BY <2>5, <2>6
  <2> QED BY <2>7 DEF c
<1>7. ASSUME NEW i \in j + 1 .. k PROVE a[i] = <<>>
  <2>1. i \in DOMAIN s /\ i \in Braced(s)
    BY <1>2, <1>3 DEF Text
  <2> QED BY <2>1
<1>8. j \in 1 .. Len(a) /\ k \in j .. Len(a)
  BY <1>2, <1>3, <1>5 DEF Text
<1>9. FlattenSeq(a) = FlattenSeq(SubSeq(a, 1, j) \o SubSeq(a, k + 1, Len(a)))
  <2> HIDE DEF a
  <2> QED BY <1>5, <1>7, <1>8, FlattenSkips DEF Text
<1> HIDE DEF a, b
<1> QED BY <1>4, <1>6, <1>9

(* In a name every date is filled in. *)
LEMMA NamesResolved ==
  ASSUME NEW s \in Text, DateTime \in ToSet(s) => At(s, DateTime, FALSE) # {}
  PROVE  resolveFilename(s, Now) = ExpectedName(s)
<1>1. CASE At(s, DateTime, FALSE) # {}
  BY <1>1, DatesFilledIn
<1>2. CASE At(s, DateTime, FALSE) = {}
  <2>1. \A i \in DOMAIN s : s[i] # DateTime
    BY <1>2 DEF ToSet
  <2>2. Unescaped(s, DateTime) = 0
    BY <2>1 DEF Unescaped
  <2>3. find(s, DateTime, 1) = 0
    <3>1. DOMAIN s = 1 .. Len(s)
      BY DEF Text
    <3> QED BY <2>1, <3>1 DEF find
  <2>4. resolveFilename(s, Now) = s
    BY <2>2, <2>3 DEF resolveFilename
  <2>5. Braced(s) = {}
    <3>1. FirstFree(s, DateTime) = Len(s) + 1
      BY <1>2 DEF FirstFree
    <3>2. Len(s) + 1 + 1 .. Len(s) = {}
      BY DEF Text
    <3> QED BY <3>1, <3>2 DEF Braced
  <2> DEFINE a == [i \in DOMAIN s |-> IF i \in Braced(s) THEN <<>>
                                      ELSE IF s[i] = DateTime THEN Now ELSE <<s[i]>>]
  <2>6. a = [i \in DOMAIN s |-> <<s[i]>>]
    BY <2>1, <2>5
  <2>7. ExpectedName(s) = FlattenSeq(a)
    BY DEF ExpectedName
  <2>8. FlattenSeq([i \in DOMAIN s |-> <<s[i]>>]) = s
    BY FlattenSingles DEF Text
  <2> HIDE DEF a
  <2> QED BY <2>4, <2>6, <2>7, <2>8
<1> QED BY <1>1, <1>2

-----------------------------------------------------------------------------
(* Names of source files. *)
(* The end of a text, token by token. *)
LEMMA SuffixBy ==
  ASSUME NEW T, NEW r \in Seq(T), NEW s \in Seq(T), Len(r) <= Len(s),
         \A i \in 1 .. Len(r) : r[i] = s[Len(s) - Len(r) + i]
  PROVE  IsSuffix(r, s)
<1> DEFINE u == Reverse(r)
           v == Reverse(s)
<1>1. Len(r) \in Nat /\ Len(s) \in Nat
  OBVIOUS
<1>2. u \in Seq(T) /\ Len(u) = Len(r) /\ \A i \in 1 .. Len(r) : u[i] = r[Len(r) - i + 1]
  BY DEF Reverse
<1>3. v \in Seq(T) /\ Len(v) = Len(s) /\ \A i \in 1 .. Len(s) : v[i] = s[Len(s) - i + 1]
  BY DEF Reverse
<1> HIDE DEF u, v
<1>4. ASSUME NEW i \in 1 .. Len(r) PROVE SubSeq(u, 1, Len(u))[i] = SubSeq(v, 1, Len(u))[i]
  <2>1. SubSeq(u, 1, Len(u))[i] = u[i] /\ SubSeq(v, 1, Len(u))[i] = v[i]
    BY <1>1, <1>2, <1>3
  <2>2. u[i] = r[Len(r) - i + 1]
    BY <1>2
  <2>3. v[i] = s[Len(s) - i + 1]
    BY <1>1, <1>3
  <2> DEFINE j == Len(r) - i + 1
  <2>4. j \in 1 .. Len(r) /\ Len(s) - Len(r) + j = Len(s) - i + 1
    BY <1>1
  <2>5. r[j] = s[Len(s) - Len(r) + j]
    <3> HIDE DEF j
    <3> QED BY <2>4
  <2> QED BY <2>1, <2>2, <2>3, <2>4, <2>5
<1>5. SubSeq(u, 1, Len(u)) = SubSeq(v, 1, Len(u))
  <2>1. /\ SubSeq(u, 1, Len(u)) \in Seq(T) /\ Len(SubSeq(u, 1, Len(u))) = Len(r)
        /\ SubSeq(v, 1, Len(u)) \in Seq(T) /\ Len(SubSeq(v, 1, Len(u))) = Len(r)
    BY <1>1, <1>2, <1>3
  <2> QED BY <1>4, <2>1, SameTexts
<1>6. Len(u) <= Len(v)
  BY <1>2, <1>3
<1> QED BY <1>5, <1>6 DEF IsSuffix, IsPrefix, u, v

(* What shows of a name. *)
CutAtDot(name) ==
  LET limit == kSourceFilenameMaxLength
  IN  name[Len(name) - limit + 1] = "." \/ name[Len(name) - limit + 2] = "."
ShowsEnd(shown, name) ==
  IF Len(name) < kSourceFilenameMaxLength THEN shown = name
  ELSE LET rest == IF CutAtDot(name) THEN shown ELSE SubSeq(shown, 3, Len(shown))
       IN  /\ IsSuffix(rest, name)
           /\ Len(shown) = IF CutAtDot(name) THEN kSourceFilenameMaxLength
                           ELSE kSourceFilenameMaxLength - 1

LEMMA StrippedShows ==
  ASSUME NEW name \in Text
  PROVE  ShowsEnd(buildStrippedFilename(name), name)
<1> DEFINE limit == kSourceFilenameMaxLength
           N == Len(name)
           T == STRING \cup {"."}
           end == SubSeq(name, N - limit + 1, N)
           shown == buildStrippedFilename(name)
<1>1. name \in Seq(T) /\ "." \in T
  BY DEF Text
<1> HIDE DEF T
<1>2. limit \in Nat /\ limit >= 3 /\ N \in Nat
  BY <1>1, LengthAssumption
<1>3. CASE N < limit
  <2>1. shown = name
    BY <1>3 DEF buildStrippedFilename
  <2> QED BY <1>3, <2>1 DEF ShowsEnd
<1>4. CASE ~(N < limit)
  <2>1. end \in Seq(T) /\ Len(end) = limit /\ \A i \in 1 .. limit : end[i] = name[N - limit + i]
    <3>1. ASSUME NEW k \in Nat, k <= N, k >= 3
          PROVE  LET e == SubSeq(name, N - k + 1, N)
                 IN  e \in Seq(T) /\ Len(e) = k /\ \A i \in 1 .. k : e[i] = name[N - k + i]
      BY <1>1, <3>1
    <3>2. limit <= N
      BY <1>2, <1>4
    <3> HIDE DEF limit
    <3> QED BY <1>2, <3>1, <3>2
  <2>2. (end[1] # "." /\ end[2] # ".") <=> ~CutAtDot(name)
    <3>1. end[1] = name[N - limit + 1] /\ end[2] = name[N - limit + 2]
      BY <1>2, <2>1
    <3> QED BY <3>1 DEF CutAtDot
  <2> HIDE DEF end
  <2>3. shown = IF ~CutAtDot(name) THEN <<".", ".">> \o SubSeq(end, 4, limit) ELSE end
    BY <1>4, <2>2 DEF buildStrippedFilename, end
  <2>4. CASE CutAtDot(name)
    <3>1. IsSuffix(end, name)
      <4>1. Len(end) <= N /\ \A i \in 1 .. Len(end) : end[i] = name[N - Len(end) + i]
        BY <1>2, <1>4, <2>1
      <4> QED BY <1>1, <2>1, <4>1, SuffixBy
    <3> QED BY <1>4, <2>1, <2>3, <2>4, <3>1 DEF ShowsEnd
  <2>5. CASE ~CutAtDot(name)
    <3> DEFINE r == SubSeq(end, 4, limit)
               rest == SubSeq(shown, 3, Len(shown))
    <3>1. r \in Seq(T) /\ Len(r) = limit - 3 /\ \A i \in 1 .. limit - 3 : r[i] = end[i + 3]
      BY <1>2, <2>1
    <3>2. shown = <<".", ".">> \o r
      BY <2>3, <2>5
    <3> HIDE DEF r, shown
    <3>3. shown \in Seq(T) /\ Len(shown) = limit - 1 /\ \A i \in 1 .. limit - 3 : shown[i + 2] = r[i]
      BY <1>1, <1>2, <3>1, <3>2
    <3>4. rest \in Seq(T) /\ Len(rest) = limit - 3 /\ \A i \in 1 .. limit - 3 : rest[i] = shown[i + 2]
      BY <1>2, <3>3
    <3> HIDE DEF rest
    <3>5. IsSuffix(rest, name)
      <4>1. ASSUME NEW i \in 1 .. limit - 3 PROVE rest[i] = name[N - Len(rest) + i]
        <5>1. rest[i] = end[i + 3]
          BY <3>1, <3>3, <3>4
        <5>2. i + 3 \in 1 .. limit /\ N - limit + (i + 3) = N - Len(rest) + i
          BY <1>2, <3>4
        <5>3. end[i + 3] = name[N - limit + (i + 3)]
          BY <2>1, <5>2
        <5> QED BY <5>1, <5>2, <5>3
      <4>2. Len(rest) <= N
        BY <1>2, <1>4, <3>4
      <4> QED BY <1>1, <3>4, <4>1, <4>2, SuffixBy
    <3> QED BY <1>4, <2>5, <3>3, <3>5 DEF ShowsEnd, rest, shown
  <2> QED BY <2>4, <2>5
<1> QED BY <1>3, <1>4

(* Some index is the last one. *)
LEMMA LastIs ==
  ASSUME NEW s \in Text, NEW q \in SUBSET DOMAIN s, q # {}
  PROVE  Max(q) \in q /\ \A y \in q : y <= Max(q)
<1>1. DOMAIN s = 1 .. Len(s) /\ Len(s) \in Nat
  BY DEF Text
<1>2. q \in SUBSET (1 .. Len(s))
  BY <1>1
<1> QED BY <1>1, <1>2, Flattening!MaxIs DEF Max, Flattening!Max

(* The base of a name is behind its last slash. *)
LEMMA BaseIs ==
  ASSUME NEW name \in Text, Slashes(name) # {1}
  PROVE  baseOf(name) = SubSeq(name, SelectLastInSeq(name, LAMBDA c : c = "/") + 1, Len(name))
<1> DEFINE last == SelectLastInSeq(name, LAMBDA c : c = "/")
<1>1. last = IF Slashes(name) # {} THEN Max(Slashes(name)) ELSE 0
  <2>1. DOMAIN name = 1 .. Len(name)
    BY DEF Text
  <2>2. {i \in 1 .. Len(name) : name[i] = "/"} = Slashes(name)
    BY <2>1 DEF Slashes, kFilePathSeparator
  <2> QED BY <2>2 DEF SelectLastInSeq
<1> HIDE DEF last
<1>2. CASE Slashes(name) = {}
  <2>1. last = 0 /\ baseOf(name) = name
    BY <1>1, <1>2 DEF baseOf
  <2>2. SubSeq(name, 1, Len(name)) = name
    BY DEF Text
  <2> QED BY <2>1, <2>2 DEF last
<1>3. CASE Slashes(name) # {}
  <2>1. ~(Slashes(name) \subseteq {1})
    BY <1>3
  <2>2. baseOf(name) = SubSeq(name, last + 1, Len(name))
    BY <1>1, <1>3, <2>1 DEF baseOf
  <2> QED BY <2>2 DEF last
<1> QED BY <1>2, <1>3

-----------------------------------------------------------------------------
(* Directories. *)
Made(p, st, name) == mkdir(st, name)
Making == INSTANCE Loops WITH Op <- Made

(* The states of the loop that makes directories, by how much is built.    *)
LEMMA Walked ==
  ASSUME NEW T, NEW P \in Seq(T), P # <<>>, NEW fs
  PROVE  \E h : /\ h[1] = [built |-> <<P[1]>>, made |-> FALSE, fs |-> fs]
                /\ \A k \in 1 .. Len(P) - 1 : h[k + 1] = mkdir(h[k], P[k + 1])
                /\ FoldLeft(mkdir, [built |-> <<P[1]>>, made |-> FALSE, fs |-> fs], Tail(P)) = h[Len(P)]
<1> DEFINE b == [built |-> <<P[1]>>, made |-> FALSE, fs |-> fs]
           s == Tail(P)
           N == Len(P) - 1
<1>1. N \in Nat /\ DOMAIN s = 1 .. N /\ \A i \in 1 .. N : s[i] = P[i + 1]
  OBVIOUS
<1>2. FoldLeft(mkdir, b, s) = Making!Fold(0, b, s)
  BY DEF Making!Fold, Making!MapThenFoldSet, FoldLeft, MapThenFoldSet, Made,
         Max, Making!Max
<1>0. Len(P) = N + 1
  BY <1>1
<1> HIDE DEF s, b, N
<1>3. PICK g : Making!Run(0, b, s, N, g)
  BY <1>1, Making!FoldSteps
<1>4. /\ g[0] = b /\ FoldLeft(mkdir, b, s) = g[N]
      /\ \A i \in 1 .. N : g[i] = mkdir(g[i - 1], P[i + 1])
  BY <1>1, <1>2, <1>3 DEF Making!Run, Made
<1> DEFINE h == [k \in 1 .. N + 1 |-> g[k - 1]]
<1>5. h[1] = b /\ h[Len(P)] = FoldLeft(mkdir, b, s)
  BY <1>0, <1>1, <1>4
<1>6. ASSUME NEW k \in 1 .. Len(P) - 1 PROVE h[k + 1] = mkdir(h[k], P[k + 1])
  <2>1. k \in 1 .. N /\ h[k + 1] = g[k] /\ h[k] = g[k - 1]
    BY <1>0, <1>1
  <2> QED BY <1>4, <2>1
<1> HIDE DEF h
<1> QED BY <1>5, <1>6 DEF b, s

(* A place begins at the root or at the working directory.                 *)
LEMMA PlaceType ==
  ASSUME NEW path \in Text
  PROVE  \E T : Place(path) \in Seq(T) /\ Place(path) # <<>> /\ Place(path)[1] \in {"root", "here"}
<1> DEFINE T == STRING \cup {"root", "here"}
           e == IF path # <<>> /\ path[1] = kFilePathSeparator THEN "root" ELSE "here"
           a == [i \in DOMAIN path |-> IF path[i] = kFilePathSeparator THEN <<>> ELSE <<path[i]>>]
           r == FlattenSeq(a)
<1>1. \A i \in DOMAIN path : path[i] \in T
  BY DEF Text
<1>2. e \in T /\ e \in {"root", "here"}
  OBVIOUS
<1> HIDE DEF T, e
<1>3. a \in Seq(Seq(T))
  <2>1. ASSUME NEW i \in DOMAIN path PROVE <<path[i]>> \in Seq(T)
    BY <1>1, SingleText
  <2>2. a \in [DOMAIN path -> Seq(T)]
    BY <2>1
  <2>3. DOMAIN path = 1 .. Len(path) /\ Len(path) \in Nat
    BY DEF Text
  <2> HIDE DEF a
  <2> QED BY <2>2, <2>3
<1>4. Place(path) = <<e>> \o r
  BY DEF Place, replaceAll, e
<1> HIDE DEF a
<1>5. r \in Seq(T)
  BY <1>3, FlattenType
<1> HIDE DEF r
<1>6. Place(path) \in Seq(T) /\ Place(path) # <<>> /\ Place(path)[1] = e
  BY <1>2, <1>4, <1>5
<1> QED BY <1>2, <1>6

Pre(P, k) == SubSeq(P, 1, k)
Extra(P, a, k) == {SubSeq(P, 1, m) : m \in a + 1 .. k}

(* How much of a place is there. *)
LEMMA PartThere ==
  ASSUME NEW T, NEW P \in Seq(T), P # <<>>, P[1] \in {"root", "here"},
         NEW fs \in FileSystems
  PROVE  \E a \in 1 .. Len(P) : /\ \A k \in 1 .. Len(P) : Pre(P, k) \in fs.there <=> k <= a
                                /\ Ancestor(P, fs) = Pre(P, a)
                                /\ Missing(P, fs) = Extra(P, a, Len(P))
<1> DEFINE q == {k \in 1 .. Len(P) : Pre(P, k) \in fs.there}
           lens == {Len(x) : x \in Prefixed(P) \cap fs.there}
           a == Max(q)
<1>0. Len(P) \in Nat /\ Len(P) >= 1 /\ DOMAIN P = 1 .. Len(P)
  OBVIOUS
<1>1. \A k \in 1 .. Len(P) : Pre(P, k) \in Seq(T) /\ Len(Pre(P, k)) = k
  BY <1>0 DEF Pre
<1>2. Prefixed(P) = {Pre(P, k) : k \in 1 .. Len(P)}
  BY <1>0 DEF Prefixed, Pre
<1>3. lens = q
  BY <1>1, <1>2
<1>4. 1 \in q
  <2>1. Pre(P, 1) = <<P[1]>>
    <3>1. P[1] \in T
      BY <1>0
    <3>2. <<P[1]>> \in Seq(T)
      BY <3>1, SingleText
    <3>3. Len(<<P[1]>>) = 1 /\ <<P[1]>>[1] = P[1]
      OBVIOUS
    <3>4. Pre(P, 1) \in Seq(T) /\ Len(Pre(P, 1)) = 1 /\ Pre(P, 1)[1] = P[1]
      BY <1>0, <1>1 DEF Pre
    <3> QED BY <3>2, <3>3, <3>4, SameTexts
  <2>2. {<<"root">>, <<"here">>} \subseteq fs.there
    BY FileSystemsAssumption
  <2>3. <<P[1]>> \in fs.there
    <3>1. CASE P[1] = "root"
      BY <2>2, <3>1
    <3>2. CASE P[1] = "here"
      BY <2>2, <3>2
    <3> QED BY <3>1, <3>2
  <2> QED BY <1>0, <2>1, <2>3
<1>5. a \in q /\ \A y \in q : y <= a
  <2>1. q \in SUBSET (1 .. Len(P))
    OBVIOUS
  <2> HIDE DEF q
  <2> QED BY <1>0, <1>4, <2>1, Flattening!MaxIs DEF Max, Flattening!Max
<1> HIDE DEF a
<1>6. a \in 1 .. Len(P) /\ Pre(P, a) \in fs.there
  BY <1>5
<1>7. ASSUME NEW k \in 1 .. Len(P) PROVE Pre(P, k) \in fs.there <=> k <= a
  <2>1. ASSUME k <= a PROVE Pre(P, k) \in fs.there
    <3>1. k \in DOMAIN Pre(P, a)
      BY <1>1, <1>6, <2>1
    <3>2. SubSeq(Pre(P, a), 1, k) \in fs.there
      BY <1>6, <3>1, FileSystemsAssumption
    <3>3. SubSeq(Pre(P, a), 1, k) = Pre(P, k)
      BY <1>0, <1>6, <2>1 DEF Pre
    <3> QED BY <3>2, <3>3
  <2>2. ASSUME Pre(P, k) \in fs.there PROVE k <= a
    <3>1. k \in q
      BY <2>2
    <3> HIDE DEF q
    <3> QED BY <1>5, <3>1
  <2> QED BY <2>1, <2>2
<1>8. Ancestor(P, fs) = Pre(P, a)
  BY <1>3 DEF Ancestor, Pre, a
<1>9. Missing(P, fs) = Extra(P, a, Len(P))
  <2>1. Missing(P, fs) = {Pre(P, k) : k \in {m \in 1 .. Len(P) : Pre(P, m) \notin fs.there}}
    BY <1>2 DEF Missing
  <2>2. {m \in 1 .. Len(P) : Pre(P, m) \notin fs.there} = a + 1 .. Len(P)
    <3>1. a + 1 .. Len(P) = {m \in 1 .. Len(P) : ~(m <= a)}
      BY <1>0, <1>6
    <3> QED BY <1>7, <3>1
  <2> QED BY <2>1, <2>2 DEF Extra, Pre
<1> QED BY <1>6, <1>7, <1>8, <1>9

(* The loop after k names of a place of which a are there: it has made the *)
(* others, unless the last that is there is closed.                        *)
Makes(st, P, fs, a, k) ==
  LET open == Pre(P, a) \notin fs.closed IN
  /\ st.built = Pre(P, k)
  /\ st.made <=> open /\ a < k
  /\ st.fs.there = fs.there \cup IF open THEN Extra(P, a, k) ELSE {}
  /\ st.fs.closed = fs.closed
  /\ DOMAIN st.fs = {"there", "closed"}

LEMMA MakesNext ==
  ASSUME NEW T, NEW P \in Seq(T), NEW fs \in FileSystems, NEW a \in 1 .. Len(P),
         \A k \in 1 .. Len(P) : Pre(P, k) \in fs.there <=> k <= a,
         NEW k \in 1 .. Len(P) - 1, NEW st, Makes(st, P, fs, a, k)
  PROVE  Makes(mkdir(st, P[k + 1]), P, fs, a, k + 1)
<1> DEFINE open == Pre(P, a) \notin fs.closed
           place == Pre(P, k + 1)
           next == mkdir(st, P[k + 1])
<1>0. /\ Len(P) \in Nat /\ k \in 1 .. Len(P) /\ k + 1 \in 1 .. Len(P) /\ k \in Nat /\ a \in Nat
  OBVIOUS
<1>1. \A m \in 1 .. Len(P) : Pre(P, m) \in Seq(T) /\ Len(Pre(P, m)) = m
  BY DEF Pre
<1>2. Append(st.built, P[k + 1]) = place
  <2>1. st.built = Pre(P, k)
    BY DEF Makes
  <2>2. Append(SubSeq(P, 1, k), P[k + 1]) = SubSeq(P, 1, k + 1)
    BY <1>0
  <2> QED BY <2>1, <2>2 DEF Pre
<1>3. ASSUME NEW m \in 1 .. Len(P) PROVE Pre(P, m) \in st.fs.there <=> m <= a \/ (open /\ m <= k)
  <2>1. Pre(P, m) \in Extra(P, a, k) <=> a < m /\ m <= k
    <3>1. ASSUME NEW n \in a + 1 .. k, Pre(P, m) = SubSeq(P, 1, n) PROVE m = n
      <4>1. n \in 1 .. Len(P)
        BY <1>0
      <4>2. Len(Pre(P, n)) = n /\ Len(Pre(P, m)) = m
        BY <1>1, <4>1
      <4> QED BY <3>1, <4>2 DEF Pre
    <3>2. a < m /\ m <= k => m \in a + 1 .. k
      BY <1>0
    <3> QED BY <1>0, <3>1, <3>2 DEF Extra, Pre
  <2>2. st.fs.there = fs.there \cup IF open THEN Extra(P, a, k) ELSE {}
    BY DEF Makes
  <2>3. Pre(P, m) \in fs.there <=> m <= a
    OBVIOUS
  <2> HIDE DEF open
  <2> QED BY <1>0, <2>1, <2>2, <2>3
<1>4. Pre(P, k) \in st.fs.closed => k <= a
  <2>1. st.fs.closed = fs.closed /\ fs.closed \subseteq fs.there
    BY FileSystemsAssumption DEF Makes
  <2> QED BY <1>0, <2>1
<1>5. k = a => (Pre(P, k) \in st.fs.closed <=> ~open)
  BY DEF Makes
<1> DEFINE made == place \notin st.fs.there /\ st.built \in st.fs.there \ st.fs.closed
<1>6. made <=> open /\ a < k + 1
  <2>1. st.built = Pre(P, k)
    BY DEF Makes
  <2>2. place \in st.fs.there <=> k + 1 <= a
    BY <1>0, <1>3
  <2>3. st.built \in st.fs.there <=> k <= a \/ open
    BY <1>0, <1>3, <2>1
  <2> HIDE DEF open, place
  <2>4. CASE k + 1 <= a
    BY <1>0, <2>2, <2>4
  <2>5. CASE k = a
    BY <1>0, <1>5, <2>1, <2>2, <2>3, <2>5
  <2>6. CASE a < k
    BY <1>0, <1>4, <2>1, <2>2, <2>3, <2>6
  <2>7. k + 1 <= a \/ k = a \/ a < k
    BY <1>0
  <2> QED BY <2>4, <2>5, <2>6, <2>7
<1>7. /\ next.built = place /\ next.made = made
      /\ next.fs = IF made THEN [st.fs EXCEPT !.there = @ \cup {place}] ELSE st.fs
  BY <1>2 DEF mkdir
<1>8. a < k + 1 => Extra(P, a, k + 1) = Extra(P, a, k) \cup {place}
  <2>1. ASSUME a < k + 1 PROVE a + 1 .. k + 1 = (a + 1 .. k) \cup {k + 1}
    BY <1>0, <2>1
  <2> QED BY <2>1 DEF Extra, Pre
<1>9. ~(a < k + 1) => Extra(P, a, k + 1) = {} /\ Extra(P, a, k) = {}
  <2>1. ASSUME ~(a < k + 1) PROVE a + 1 .. k + 1 = {} /\ a + 1 .. k = {}
    BY <1>0, <2>1
  <2> QED BY <2>1 DEF Extra
<1>10. /\ st.fs.there = fs.there \cup IF open THEN Extra(P, a, k) ELSE {}
       /\ st.fs.closed = fs.closed /\ DOMAIN st.fs = {"there", "closed"}
  BY DEF Makes
<1> HIDE DEF made, next, open, place
<1>11. /\ DOMAIN next.fs = {"there", "closed"} /\ next.fs.closed = fs.closed
       /\ next.fs.there = IF made THEN st.fs.there \cup {place} ELSE st.fs.there
  <2>1. CASE made
    <3>1. next.fs = [st.fs EXCEPT !.there = st.fs.there \cup {place}]
      BY <1>7, <2>1
    <3>2. "there" \in DOMAIN st.fs /\ "closed" \in DOMAIN st.fs /\ "there" # "closed"
      BY <1>10
    <3>3. next.fs.closed = st.fs.closed /\ next.fs.there = st.fs.there \cup {place}
      BY <3>1, <3>2
    <3>4. DOMAIN next.fs = DOMAIN st.fs
      BY <3>1
    <3> QED BY <1>10, <2>1, <3>3, <3>4
  <2>2. CASE ~made
    BY <1>7, <1>10, <2>2
  <2> QED BY <2>1, <2>2
<1>12. next.fs.there = fs.there \cup IF open THEN Extra(P, a, k + 1) ELSE {}
  <2>1. CASE open /\ a < k + 1
    BY <1>6, <1>8, <1>10, <1>11, <2>1
  <2>2. CASE open /\ ~(a < k + 1)
    BY <1>6, <1>9, <1>10, <1>11, <2>2
  <2>3. CASE ~open
    BY <1>6, <1>10, <1>11, <2>3
  <2> QED BY <2>1, <2>2, <2>3
<1> QED BY <1>6, <1>7, <1>11, <1>12 DEF Makes, next, open, place

(* The directories on the way are made, and no others. *)
LEMMA DirectoriesMade ==
  ASSUME NEW path \in Text, path # <<>>, NEW fs \in FileSystems
  PROVE  LET directory == Place(path)
             made == createPath(path, fs)
             open == Ancestor(directory, fs) \notin fs.closed
         IN  /\ made.fs.there = fs.there \cup IF open THEN Missing(directory, fs) ELSE {}
             /\ made.ok <=> directory \in made.fs.there
<1> DEFINE P == Place(path)
           b == [built |-> <<P[1]>>, made |-> FALSE, fs |-> fs]
           end == FoldLeft(mkdir, b, Tail(P))
           open == Ancestor(P, fs) \notin fs.closed
           made == createPath(path, fs)
<1>1. PICK T : P \in Seq(T) /\ P # <<>> /\ P[1] \in {"root", "here"}
  BY PlaceType
<1>2. made = IF P \in fs.there THEN [ok |-> TRUE, fs |-> fs] ELSE [ok |-> end.made, fs |-> end.fs]
  BY DEF createPath, pathExists
<1> HIDE DEF P
<1>3. PICK a \in 1 .. Len(P) : /\ \A k \in 1 .. Len(P) : Pre(P, k) \in fs.there <=> k <= a
                              /\ Ancestor(P, fs) = Pre(P, a)
                              /\ Missing(P, fs) = Extra(P, a, Len(P))
  BY <1>1, PartThere
<1>4. PICK h : /\ h[1] = b
               /\ \A k \in 1 .. Len(P) - 1 : h[k + 1] = mkdir(h[k], P[k + 1])
               /\ end = h[Len(P)]
  BY <1>1, Walked
<1> HIDE DEF end, made
<1>5. Len(P) \in Nat /\ Len(P) >= 1 /\ P = Pre(P, Len(P)) /\ a \in Nat /\ a >= 1
  BY <1>1, <1>3 DEF Pre
<1>6. CASE P \in fs.there
  <2>1. a = Len(P)
    BY <1>3, <1>5, <1>6
  <2>2. Extra(P, a, Len(P)) = {}
    BY <2>1, <1>5 DEF Extra
  <2> QED BY <1>2, <1>3, <1>6, <2>2 DEF P, made
<1>7. CASE P \notin fs.there
  <2> DEFINE B == {k \in Nat : k \in 1 .. Len(P) => Makes(h[k], P, fs, a, k)}
  <2>1. Makes(b, P, fs, a, 1)
    <3>1. <<P[1]>> = Pre(P, 1)
      <4>1. P[1] \in T
        BY <1>1, <1>5
      <4>2. <<P[1]>> \in Seq(T)
        BY <4>1, SingleText
      <4>3. Len(<<P[1]>>) = 1 /\ <<P[1]>>[1] = P[1]
        OBVIOUS
      <4>4. Pre(P, 1) \in Seq(T) /\ Len(Pre(P, 1)) = 1 /\ Pre(P, 1)[1] = P[1]
        BY <1>1, <1>5 DEF Pre
      <4> QED BY <4>2, <4>3, <4>4, SameTexts
    <3>2. Extra(P, a, 1) = {}
      <4>1. a + 1 .. 1 = {}
        BY <1>5
      <4> QED BY <4>1 DEF Extra
    <3>3. ~(a < 1)
      BY <1>5
    <3>4. DOMAIN fs = {"there", "closed"}
      BY FileSystemsAssumption
    <3> QED BY <3>1, <3>2, <3>3, <3>4 DEF Makes
  <2>2. 0 \in B
    OBVIOUS
  <2>3. ASSUME NEW k \in Nat, k \in B PROVE k + 1 \in B
    <3>1. CASE k = 0
      <4>1. Makes(h[1], P, fs, a, 1) /\ k + 1 = 1
        BY <1>4, <2>1, <3>1
      <4> QED BY <4>1
    <3>2. CASE k # 0 /\ k + 1 \in 1 .. Len(P)
      <4>1. k \in 1 .. Len(P) - 1 /\ k \in 1 .. Len(P)
        BY <1>5, <3>2
      <4>2. Makes(h[k], P, fs, a, k)
        BY <2>3, <4>1
      <4>3. Makes(mkdir(h[k], P[k + 1]), P, fs, a, k + 1)
        BY <1>1, <1>3, <4>1, <4>2, MakesNext
      <4>4. h[k + 1] = mkdir(h[k], P[k + 1])
        BY <1>4, <4>1
      <4>5. Makes(h[k + 1], P, fs, a, k + 1)
        BY <4>3, <4>4
      <4> QED BY <4>5
    <3> QED BY <3>1, <3>2
  <2>4. Nat \subseteq B
    <3> HIDE DEF B
    <3> QED BY <2>2, <2>3, Flattening!Induction
  <2>5. Makes(end, P, fs, a, Len(P))
    <3>1. Len(P) \in B /\ Len(P) \in 1 .. Len(P)
      BY <1>5, <2>4
    <3> QED BY <1>4, <3>1
  <2>6. a < Len(P)
    BY <1>3, <1>5, <1>7
  <2>7. P \in Extra(P, a, Len(P))
    <3>1. Len(P) \in a + 1 .. Len(P)
      BY <1>5, <2>6
    <3> QED BY <1>5, <3>1 DEF Extra, Pre
  <2>8. end.made <=> open
    BY <1>3, <2>5, <2>6 DEF Makes
  <2>9. end.fs.there = fs.there \cup IF open THEN Missing(P, fs) ELSE {}
    BY <1>3, <2>5 DEF Makes
  <2>10. made.ok = end.made /\ made.fs = end.fs
    BY <1>2, <1>7
  <2> HIDE DEF open
  <2>11. made.fs.there = fs.there \cup IF open THEN Missing(P, fs) ELSE {}
    BY <2>9, <2>10
  <2>12. made.ok <=> P \in made.fs.there
    <3>1. CASE open
      BY <1>3, <2>7, <2>8, <2>10, <2>11, <3>1
    <3>2. CASE ~open
      BY <1>7, <2>8, <2>10, <2>11, <3>2
    <3> QED BY <3>1, <3>2
  <2> QED BY <2>11, <2>12 DEF P, made, open
<1> QED BY <1>6, <1>7

(* Every file is named as its name says, and its directories are made, for *)
(* any names and file systems (TypedConfigurations::resolveFilename and    *)
(* insertFile, File::createPath, buildStrippedFilename,                    *)
(* buildBaseFilename).                                                     *)
THEOREM FilesCorrect == Spec => []FilesAsNamed
<1>1. Answers => FilesAsNamed
  <2> SUFFICES ASSUME Answers PROVE FilesAsNamed
    OBVIOUS
  <2>1. ASSUME call.op = "resolve", DateTime \in ToSet(call.name) => At(call.name, DateTime, FALSE) # {}
        PROVE  result = ExpectedName(call.name)
    <3>1. call.name \in Text /\ result = resolveFilename(call.name, Now)
      BY <2>1, TextsAssumption DEF Answers
    <3> QED BY <2>1, <3>1, NamesResolved
  <2>2. ASSUME call.op = "path"
        PROVE  LET directory == Place(extractPathFromFilename(call.name))
                   leads == Slashes(call.name) # {} /\ call.name[Len(call.name)] # kFilePathSeparator
                   open == Ancestor(directory, call.fs) \notin call.fs.closed
               IN  /\ result.fs.there =
                        call.fs.there \cup IF leads /\ open THEN Missing(directory, call.fs) ELSE {}
                   /\ leads => (result.ok <=> directory \in result.fs.there)
    <3>1. PICK name \in Text, fs \in FileSystems :
            name = call.name /\ fs = call.fs /\ result = PathFor(name, fs)
      BY <2>2, TextsAssumption DEF Answers
    <3> DEFINE path == extractPathFromFilename(name)
               leads == Slashes(name) # {} /\ name[Len(name)] # kFilePathSeparator
    <3>2. name \in Seq(STRING) /\ Len(name) \in Nat /\ DOMAIN name = 1 .. Len(name)
      BY DEF Text
    <3>3. (Len(path) < Len(name)) <=> leads
      <4>1. CASE Slashes(name) = {}
        BY <3>2, <4>1 DEF extractPathFromFilename
      <4>2. CASE Slashes(name) # {}
        <5>1. Max(Slashes(name)) \in Slashes(name) /\ \A y \in Slashes(name) : y <= Max(Slashes(name))
          BY <4>2, LastIs DEF Slashes
        <5>2. PICK m \in 1 .. Len(name) : m = Max(Slashes(name))
          BY <3>2, <5>1 DEF Slashes
        <5>0. m \in Nat /\ Len(name) \in Nat /\ m <= Len(name)
          <6> HIDE DEF path, leads
          <6>1. \A x \in Nat : \A y \in 1 .. x : y \in Nat /\ y <= x
            OBVIOUS
          <6> QED BY <3>2, <6>1
        <5>3. path = SubSeq(name, 1, m)
          BY <4>2, <5>2 DEF extractPathFromFilename
        <5>4. Len(path) = m
          BY <3>2, <5>3
        <5>5. name[Len(name)] = kFilePathSeparator <=> m = Len(name)
          <6>1. Len(name) \in DOMAIN name
            BY <3>2
          <6>2. name[Len(name)] = kFilePathSeparator => Len(name) <= m
            BY <5>1, <5>2, <6>1 DEF Slashes
          <6>3. name[m] = kFilePathSeparator
            BY <5>1, <5>2 DEF Slashes
          <6>4. Len(name) <= m => m = Len(name)
            BY <5>0
          <6> HIDE DEF path
          <6> QED BY <6>2, <6>3, <6>4
        <5>6. m < Len(name) <=> m # Len(name)
          BY <5>0
        <5> HIDE DEF path
        <5> QED BY <4>2, <5>4, <5>5, <5>6
      <4> QED BY <4>1, <4>2
    <3>4. CASE ~leads
      <4>1. result = [ok |-> TRUE, fs |-> fs]
        BY <3>1, <3>3, <3>4 DEF PathFor
      <4> QED BY <3>1, <3>4, <4>1
    <3>5. CASE leads
      <4>1. path \in Text /\ path # <<>>
        <5>1. Max(Slashes(name)) \in Slashes(name)
          BY <3>5, LastIs DEF Slashes
        <5>2. PICK m \in 1 .. Len(name) : m = Max(Slashes(name))
          BY <3>2, <5>1 DEF Slashes
        <5>3. path = SubSeq(name, 1, m)
          BY <3>5, <5>2 DEF extractPathFromFilename
        <5> HIDE DEF path
        <5> QED BY <3>2, <5>3 DEF Text
      <4>2. result = createPath(path, fs)
        BY <3>1, <3>3, <3>5 DEF PathFor
      <4> DEFINE directory == Place(path)
                 open == Ancestor(directory, fs) \notin fs.closed
      <4>3. /\ result.fs.there = fs.there \cup IF open THEN Missing(directory, fs) ELSE {}
            /\ result.ok <=> directory \in result.fs.there
        <5> HIDE DEF path
        <5> QED BY <4>1, <4>2, DirectoriesMade
      <4> QED BY <3>1, <3>5, <4>3
    <3> QED BY <3>4, <3>5
  <2>3. ASSUME call.op = "source"
        PROVE  LET base == SubSeq(call.name, SelectLastInSeq(call.name, LAMBDA c : c = "/") + 1,
                                  Len(call.name))
               IN  ShowsEnd(result.file, call.name) /\ (Slashes(call.name) # {1} => ShowsEnd(result.fbase, base))
    <3>1. PICK name \in Text :
            /\ name = call.name /\ result.file = buildStrippedFilename(name)
            /\ result.fbase = buildBaseFilename(name)
      BY <2>3, TextsAssumption DEF Answers
    <3>2. ShowsEnd(result.file, name)
      BY <3>1, StrippedShows
    <3> DEFINE base == SubSeq(name, SelectLastInSeq(name, LAMBDA c : c = "/") + 1, Len(name))
    <3>3. ASSUME Slashes(name) # {1} PROVE ShowsEnd(result.fbase, base)
      <4>1. baseOf(name) = base
        BY <3>3, BaseIs
      <4>2. base \in Text
        <5> DEFINE l == SelectLastInSeq(name, LAMBDA c : c = "/")
        <5>1. l \in Nat
          <6> DEFINE I == {i \in 1 .. Len(name) : name[i] = "/"}
          <6>1. I \in SUBSET DOMAIN name /\ DOMAIN name \subseteq Nat
            BY DEF Text
          <6>2. I # {} => Max(I) \in I
            <7> HIDE DEF I
            <7> QED BY <6>1, LastIs
          <6> QED BY <6>1, <6>2 DEF SelectLastInSeq
        <5> HIDE DEF l
        <5>2. SubSeq(name, l + 1, Len(name)) \in Text
          BY <5>1 DEF Text
        <5> QED BY <5>2 DEF l
      <4> HIDE DEF base
      <4> QED BY <3>1, <4>1, <4>2, StrippedShows DEF buildBaseFilename
    <3> QED BY <3>1, <3>2, <3>3
  <2> HIDE DEF Answers
  <2> QED BY <2>1, <2>2, <2>3 DEF FilesAsNamed, ShowsEnd, CutAtDot
<1> QED BY <1>1, Answered, PTL

-----------------------------------------------------------------------------
(* Patterns. *)
(* Whether what is left of s from x[1] on and of p from x[2] on match.     *)
MatchStep(q, f, x) ==
  LET s == q[1]
      p == q[2]
      i == x[1]
      j == x[2]
  IN  IF j > Len(p) THEN i > Len(s)
      ELSE IF p[j] = "*" THEN f[<<i, j + 1>>] \/ (i <= Len(s) /\ f[<<i + 1, j>>])
      ELSE i <= Len(s) /\ p[j] \in {"?", s[i]} /\ f[<<i + 1, j + 1>>]
Matching == INSTANCE Loops WITH Op <- MatchStep

(* The function exists, and its values are computed from its other values. *)
LEMMA MatchIs ==
  ASSUME NEW T, NEW s \in Seq(T), NEW p \in Seq(T)
  PROVE  \E M : /\ wildCardMatch(s, p) = M[<<1, 1>>]
                /\ \A i \in 1 .. Len(s) + 1, j \in 1 .. Len(p) + 1 :
                     M[<<i, j>>] = MatchStep(<<s, p>>, M, <<i, j>>)
<1> DEFINE D == (1 .. Len(s) + 1) \X (1 .. Len(p) + 1)
           body(f) == [at \in (1 .. Len(s) + 1) \X (1 .. Len(p) + 1) |->
                   LET i == at[1]
                       j == at[2]
                   IN  IF j > Len(p) THEN i > Len(s)
                       ELSE IF p[j] = "*" THEN f[<<i, j + 1>>] \/ (i <= Len(s) /\ f[<<i + 1, j>>])
                       ELSE i <= Len(s) /\ p[j] \in {"?", s[i]} /\ f[<<i + 1, j + 1>>]]
           it == CHOOSE f : f = body(f)
           q == <<s, p>>
           m == [x \in D |-> (Len(s) + 1 - x[1]) + (Len(p) + 1 - x[2])]
<1>0. Len(s) \in Nat /\ Len(p) \in Nat
  OBVIOUS
<1>1. wildCardMatch(s, p) = it[<<1, 1>>]
  BY DEF wildCardMatch
<1>2. m \in [D -> Nat]
  BY <1>0
<1>3. ASSUME NEW x \in D, NEW f, NEW g, \A e \in D : m[e] < m[x] => f[e] = g[e]
      PROVE  MatchStep(q, f, x) = MatchStep(q, g, x)
  <2>1. PICK i \in 1 .. Len(s) + 1, j \in 1 .. Len(p) + 1 : x = <<i, j>>
    OBVIOUS
  <2>2. \A a \in 1 .. Len(s) + 1, b \in 1 .. Len(p) + 1 :
          <<a, b>> \in D /\ m[<<a, b>>] = (Len(s) + 1 - a) + (Len(p) + 1 - b)
    BY <1>0
  <2> HIDE DEF m, D
  <2>3. j <= Len(p) => j + 1 \in 1 .. Len(p) + 1
    BY <1>0
  <2>4. i <= Len(s) => i + 1 \in 1 .. Len(s) + 1
    BY <1>0
  <2>5. j <= Len(p) => f[<<i, j + 1>>] = g[<<i, j + 1>>]
    BY <1>0, <1>3, <2>1, <2>2, <2>3
  <2>6. i <= Len(s) => f[<<i + 1, j>>] = g[<<i + 1, j>>]
    BY <1>0, <1>3, <2>1, <2>2, <2>4
  <2>7. i <= Len(s) /\ j <= Len(p) => f[<<i + 1, j + 1>>] = g[<<i + 1, j + 1>>]
    BY <1>0, <1>3, <2>1, <2>2, <2>3, <2>4
  <2>8. x[1] = i /\ x[2] = j /\ q[1] = s /\ q[2] = p /\ (j > Len(p) \/ j <= Len(p))
    BY <1>0, <2>1
  <2> HIDE DEF q
  <2> QED BY <2>5, <2>6, <2>7, <2>8 DEF MatchStep
<1>4. \E f : Matching!RecOf(q, D, f)
  <2> HIDE DEF m, q, D
  <2> QED BY <1>2, <1>3, Matching!RecursionExists
<1>5. Matching!RecOf(q, D, it)
  <2>1. ASSUME NEW f PROVE body(f) = [at \in D |-> MatchStep(q, f, at)]
    <3>1. q[1] = s /\ q[2] = p
      OBVIOUS
    <3> HIDE DEF q
    <3> QED BY <3>1, Zenon DEF MatchStep
  <2> HIDE DEF body, q, D
  <2>2. \E f : f = body(f)
    BY <1>4, <2>1, Zenon DEF Matching!RecOf
  <2>3. it = body(it)
    BY <2>2, Zenon
  <2> HIDE DEF it
  <2> QED BY <2>1, <2>3, Zenon DEF Matching!RecOf
<1>6. ASSUME NEW i \in 1 .. Len(s) + 1, NEW j \in 1 .. Len(p) + 1
      PROVE  it[<<i, j>>] = MatchStep(q, it, <<i, j>>)
  <2>1. <<i, j>> \in D
    OBVIOUS
  <2> HIDE DEF it, q, D
  <2> QED BY <1>5, <2>1 DEF Matching!RecOf
<1> HIDE DEF it
<1> QED BY <1>1, <1>6

(* A star is passed at any place from where it is on. *)
LEMMA StarMatches ==
  ASSUME NEW T, NEW s \in Seq(T), NEW p \in Seq(T), NEW M, NEW j \in 1 .. Len(p), p[j] = "*",
         \A i \in 1 .. Len(s) + 1 : M[<<i, j>>] = MatchStep(<<s, p>>, M, <<i, j>>),
         NEW i \in 0 .. Len(s)
  PROVE  M[<<i + 1, j>>] <=> \E k \in i .. Len(s) : M[<<k + 1, j + 1>>]
<1> DEFINE From(x) == M[<<x, j>>] = TRUE
           Past(x) == M[<<x, j + 1>>] = TRUE
           SomeFrom(x) == \E k \in x .. Len(s) : Past(k + 1)
           B == {n \in Nat : n <= Len(s) => (From(Len(s) - n + 1) <=> SomeFrom(Len(s) - n))}
<1>0. Len(s) \in Nat /\ Len(p) \in Nat /\ ~(j > Len(p))
  OBVIOUS
<1>1. ASSUME NEW x \in 1 .. Len(s) + 1
      PROVE  From(x) <=> Past(x) \/ (x <= Len(s) /\ From(x + 1))
  <2>1. M[<<x, j>>] = MatchStep(<<s, p>>, M, <<x, j>>)
    OBVIOUS
  <2>2. MatchStep(<<s, p>>, M, <<x, j>>) = (M[<<x, j + 1>>] \/ (x <= Len(s) /\ M[<<x + 1, j>>]))
    BY <1>0 DEF MatchStep
  <2> QED BY <2>1, <2>2
<1>2. 0 \in B
  <2>1. /\ Len(s) + 1 \in 1 .. Len(s) + 1 /\ ~(Len(s) + 1 <= Len(s))
        /\ Len(s) - 0 = Len(s) /\ Len(s) .. Len(s) = {Len(s)}
    BY <1>0
  <2>2. From(Len(s) + 1) <=> Past(Len(s) + 1)
    BY <1>1, <2>1
  <2> HIDE DEF From, Past
  <2>3. SomeFrom(Len(s)) <=> Past(Len(s) + 1)
    BY <2>1
  <2> HIDE DEF SomeFrom
  <2>4. Len(s) - 0 + 1 = Len(s) + 1
    BY <1>0
  <2>5. From(Len(s) - 0 + 1) <=> SomeFrom(Len(s) - 0)
    BY <2>1, <2>2, <2>3, <2>4
  <2> QED BY <2>5
<1>3. ASSUME NEW n \in Nat, n \in B, n + 1 <= Len(s)
      PROVE  From(Len(s) - (n + 1) + 1) <=> SomeFrom(Len(s) - (n + 1))
  <2> DEFINE x == Len(s) - n
  <2>0. n + 1 <= Len(s)
    BY <1>3
  <2>1. /\ x \in 1 .. Len(s) + 1 /\ x <= Len(s) /\ Len(s) - (n + 1) + 1 = x
        /\ Len(s) - (n + 1) = x - 1 /\ n <= Len(s)
    BY <1>0, <2>0
  <2>2. From(x + 1) <=> SomeFrom(x)
    BY <1>3, <2>1
  <2> HIDE DEF x, From, Past
  <2>3. x - 1 .. Len(s) = {x - 1} \cup (x .. Len(s)) /\ x - 1 + 1 = x
    BY <1>0, <2>1
  <2>4. From(x) <=> Past(x) \/ From(x + 1)
    BY <1>1, <2>1
  <2>5. SomeFrom(x - 1) <=> Past(x) \/ SomeFrom(x)
    BY <2>3
  <2> HIDE DEF SomeFrom
  <2> QED BY <2>1, <2>2, <2>4, <2>5
<1>4. Nat \subseteq B
  <2> HIDE DEF From, SomeFrom
  <2>1. ASSUME NEW n \in Nat, n \in B PROVE n + 1 \in B
    BY <1>3, <2>1
  <2> HIDE DEF B
  <2> QED BY <1>2, <2>1, Flattening!Induction
<1>5. Len(s) - i \in Nat /\ Len(s) - i <= Len(s) /\ Len(s) - (Len(s) - i) = i
  BY <1>0
<1>6. From(i + 1) <=> SomeFrom(i)
  <2> HIDE DEF From, SomeFrom
  <2>1. Len(s) - i \in B
    <3> HIDE DEF B
    <3> QED BY <1>4, <1>5
  <2> QED BY <1>5, <2>1
<1> QED BY <1>6

(* From the places that are reached to those that one more token reaches.  *)
Reach(s, at, c) ==
  IF c = "*" THEN UNION {i .. Len(s) : i \in at}
  ELSE {i + 1 : i \in {j \in at : j < Len(s) /\ c \in {"?", s[j + 1]}}}
Reaching == INSTANCE Loops WITH Op <- Reach

(* From one of these places the rest matches just when it does from one of *)
(* those.                                                                  *)
LEMMA ReachMatches ==
  ASSUME NEW T, NEW s \in Seq(T), NEW p \in Seq(T), NEW M, NEW j \in 1 .. Len(p), NEW at \in SUBSET (0 .. Len(s)),
         \A i \in 1 .. Len(s) + 1 : M[<<i, j>>] = MatchStep(<<s, p>>, M, <<i, j>>)
  PROVE  /\ Reach(s, at, p[j]) \in SUBSET (0 .. Len(s))
         /\ (\E i \in at : M[<<i + 1, j>>]) <=> (\E i \in Reach(s, at, p[j]) : M[<<i + 1, j + 1>>])
<1> DEFINE From(x) == M[<<x, j>>] = TRUE
           Past(x) == M[<<x, j + 1>>] = TRUE
           next == Reach(s, at, p[j])
<1>0. Len(s) \in Nat /\ Len(p) \in Nat /\ ~(j > Len(p))
  OBVIOUS
<1>1. CASE p[j] = "*"
  <2>1. next = UNION {i .. Len(s) : i \in at}
    BY <1>1 DEF Reach
  <2>2. ASSUME NEW i \in at PROVE From(i + 1) <=> \E k \in i .. Len(s) : Past(k + 1)
    <3>1. i \in 0 .. Len(s)
      OBVIOUS
    <3>2. M[<<i + 1, j>>] <=> \E k \in i .. Len(s) : M[<<k + 1, j + 1>>]
      BY <1>1, <3>1, StarMatches
    <3> QED BY <3>2
  <2> HIDE DEF From, Past, next
  <2>3. (\E i \in at : From(i + 1)) <=> (\E k \in next : Past(k + 1))
    BY <2>1, <2>2
  <2>4. next \in SUBSET (0 .. Len(s))
    <3>1. ASSUME NEW i \in at PROVE i .. Len(s) \subseteq 0 .. Len(s)
      BY <1>0
    <3> QED BY <2>1, <3>1
  <2> QED BY <2>3, <2>4 DEF From, Past, next
<1>2. CASE p[j] # "*"
  <2> DEFINE on == {i \in at : i < Len(s) /\ p[j] \in {"?", s[i + 1]}}
  <2>1. next = {i + 1 : i \in on}
    BY <1>2 DEF Reach
  <2>2. ASSUME NEW i \in at PROVE From(i + 1) <=> i \in on /\ Past(i + 1 + 1)
    <3>1. i \in 0 .. Len(s) /\ i + 1 \in 1 .. Len(s) + 1 /\ (i + 1 <= Len(s) <=> i < Len(s))
      BY <1>0
    <3>2. M[<<i + 1, j>>] = MatchStep(<<s, p>>, M, <<i + 1, j>>)
      BY <3>1
    <3>3. MatchStep(<<s, p>>, M, <<i + 1, j>>)
            = (i + 1 <= Len(s) /\ p[j] \in {"?", s[i + 1]} /\ M[<<i + 1 + 1, j + 1>>])
      BY <1>0, <1>2 DEF MatchStep
    <3> QED BY <3>1, <3>2, <3>3
  <2>3. next \in SUBSET (0 .. Len(s))
    <3>1. ASSUME NEW i \in on PROVE i + 1 \in 0 .. Len(s)
      BY <1>0
    <3> HIDE DEF on, next
    <3> QED BY <2>1, <3>1
  <2>4. on \subseteq at
    OBVIOUS
  <2> HIDE DEF From, Past, next, on
  <2>5. (\E i \in at : From(i + 1)) <=> (\E k \in next : Past(k + 1))
    BY <2>1, <2>2, <2>4
  <2> QED BY <2>3, <2>5 DEF From, Past, next
<1> QED BY <1>1, <1>2

(* A text matches just when its end is reached. *)
LEMMA MatchReaches ==
  ASSUME NEW T, NEW s \in Seq(T), NEW p \in Seq(T)
  PROVE  wildCardMatch(s, p) <=> Len(s) \in Reached(s, p)
<1>0. Len(s) \in Nat /\ Len(p) \in Nat /\ DOMAIN p = 1 .. Len(p)
  OBVIOUS
<1>1. Reached(s, p) = Reaching!Fold(s, {0}, p)
  BY DEF Reached, Reach, Reaching!Fold, Reaching!MapThenFoldSet, FoldLeft, MapThenFoldSet,
         Max, Reaching!Max
<1>2. PICK g : Reaching!Run(s, {0}, p, Len(p), g)
  BY <1>0, Reaching!FoldSteps
<1>3. /\ g[0] = {0} /\ Reached(s, p) = g[Len(p)]
      /\ \A i \in 1 .. Len(p) : g[i] = Reach(s, g[i - 1], p[i])
  BY <1>1, <1>2 DEF Reaching!Run
<1>4. PICK M : /\ wildCardMatch(s, p) = M[<<1, 1>>]
               /\ \A i \in 1 .. Len(s) + 1, j \in 1 .. Len(p) + 1 :
                    M[<<i, j>>] = MatchStep(<<s, p>>, M, <<i, j>>)
  BY MatchIs
<1> DEFINE SomeFrom(n) == \E i \in g[n] : M[<<i + 1, n + 1>>]
           B == {n \in Nat : n <= Len(p) => g[n] \in SUBSET (0 .. Len(s)) /\ (SomeFrom(0) <=> SomeFrom(n))}
<1>5. 0 \in B
  <2>1. {0} \in SUBSET (0 .. Len(s))
    BY <1>0
  <2> HIDE DEF SomeFrom
  <2> QED BY <1>3, <2>1
<1>6. ASSUME NEW n \in Nat, n \in B PROVE n + 1 \in B
  <2> SUFFICES ASSUME n + 1 <= Len(p) PROVE g[n + 1] \in SUBSET (0 .. Len(s)) /\ (SomeFrom(0) <=> SomeFrom(n + 1))
    OBVIOUS
  <2> DEFINE j == n + 1
  <2>1. j \in 1 .. Len(p) /\ j \in 1 .. Len(p) + 1 /\ n <= Len(p) /\ j - 1 = n
    BY <1>0
  <2>2. g[n] \in SUBSET (0 .. Len(s)) /\ (SomeFrom(0) <=> SomeFrom(n))
    BY <1>6, <2>1
  <2> HIDE DEF j
  <2>3. g[j] = Reach(s, g[n], p[j])
    BY <1>3, <2>1
  <2>4. \A i \in 1 .. Len(s) + 1 : M[<<i, j>>] = MatchStep(<<s, p>>, M, <<i, j>>)
    BY <1>4, <2>1
  <2>5. /\ Reach(s, g[n], p[j]) \in SUBSET (0 .. Len(s))
        /\ (\E i \in g[n] : M[<<i + 1, j>>]) <=> (\E i \in Reach(s, g[n], p[j]) : M[<<i + 1, j + 1>>])
    BY <2>1, <2>2, <2>4, ReachMatches
  <2>6. SomeFrom(n) <=> SomeFrom(n + 1)
    BY <2>3, <2>5 DEF j
  <2> HIDE DEF SomeFrom
  <2> QED BY <2>2, <2>3, <2>5, <2>6 DEF j
<1>7. Nat \subseteq B
  <2> HIDE DEF B
  <2> QED BY <1>5, <1>6, Flattening!Induction
<1>8. g[Len(p)] \in SUBSET (0 .. Len(s)) /\ (SomeFrom(0) <=> SomeFrom(Len(p)))
  <2> HIDE DEF SomeFrom
  <2> QED BY <1>0, <1>7
<1>9. SomeFrom(0) <=> wildCardMatch(s, p)
  BY <1>3, <1>4
<1>10. ASSUME NEW i \in 0 .. Len(s) PROVE M[<<i + 1, Len(p) + 1>>] <=> i = Len(s)
  <2>1. i + 1 \in 1 .. Len(s) + 1 /\ Len(p) + 1 \in 1 .. Len(p) + 1 /\ Len(p) + 1 > Len(p)
        /\ (i + 1 > Len(s) <=> i = Len(s))
    BY <1>0
  <2>2. M[<<i + 1, Len(p) + 1>>] = MatchStep(<<s, p>>, M, <<i + 1, Len(p) + 1>>)
    BY <1>4, <2>1
  <2>3. MatchStep(<<s, p>>, M, <<i + 1, Len(p) + 1>>) = (i + 1 > Len(s))
    BY <2>1 DEF MatchStep
  <2> QED BY <2>1, <2>2, <2>3
<1>11. SomeFrom(Len(p)) <=> Len(s) \in g[Len(p)]
  BY <1>8, <1>10
<1> HIDE DEF SomeFrom
<1> QED BY <1>3, <1>8, <1>9, <1>11

-----------------------------------------------------------------------------
(* Modules: a name with each suffix. *)
Characters == STRING \cup ToSet(FileExtensions)

(* A sequence over a set is one over a larger set. *)
LEMMA SeqsWithin ==
  ASSUME NEW S, NEW T, S \subseteq T, NEW s \in Seq(S)
  PROVE  s \in Seq(T)
OBVIOUS

(* Texts are made of characters. *)
LEMMA TextsOfCharacters == ASSUME NEW s \in Text PROVE s \in Seq(Characters)
<1>1. STRING \subseteq Characters
  BY DEF Characters
<1> QED BY <1>1, SeqsWithin DEF Text

(* A sequence of nine. *)
LEMMA Nine ==
  ASSUME NEW x1, NEW x2, NEW x3, NEW x4, NEW x5, NEW x6, NEW x7, NEW x8, NEW x9
  PROVE  /\ Len(<<x1, x2, x3, x4, x5, x6, x7, x8, x9>>) = 9
         /\ DOMAIN <<x1, x2, x3, x4, x5, x6, x7, x8, x9>> = 1 .. 9
OBVIOUS

(* There are nine suffixes. *)
LEMMA TheSuffixes ==
  /\ Len(FileExtensions) = 9 /\ DOMAIN FileExtensions = 1 .. 9
  /\ ToSet(FileExtensions) = {FileExtensions[i] : i \in 1 .. 9}
  /\ \A i \in 1 .. 9 : FileExtensions[i] \in Characters
<1>1. Len(FileExtensions) = 9 /\ DOMAIN FileExtensions = 1 .. 9
  BY Nine, Zenon DEF FileExtensions
<1>3. ToSet(FileExtensions) = {FileExtensions[i] : i \in 1 .. 9}
  BY <1>1, Zenon DEF ToSet
<1>4. \A i \in 1 .. 9 : FileExtensions[i] \in Characters
  BY <1>3 DEF Characters
<1> QED BY <1>1, <1>3, <1>4

(* A suffix is taken off where it is, and nowhere else. *)
LEMMA WithoutSuffix ==
  ASSUME NEW T, NEW s \in Seq(T), NEW x \in T
  PROVE  /\ Without(Append(s, x), x) = s
         /\ s # <<>> /\ s[Len(s)] # x => Without(s, x) = s
<1>1. Append(s, x) \in Seq(T) /\ Len(Append(s, x)) = Len(s) + 1 /\ Append(s, x)[Len(s) + 1] = x
  OBVIOUS
<1>2. SubSeq(Append(s, x), 1, Len(s)) = s
  <2>1. /\ SubSeq(Append(s, x), 1, Len(s)) \in Seq(T)
        /\ Len(SubSeq(Append(s, x), 1, Len(s))) = Len(s)
        /\ \A i \in 1 .. Len(s) : SubSeq(Append(s, x), 1, Len(s))[i] = s[i]
    BY <1>1
  <2> QED BY <2>1, SameTexts
<1>3. Front(Append(s, x)) = s
  BY <1>1, <1>2 DEF Front
<1> QED BY <1>1, <1>3 DEF Without

(* What has been made of s: it, and it with each of the first suffixes.    *)
Suffixed(p, t, i) == Append(t, addSuffix(t[Len(t)], i))
Suffixing == INSTANCE Loops WITH Op <- Suffixed

(* One suffix gives way to the next. *)
LEMMA SuffixNext ==
  ASSUME NEW s \in Seq(Characters), s # <<>>, s[Len(s)] \notin ToSet(FileExtensions), NEW i \in 1 .. 9
  PROVE  /\ i = 1 => addSuffix(s, i) = Append(s, FileExtensions[i])
         /\ i > 1 => addSuffix(Append(s, FileExtensions[i - 1]), i) = Append(s, FileExtensions[i])
<1>1. FileExtensions[i] \in Characters /\ s[Len(s)] # FileExtensions[i]
  BY TheSuffixes
<1>4. ASSUME i > 1 PROVE FileExtensions[i - 1] \in Characters
  <2>1. i - 1 \in 1 .. 9
    BY <1>4
  <2> QED BY <2>1, TheSuffixes
<1>2. Without(s, FileExtensions[i]) = s
  BY <1>1, WithoutSuffix
<1>3. i > 1 => Without(Append(s, FileExtensions[i - 1]), FileExtensions[i - 1]) = s
  BY <1>4, WithoutSuffix
<1> QED BY <1>2, <1>3 DEF addSuffix

(* A name stands for itself with each suffix in turn. *)
LEMMA ExtendedBySuffixes ==
  ASSUME NEW s \in Text, s # <<>>, s[Len(s)] \notin ToSet(FileExtensions)
  PROVE  Extended(s) = {Append(s, e) : e \in ToSet(FileExtensions)}
<1> DEFINE is == [i \in DOMAIN FileExtensions |-> i]
           ss == Suffixing!Fold(0, <<s>>, is)
<1>1. Extended(s) = {ss[i] : i \in 2 .. Len(ss)}
  BY DEF Extended, Suffixed, Suffixing!Fold, Suffixing!MapThenFoldSet, FoldLeft,
         MapThenFoldSet, Max, Suffixing!Max
<1>2. DOMAIN is = 1 .. 9 /\ \A i \in 1 .. 9 : is[i] = i
  <2>1. DOMAIN FileExtensions = 1 .. 9
    BY TheSuffixes
  <2> HIDE DEF FileExtensions
  <2> QED BY <2>1
<1>3. PICK g : Suffixing!Run(0, <<s>>, is, 9, g)
  <2> HIDE DEF is
  <2> QED BY <1>2, Suffixing!FoldSteps
<1>4. g[0] = <<s>> /\ ss = g[9] /\ \A i \in 1 .. 9 : g[i] = Suffixed(0, g[i - 1], i)
  <2> HIDE DEF is
  <2> QED BY <1>2, <1>3 DEF Suffixing!Run
<1> HIDE DEF is, ss
<1> DEFINE T == Characters
           Upto(n) == /\ g[n] \in Seq(Seq(T)) /\ Len(g[n]) = n + 1 /\ g[n][1] = s
                      /\ \A i \in 1 .. n : g[n][i + 1] = Append(s, FileExtensions[i])
           B == {n \in Nat : n <= 9 => Upto(n)}
<1>5. s \in Seq(T)
  BY TextsOfCharacters
<1> HIDE DEF T
<1>6. Upto(0)
  <2>1. <<s>> \in Seq(Seq(T)) /\ Len(<<s>>) = 1 /\ <<s>>[1] = s
    BY <1>5, SingleText
  <2> QED BY <1>4, <2>1
<1>7. ASSUME NEW n \in Nat, Upto(n), n + 1 <= 9 PROVE Upto(n + 1)
  <2> DEFINE j == n + 1
             u == g[n]
             e == FileExtensions[j]
             v == Append(s, e)
  <2>1. j \in 1 .. 9 /\ j - 1 = n
    BY <1>7
  <2>2. /\ u \in Seq(Seq(T)) /\ Len(u) = n + 1 /\ u[1] = s
        /\ \A i \in 1 .. n : u[i + 1] = Append(s, FileExtensions[i])
    BY <1>7
  <2> HIDE DEF u
  <2>3. n > 0 => n \in 1 .. n
    OBVIOUS
  <2>4. u[Len(u)] = IF n = 0 THEN s ELSE Append(s, FileExtensions[n])
    <3>1. Len(u) = n + 1
      BY <2>2
    <3>2. n > 0 => u[n + 1] = Append(s, FileExtensions[n])
      BY <2>2, <2>3
    <3>3. n = 0 => u[n + 1] = s
      BY <2>2
    <3>4. n = 0 \/ n > 0
      OBVIOUS
    <3>5. u[Len(u)] = u[n + 1]
      BY <3>1
    <3> QED BY <3>2, <3>3, <3>4, <3>5, Zenon
  <2> HIDE DEF j
  <2>5. addSuffix(u[Len(u)], j) = v
    <3>1. CASE n = 0
      <4>1. j = 1 /\ u[Len(u)] = s
        BY <2>4, <3>1 DEF j
      <4> QED BY <1>5, <2>1, <4>1, SuffixNext DEF T
    <3>2. CASE n > 0
      <4>1. j > 1 /\ u[Len(u)] = Append(s, FileExtensions[j - 1])
        BY <2>1, <2>4, <3>2 DEF j
      <4> QED BY <1>5, <2>1, <4>1, SuffixNext DEF T
    <3> QED BY <3>1, <3>2
  <2>6. g[j] = Append(u, v)
    BY <1>4, <2>1, <2>5 DEF Suffixed, u
  <2>7. v \in Seq(T)
    <3>1. e \in T
      BY <2>1, TheSuffixes DEF T
    <3> HIDE DEF e
    <3> QED BY <1>5, <3>1
  <2>8. /\ g[j] \in Seq(Seq(T)) /\ Len(g[j]) = n + 2 /\ g[j][n + 2] = v
        /\ \A i \in 1 .. n + 1 : g[j][i] = u[i]
    <3> HIDE DEF v
    <3> QED BY <2>2, <2>6, <2>7
  <2>9. ASSUME NEW i \in 1 .. n + 1 PROVE g[j][i + 1] = Append(s, FileExtensions[i])
    <3>1. CASE i \in 1 .. n
      <4>1. i + 1 \in 1 .. n + 1
        BY <3>1
      <4> QED BY <2>2, <2>8, <3>1, <4>1
    <3>2. CASE i = j
      <4>1. i + 1 = n + 2
        BY <3>2 DEF j
      <4> QED BY <2>8, <3>2, <4>1
    <3> QED BY <3>1, <3>2 DEF j
  <2>10. g[j][1] = s
    BY <2>2, <2>8
  <2>11. Len(g[j]) = j + 1
    BY <2>8 DEF j
  <2>12. \A i \in 1 .. j : g[j][i + 1] = Append(s, FileExtensions[i])
    BY <2>9 DEF j
  <2>13. Upto(j)
    BY <2>8, <2>10, <2>11, <2>12
  <2> HIDE DEF Upto
  <2> QED BY <2>13 DEF j
<1>8. 9 \in B
  <2> HIDE DEF Upto
  <2>1. 0 \in B /\ \A n \in Nat : n \in B => n + 1 \in B
    BY <1>6, <1>7
  <2> HIDE DEF B
  <2> QED BY <2>1, Flattening!Induction
<1>9. Len(ss) = 10 /\ \A i \in 1 .. 9 : ss[i + 1] = Append(s, FileExtensions[i])
  <2>1. Upto(9)
    <3> HIDE DEF Upto
    <3> QED BY <1>8
  <2>2. Len(g[9]) = 10
    BY <2>1
  <2> QED BY <1>4, <2>1, <2>2
<1>10. {ss[i] : i \in 2 .. 10} = {ss[i + 1] : i \in 1 .. 9}
  <2>1. \A i \in 2 .. 10 : i - 1 \in 1 .. 9 /\ (i - 1) + 1 = i
    OBVIOUS
  <2>2. \A i \in 1 .. 9 : i + 1 \in 2 .. 10
    OBVIOUS
  <2> QED BY <2>1, <2>2
<1>11. {ss[i + 1] : i \in 1 .. 9} = {Append(s, e) : e \in ToSet(FileExtensions)}
  <2>1. {ss[i + 1] : i \in 1 .. 9} = {Append(s, FileExtensions[i]) : i \in 1 .. 9}
    BY <1>9
  <2> QED BY <2>1, TheSuffixes
<1> QED BY <1>1, <1>9, <1>10, <1>11

(* The base is a text. *)
LEMMA BaseType ==
  ASSUME NEW name \in Text
  PROVE  SubSeq(name, SelectLastInSeq(name, LAMBDA c : c = "/") + 1, Len(name)) \in Text
<1> DEFINE l == SelectLastInSeq(name, LAMBDA c : c = "/")
<1>1. l \in Nat
  <2> DEFINE I == {i \in 1 .. Len(name) : name[i] = "/"}
  <2>1. I \in SUBSET DOMAIN name /\ DOMAIN name \subseteq Nat
    BY DEF Text
  <2>2. I # {} => Max(I) \in I
    <3> HIDE DEF I
    <3> QED BY <2>1, LastIs
  <2> QED BY <2>1, <2>2 DEF SelectLastInSeq
<1> HIDE DEF l
<1>2. SubSeq(name, l + 1, Len(name)) \in Text
  BY <1>1 DEF Text
<1> QED BY <1>2 DEF l

(* Where the name of a source file is not cut its base is shown whole.     *)
LEMMA BaseShown ==
  ASSUME NEW path \in Paths
  PROVE  /\ path \in Text
         /\ buildBaseFilename(path) =
              SubSeq(path, SelectLastInSeq(path, LAMBDA c : c = "/") + 1, Len(path))
<1>1. path \in Text /\ Slashes(path) # {1} /\ Len(baseOf(path)) < kSourceFilenameMaxLength
  BY VerboseAssumption, TextsAssumption
<1>2. baseOf(path) = SubSeq(path, SelectLastInSeq(path, LAMBDA c : c = "/") + 1, Len(path))
  BY <1>1, BaseIs
<1>3. baseOf(path) \in Text
  BY <1>1, <1>2, BaseType
<1>4. buildStrippedFilename(baseOf(path)) = baseOf(path)
  BY <1>1, <1>3, StrippedShows DEF ShowsEnd
<1> QED BY <1>1, <1>2, <1>4 DEF buildBaseFilename

-----------------------------------------------------------------------------
(* Modules: what a list of them sets. *)
(* The modules that entries set: each name with each suffix, at the level  *)
(* that was given first.                                                   *)
FirstOf(es, i) == \A j \in 1 .. i - 1 : es[j].name # es[i].name
Kept(m, es) ==
  /\ \A y : y \in DOMAIN m <=>
       \E i \in DOMAIN es, e \in ToSet(FileExtensions) : y = Append(es[i].name, e)
  /\ \A i \in DOMAIN es : FirstOf(es, i) =>
       \A e \in ToSet(FileExtensions) : m[Append(es[i].name, e)] = es[i].level

(* What -vmodule can ask for. *)
Entry == [name : Text, level : 0 .. 9]
ReadableEntry(x) ==
  /\ x.name # <<>> /\ \A j \in DOMAIN x.name : x.name[j] \notin {"=", ","}
  /\ x.name[Len(x.name)] \notin ToSet(FileExtensions)

(* What was appended can be told from what it was appended to. *)
LEMMA AppendInjective ==
  ASSUME NEW T, NEW s \in Seq(T), NEW t \in Seq(T), NEW a \in T, NEW b \in T, Append(s, a) = Append(t, b)
  PROVE  s = t /\ a = b
<1>1. Len(s) = Len(t) /\ a = b
  OBVIOUS
<1>2. \A i \in 1 .. Len(s) : s[i] = t[i]
  <2> TAKE i \in 1 .. Len(s)
  <2>1. Append(s, a)[i] = s[i] /\ Append(t, b)[i] = t[i]
    BY <1>1
  <2> QED BY <2>1
<1> QED BY <1>1, <1>2, SameTexts

(* One more entry. *)
LEMMA KeptNext ==
  ASSUME NEW es \in Seq(Entry), NEW m, Kept(m, es), NEW x \in Entry, ReadableEntry(x)
  PROVE  Kept(insert(m, x.name, x.level, TRUE), Append(es, x))
<1> DEFINE k == Len(es)
           more == Append(es, x)
           n == x.name
           E == ToSet(FileExtensions)
           new == insert(m, n, x.level, TRUE)
           ext == {Append(n, e) : e \in E}
<1>0. k \in Nat /\ DOMAIN es = 1 .. k /\ DOMAIN more = 1 .. k + 1 /\ more[k + 1] = x
      /\ (\A i \in 1 .. k : more[i] = es[i] /\ es[i] \in Entry)
  OBVIOUS
<1>1. n \in Text /\ n \in Seq(Characters) /\ \A i \in 1 .. k : es[i].name \in Seq(Characters)
  <2>1. n \in Text
    BY DEF Entry
  <2>2. \A i \in 1 .. k : es[i].name \in Text
    <3>1. \A y \in Entry : y.name \in Text
      BY DEF Entry
    <3> QED BY <1>0, <3>1
  <2> QED BY <2>1, <2>2, TextsOfCharacters
<1>2. E \subseteq Characters
  BY TheSuffixes
<1>3. Extended(n) = ext
  BY <1>1, ExtendedBySuffixes DEF ReadableEntry
<1>4. /\ DOMAIN new = DOMAIN m \cup ext
      /\ \A y \in DOMAIN new : new[y] = IF y \in DOMAIN m THEN m[y] ELSE x.level
  <2>1. new = Over(m, [e \in ext |-> x.level])
    BY <1>3 DEF insert
  <2> HIDE DEF new, ext
  <2> QED BY <2>1 DEF Over
<1> HIDE DEF more, new, E, k
<1>5. \A y : y \in DOMAIN m <=> \E i \in 1 .. k, e \in E : y = Append(es[i].name, e)
  BY <1>0 DEF Kept, E
<1>6. ASSUME NEW y
      PROVE  y \in DOMAIN new <=> \E i \in 1 .. k + 1, e \in E : y = Append(more[i].name, e)
  <2> DEFINE Of(i) == \E e \in E : y = Append(more[i].name, e)
  <2>1. y \in ext <=> Of(k + 1)
    BY <1>0 DEF E
  <2>2. y \in DOMAIN m <=> \E i \in 1 .. k : Of(i)
    <3>1. \A i \in 1 .. k : more[i].name = es[i].name
      BY <1>0
    <3>2. y \in DOMAIN m <=> \E i \in 1 .. k : \E e \in E : y = Append(es[i].name, e)
      BY <1>5, Zenon
    <3>3. ASSUME NEW i \in 1 .. k PROVE Of(i) <=> \E e \in E : y = Append(es[i].name, e)
      BY <3>1
    <3> HIDE DEF Of
    <3> QED BY <3>2, <3>3
  <2> HIDE DEF Of, ext
  <2>3. (\E i \in 1 .. k + 1 : Of(i)) <=> (\E i \in 1 .. k : Of(i)) \/ Of(k + 1)
    BY <1>0
  <2>4. (\E i \in 1 .. k + 1 : Of(i)) <=> \E i \in 1 .. k + 1, e \in E : y = Append(more[i].name, e)
    BY Zenon DEF Of
  <2> QED BY <1>4, <2>1, <2>2, <2>3, <2>4
<1>7. ASSUME NEW i \in 1 .. k + 1, FirstOf(more, i), NEW e \in E
      PROVE  new[Append(more[i].name, e)] = more[i].level
  <2>1. Append(more[i].name, e) \in DOMAIN new
    BY <1>6
  <2>2. CASE i \in 1 .. k
    <3>1. FirstOf(es, i) /\ more[i] = es[i]
      <4>1. \A j \in 1 .. i - 1 : more[j] = es[j]
        BY <1>0, <2>2
      <4> QED BY <1>0, <1>7, <2>2, <4>1 DEF FirstOf
    <3>2. Append(es[i].name, e) \in DOMAIN m
      BY <1>5, <2>2
    <3>3. m[Append(es[i].name, e)] = es[i].level
      BY <1>0, <2>2, <3>1 DEF Kept, E
    <3> QED BY <1>4, <2>1, <3>1, <3>2, <3>3
  <2>3. CASE i = k + 1
    <3>1. more[i] = x /\ \A j \in 1 .. k : es[j].name # n
      <4>1. i - 1 = k
        BY <1>0, <2>3
      <4> QED BY <1>0, <1>7, <2>3, <4>1 DEF FirstOf
    <3>2. Append(n, e) \notin DOMAIN m
      <4> SUFFICES ASSUME NEW j \in 1 .. k, NEW d \in E, Append(n, e) = Append(es[j].name, d) PROVE FALSE
        BY <1>5
      <4>1. n \in Seq(Characters) /\ es[j].name \in Seq(Characters) /\ e \in Characters /\ d \in Characters
        BY <1>1, <1>2
      <4>2. n = es[j].name
        <5> DEFINE t == es[j].name
        <5>1. t \in Seq(Characters) /\ Append(n, e) = Append(t, d)
          BY <4>1
        <5> HIDE DEF n, t
        <5>2. n = t
          BY <4>1, <5>1, AppendInjective
        <5> QED BY <5>2 DEF t
      <4> QED BY <3>1, <4>2
    <3> QED BY <1>4, <2>1, <3>1, <3>2
  <2> QED BY <1>0, <2>2, <2>3
<1>8. \A y : y \in DOMAIN new <=> \E i \in DOMAIN more, e \in E : y = Append(more[i].name, e)
  BY <1>0, <1>6
<1> HIDE DEF ext
<1>9. Kept(new, more)
  <2>1. ASSUME NEW i \in DOMAIN more, FirstOf(more, i), NEW e \in E
        PROVE  new[Append(more[i].name, e)] = more[i].level
    BY <1>0, <1>7, <2>1
  <2> QED BY <1>8, <2>1 DEF Kept, E
<1> QED BY <1>9 DEF more, new

-----------------------------------------------------------------------------
(* How a list of modules is read. *)
Setting(m, n, l, b) == [modules |-> m, name |-> n, level |-> l, isLevel |-> b]
Read(p, st, c) == ModuleChar(st, c, TRUE)
Reading == INSTANCE Loops WITH Op <- Read

(* The signs of a list, and all that a list can be made of. *)
Comma == ","
EqualSign == "="
Alphabet == STRING \cup {Comma, EqualSign} \cup ToSet(Digits0to9)

(* Texts are made of these. *)
LEMMA TextsOfAlphabet == ASSUME NEW s \in Text PROVE s \in Seq(Alphabet)
<1>1. STRING \subseteq Alphabet
  BY DEF Alphabet
<1> QED BY <1>1, SeqsWithin DEF Text

(* A level is written as a digit and read back. *)
LEMMA DigitsRead ==
  ASSUME NEW l \in 0 .. 9
  PROVE  /\ Digits0to9[l + 1] \in ToSet(Digits0to9) /\ DigitOf(Digits0to9[l + 1]) = l
         /\ Digits0to9[l + 1] \notin {Comma, EqualSign}
<1>1. DOMAIN Digits0to9 = 1 .. 10
  BY DEF Digits0to9
<1>2. l + 1 \in 1 .. 10
  OBVIOUS
<1>3. Digits0to9[l + 1] \in ToSet(Digits0to9)
  <2> HIDE DEF Digits0to9
  <2> QED BY <1>1, <1>2 DEF ToSet
<1>4. \A i, j \in 1 .. 10 : Digits0to9[i] = Digits0to9[j] => i = j
  BY DEF Digits0to9
<1>5. \A i \in 1 .. 10 : Digits0to9[i] \notin {Comma, EqualSign}
  <2>1. \A i \in 1 .. 10 : Digits0to9[i] \in {"0", "1", "2", "3", "4", "5", "6", "7", "8", "9"}
    BY DEF Digits0to9
  <2>2. \A c \in {"0", "1", "2", "3", "4", "5", "6", "7", "8", "9"} : c \notin {Comma, EqualSign}
    BY Zenon DEF Comma, EqualSign
  <2> HIDE DEF Digits0to9
  <2> QED BY <2>1, <2>2
<1>6. DigitOf(Digits0to9[l + 1]) = l
  <2> HIDE DEF Digits0to9
  <2> DEFINE c == Digits0to9[l + 1]
             i == CHOOSE j \in 1 .. 10 : Digits0to9[j] = c
  <2>1. i \in 1 .. 10 /\ Digits0to9[i] = c
    BY <1>2
  <2>2. i = l + 1
    BY <1>2, <1>4, <2>1
  <2>3. DigitOf(c) = i - 1
    BY <1>1, Zenon DEF DigitOf
  <2>4. l + 1 - 1 = l
    OBVIOUS
  <2> HIDE DEF i
  <2> QED BY <2>2, <2>3, <2>4
<1> QED BY <1>2, <1>3, <1>5, <1>6

(* What each character does. *)
LEMMA ReadEqualSign ==
  ASSUME NEW m, NEW n, NEW l
  PROVE  Read(0, Setting(m, n, l, FALSE), EqualSign) = Setting(m, n, l, TRUE)
BY DEF Setting, Read, ModuleChar, EqualSign

(* Before the equal sign a character belongs to the name. *)
LEMMA ReadLetter ==
  ASSUME NEW m, NEW n, NEW l, NEW c, c # Comma, c # EqualSign
  PROVE  Read(0, Setting(m, n, l, FALSE), c) = Setting(m, Append(n, c), l, FALSE)
BY DEF Setting, Read, ModuleChar, Comma, EqualSign

(* After it a digit is the level. *)
LEMMA ReadDigit ==
  ASSUME NEW m, NEW n, NEW l, NEW c \in ToSet(Digits0to9), c # Comma, c # EqualSign
  PROVE  Read(0, Setting(m, n, l, TRUE), c) = Setting(m, n, DigitOf(c), TRUE)
BY DEF Setting, Read, ModuleChar, Comma, EqualSign

(* A comma sets the entry that was read and starts the next one. *)
LEMMA ReadComma ==
  ASSUME NEW m, NEW n, NEW l, n # <<>>, l # -1
  PROVE  /\ EndOfEntry(Setting(m, n, l, TRUE), TRUE) = Setting(insert(m, n, l, TRUE), <<>>, -1, TRUE)
         /\ Read(0, Setting(m, n, l, TRUE), Comma) = Setting(insert(m, n, l, TRUE), <<>>, -1, FALSE)
<1> USE DEF Setting
<1> DEFINE st == EndOfEntry(Setting(m, n, l, TRUE), TRUE)
<1>1. st = Setting(insert(m, n, l, TRUE), <<>>, -1, TRUE)
  BY DEF EndOfEntry
<1>2. Read(0, Setting(m, n, l, TRUE), Comma) = [st EXCEPT !.isLevel = FALSE]
  BY DEF Read, ModuleChar, Comma
<1> HIDE DEF st
<1>3. Read(0, Setting(m, n, l, TRUE), Comma) = Setting(insert(m, n, l, TRUE), <<>>, -1, FALSE)
  BY <1>1, <1>2
<1> HIDE DEF Setting
<1> QED BY <1>1, <1>3, Zenon DEF st

(* A name. *)
LEMMA ReadName ==
  ASSUME NEW n \in Text, \A j \in DOMAIN n : n[j] \notin {Comma, EqualSign}, NEW m
  PROVE  Reading!Fold(0, Setting(m, <<>>, -1, FALSE), n) = Setting(m, n, -1, FALSE)
<1> DEFINE st == Setting(m, <<>>, -1, FALSE)
<1>0. Len(n) \in Nat /\ DOMAIN n = 1 .. Len(n) /\ n \in Seq(STRING)
  BY DEF Text
<1>1. PICK g : Reading!Run(0, st, n, Len(n), g)
  BY <1>0, Reading!FoldSteps
<1>2. /\ g[0] = st /\ Reading!Fold(0, st, n) = g[Len(n)]
      /\ \A i \in 1 .. Len(n) : g[i] = Read(0, g[i - 1], n[i])
  BY <1>1 DEF Reading!Run
<1> DEFINE Upto(k) == g[k] = Setting(m, SubSeq(n, 1, k), -1, FALSE)
           B == {k \in Nat : k <= Len(n) => Upto(k)}
<1>3. Upto(0)
  <2>1. SubSeq(n, 1, 0) = <<>>
    BY <1>0
  <2> QED BY <1>2, <2>1
<1>4. ASSUME NEW k \in Nat, Upto(k), k + 1 <= Len(n) PROVE Upto(k + 1)
  <2> DEFINE j == k + 1
             so == SubSeq(n, 1, k)
  <2>1. j \in 1 .. Len(n) /\ j - 1 = k /\ k <= Len(n)
    BY <1>0, <1>4
  <2>2. g[k] = Setting(m, so, -1, FALSE)
    BY <1>4
  <2>3. Append(so, n[k + 1]) = SubSeq(n, 1, k + 1)
    BY <1>0, <2>1
  <2> HIDE DEF j, so
  <2>4. g[j] = Read(0, Setting(m, so, -1, FALSE), n[j])
    BY <1>2, <2>1, <2>2
  <2>5. n[j] \notin {Comma, EqualSign}
    BY <1>0, <2>1
  <2> DEFINE c == n[j]
  <2>6. c # Comma /\ c # EqualSign
    BY <2>5
  <2> HIDE DEF c
  <2>7. Read(0, Setting(m, so, -1, FALSE), c) = Setting(m, Append(so, c), -1, FALSE)
    BY <2>6, ReadLetter
  <2>8. g[j] = Setting(m, SubSeq(n, 1, j), -1, FALSE)
    BY <2>3, <2>4, <2>6, <2>7 DEF j, c
  <2> QED BY <2>8 DEF j
<1>5. Nat \subseteq B
  <2> HIDE DEF Upto
  <2>1. 0 \in B /\ \A k \in Nat : k \in B => k + 1 \in B
    BY <1>0, <1>3, <1>4
  <2> HIDE DEF B
  <2> QED BY <2>1, Flattening!Induction
<1>6. g[Len(n)] = Setting(m, SubSeq(n, 1, Len(n)), -1, FALSE)
  <2> HIDE DEF Upto
  <2>1. Upto(Len(n))
    BY <1>0, <1>5
  <2> QED BY <2>1 DEF Upto
<1>7. SubSeq(n, 1, Len(n)) = n
  BY <1>0
<1> QED BY <1>2, <1>6, <1>7

(* Three texts one after the other. *)
LEMMA ConcatAssociative ==
  ASSUME NEW T, NEW a \in Seq(T), NEW b \in Seq(T), NEW c \in Seq(T)
  PROVE  (a \o b) \o c = a \o (b \o c)
<1>1. (a \o b) \o c \in Seq(T) /\ a \o (b \o c) \in Seq(T)
  OBVIOUS
<1>2. Len((a \o b) \o c) = Len(a \o (b \o c)) /\ Len(a \o (b \o c)) = Len(a) + Len(b) + Len(c)
  OBVIOUS
<1>3. ASSUME NEW i \in 1 .. Len(a) + Len(b) + Len(c)
      PROVE  ((a \o b) \o c)[i] = (a \o (b \o c))[i]
  <2>1. CASE i <= Len(a)
    BY <2>1
  <2>2. CASE Len(a) < i /\ i <= Len(a) + Len(b)
    <3>1. i - Len(a) \in 1 .. Len(b)
      BY <2>2
    <3>2. (a \o (b \o c))[i] = (b \o c)[i - Len(a)] /\ (b \o c)[i - Len(a)] = b[i - Len(a)]
      BY <2>2, <3>1
    <3>3. ((a \o b) \o c)[i] = (a \o b)[i] /\ (a \o b)[i] = b[i - Len(a)]
      BY <2>2
    <3> QED BY <3>2, <3>3
  <2>3. CASE Len(a) + Len(b) < i
    <3>1. i - Len(a) \in Len(b) + 1 .. Len(b) + Len(c) /\ i - Len(a) - Len(b) = i - (Len(a) + Len(b))
      BY <2>3
    <3>2. (a \o (b \o c))[i] = (b \o c)[i - Len(a)] /\ (b \o c)[i - Len(a)] = c[i - Len(a) - Len(b)]
      BY <2>3, <3>1
    <3>3. ((a \o b) \o c)[i] = c[i - (Len(a) + Len(b))]
      BY <2>3
    <3> QED BY <3>1, <3>2, <3>3
  <2> QED BY <2>1, <2>2, <2>3
<1> QED BY <1>1, <1>2, <1>3, SameTexts

(* A character behind two texts is behind the second. *)
LEMMA AppendConcat ==
  ASSUME NEW T, NEW s \in Seq(T), NEW t \in Seq(T), NEW x \in T
  PROVE  Append(s \o t, x) = s \o Append(t, x)
<1> DEFINE u == Append(s \o t, x)
           v == s \o Append(t, x)
<1>1. u \in Seq(T) /\ v \in Seq(T) /\ Len(u) = Len(s) + Len(t) + 1 /\ Len(v) = Len(s) + Len(t) + 1
  OBVIOUS
<1>2. ASSUME NEW i \in 1 .. Len(s) + Len(t) + 1 PROVE u[i] = v[i]
  <2>1. CASE i <= Len(s)
    BY <2>1
  <2>2. CASE i > Len(s)
    <3>1. i - Len(s) \in 1 .. Len(t) + 1
      BY <2>2
    <3>2. v[i] = Append(t, x)[i - Len(s)]
      BY <2>2, <3>1
    <3> QED BY <2>2, <3>1, <3>2
  <2> QED BY <2>1, <2>2
<1> HIDE DEF u, v
<1>3. u = v
  BY <1>1, <1>2, SameTexts
<1> QED BY <1>3 DEF u, v

(* A text behind another is read from where that ends. *)
LEMMA ReadConcat ==
  ASSUME NEW st, NEW s \in Seq(Alphabet), NEW t \in Seq(Alphabet)
  PROVE  Reading!Fold(0, st, s \o t) = Reading!Fold(0, Reading!Fold(0, st, s), t)
BY Reading!FoldConcat, SMT

(* One entry. *)
EntryText(x) == x.name \o <<EqualSign, Digits0to9[x.level + 1]>>

(* The reader takes an entry apart into its name and its level. *)
LEMMA ReadEntry ==
  ASSUME NEW x \in Entry, ReadableEntry(x), NEW m
  PROVE  /\ EntryText(x) \in Seq(Alphabet)
         /\ Reading!Fold(0, Setting(m, <<>>, -1, FALSE), EntryText(x))
              = Setting(m, x.name, x.level, TRUE)
<1> DEFINE n == x.name
           d == Digits0to9[x.level + 1]
           st == Setting(m, <<>>, -1, FALSE)
<1>1. n \in Text /\ x.level \in 0 .. 9
  BY DEF Entry
<1>2. d \in ToSet(Digits0to9) /\ DigitOf(d) = x.level /\ d # Comma /\ d # EqualSign
  BY <1>1, DigitsRead
<1>3. n \in Seq(Alphabet)
  BY <1>1, TextsOfAlphabet
<1>4. \A j \in DOMAIN n : n[j] \notin {Comma, EqualSign}
  BY Zenon DEF ReadableEntry, Comma, EqualSign
<1>5. EntryText(x) = n \o <<EqualSign, d>>
  BY DEF EntryText
<1> HIDE DEF n, d
<1>6. EqualSign \in Alphabet /\ d \in Alphabet
  BY <1>2 DEF Alphabet
<1>7. <<EqualSign>> \in Seq(Alphabet) /\ <<d>> \in Seq(Alphabet) /\ <<EqualSign, d>> = <<EqualSign>> \o <<d>>
  BY <1>6
<1>8. <<EqualSign, d>> \in Seq(Alphabet)
  BY <1>6
<1>9. Reading!Fold(0, st, n) = Setting(m, n, -1, FALSE)
  BY <1>1, <1>4, ReadName
<1>10. Reading!Fold(0, Setting(m, n, -1, FALSE), <<EqualSign>>) = Setting(m, n, -1, TRUE)
  <2>1. Reading!Fold(0, Setting(m, n, -1, FALSE), <<EqualSign>>)
          = Read(0, Setting(m, n, -1, FALSE), EqualSign)
    BY Reading!FoldOne
  <2> QED BY <2>1, ReadEqualSign
<1>11. Reading!Fold(0, Setting(m, n, -1, TRUE), <<d>>) = Setting(m, n, x.level, TRUE)
  <2>1. Reading!Fold(0, Setting(m, n, -1, TRUE), <<d>>) = Read(0, Setting(m, n, -1, TRUE), d)
    BY Reading!FoldOne
  <2>2. Read(0, Setting(m, n, -1, TRUE), d) = Setting(m, n, DigitOf(d), TRUE)
    BY <1>2, ReadDigit
  <2> QED BY <1>2, <2>1, <2>2
<1> DEFINE c == <<EqualSign, d>>
           e == <<EqualSign>>
           u == <<d>>
<1> HIDE DEF st
<1>12. Reading!Fold(0, st, n \o c) = Reading!Fold(0, Reading!Fold(0, st, n), c)
  <2>1. c \in Seq(Alphabet)
    BY <1>8
  <2> HIDE DEF c
  <2> QED BY <1>3, <2>1, ReadConcat
<1>13. Reading!Fold(0, Setting(m, n, -1, FALSE), e \o u)
         = Reading!Fold(0, Reading!Fold(0, Setting(m, n, -1, FALSE), e), u)
  <2>1. e \in Seq(Alphabet) /\ u \in Seq(Alphabet)
    BY <1>7
  <2> DEFINE at == Setting(m, n, -1, FALSE)
  <2> HIDE DEF e, u, at
  <2>2. Reading!Fold(0, at, e \o u) = Reading!Fold(0, Reading!Fold(0, at, e), u)
    BY <2>1, ReadConcat
  <2> QED BY <2>2 DEF at
<1>14. EntryText(x) \in Seq(Alphabet)
  BY <1>3, <1>5, <1>8
<1> QED BY <1>5, <1>7, <1>9, <1>10, <1>11, <1>12, <1>13, <1>14 DEF st, n

(* An entry has a name and a level. *)
LEMMA EntryFacts ==
  ASSUME NEW x \in Entry, ReadableEntry(x)
  PROVE  x.name # <<>> /\ x.level # -1
<1>1. x.level \in 0 .. 9
  BY DEF Entry
<1>2. x.level # -1
  BY <1>1
<1>3. x.name # <<>>
  BY Zenon DEF ReadableEntry
<1> QED BY <1>2, <1>3

(* No texts one after the other. *)
LEMMA FlattenNone == FlattenSeq(<<>>) = <<>>
<1>1. <<>> \in Seq(STRING) /\ [i \in DOMAIN <<>> |-> <<<<>>[i]>>] = <<>>
  OBVIOUS
<1>2. FlattenSeq([i \in DOMAIN <<>> |-> <<<<>>[i]>>]) = <<>>
  BY <1>1, FlattenSingles
<1> QED BY <1>1, <1>2

(* Entries after the ones that are set. *)
AllReadable(es) == es \in Seq(Entry) /\ \A i \in DOMAIN es : ReadableEntry(es[i])

(* The reader keeps the entries that are set and takes in the ones it reads. *)
LEMMA EntriesRead ==
  ASSUME NEW es, AllReadable(es), NEW fs, AllReadable(fs), NEW m, Kept(m, es)
  PROVE  EntriesText(fs) \in Seq(Alphabet) /\ Kept(setModules(m, EntriesText(fs), TRUE), es \o fs)
<1> DEFINE N == Len(fs)
           st == Setting(m, <<>>, -1, FALSE)
           text == EntriesText(fs)
           s == [i \in DOMAIN fs |-> (IF i = 1 THEN <<>> ELSE <<",">>) \o fs[i].name
                                     \o <<"=", Digits0to9[fs[i].level + 1]>>]
<1>0. /\ N \in Nat /\ DOMAIN fs = 1 .. N /\ fs \in Seq(Entry) /\ es \in Seq(Entry)
      /\ \A i \in 1 .. N : fs[i] \in Entry /\ ReadableEntry(fs[i])
  BY DEF AllReadable
<1>1. setModules(m, text, TRUE) = EndOfEntry(Reading!Fold(0, st, text), TRUE).modules
  BY DEF setModules, Setting, Read, Reading!Fold, Reading!MapThenFoldSet, FoldLeft,
         MapThenFoldSet, Max, Reading!Max
<1>2. text = FlattenSeq(s)
  BY DEF EntriesText
<1>3. CASE N = 0
  <2>1. s = <<>> /\ es \o fs = es
    BY <1>0, <1>3
  <2>2. text = <<>>
    BY <1>2, <2>1, FlattenNone
  <2>3. Reading!Fold(0, st, text) = st
    BY <2>2, Reading!FoldNone
  <2>4. EndOfEntry(st, TRUE).modules = m
    BY DEF EndOfEntry, Setting
  <2>5. text \in Seq(Alphabet)
    BY <2>2
  <2> QED BY <1>1, <2>1, <2>3, <2>4, <2>5
<1>4. CASE N > 0
  <2> DEFINE Piece(i) == (IF i = 1 THEN <<>> ELSE <<Comma>>) \o fs[i].name \o <<EqualSign, Digits0to9[fs[i].level + 1]>>
             before(i) == es \o SubSeq(fs, 1, i - 1)
             Upto(F, i) == \E now : /\ Kept(now, before(i)) /\ F[i] \in Seq(Alphabet)
                                    /\ Reading!Fold(0, st, F[i]) = Setting(now, fs[i].name, fs[i].level, TRUE)
  <2>1. s = [i \in 1 .. N |-> Piece(i)]
    BY <1>0, Zenon DEF Comma, EqualSign
  <2>2. \A i \in 1 .. N : EntryText(fs[i]) \in Seq(Alphabet)
    BY <1>0, ReadEntry
  <2>3. Piece(1) = EntryText(fs[1])
    <3>1. 1 \in 1 .. N /\ fs[1].name \in Seq(Alphabet)
      BY <1>0, <1>4, TextsOfAlphabet DEF Entry
    <3>2. <<>> \o fs[1].name = fs[1].name
      BY <3>1
    <3> QED BY <3>2 DEF EntryText
  <2>4. ASSUME NEW i \in 2 .. N PROVE Piece(i) = <<Comma>> \o EntryText(fs[i])
    <3> DEFINE a == <<Comma>>
               b == fs[i].name
               d == Digits0to9[fs[i].level + 1]
               c == <<EqualSign, d>>
    <3>1. fs[i] \in Entry
      BY <1>0
    <3>2. b \in Text /\ fs[i].level \in 0 .. 9
      BY <3>1 DEF Entry
    <3>3. a \in Seq(Alphabet) /\ b \in Seq(Alphabet)
      BY <3>2, TextsOfAlphabet DEF Alphabet
    <3>4. EqualSign \in Alphabet /\ d \in Alphabet
      BY <3>2, DigitsRead DEF Alphabet
    <3>5. c \in Seq(Alphabet)
      <4> HIDE DEF d
      <4> QED BY <3>4
    <3>6. Piece(i) = (a \o b) \o c
      <4>1. i # 1
        OBVIOUS
      <4> QED BY <4>1, Zenon
    <3> HIDE DEF Piece, a, b, c
    <3>7. (a \o b) \o c = a \o (b \o c)
      BY <3>3, <3>5, ConcatAssociative
    <3> QED BY <3>6, <3>7 DEF a, b, c, EntryText
  <2> HIDE DEF Piece
  <2>5. \A i \in 1 .. N : Piece(i) \in Seq(Alphabet)
    <3> SUFFICES ASSUME NEW i \in 1 .. N PROVE Piece(i) \in Seq(Alphabet)
      OBVIOUS
    <3>1. CASE i = 1
      BY <2>2, <2>3, <3>1
    <3>2. CASE i \in 2 .. N
      <4>1. <<Comma>> \in Seq(Alphabet)
        BY DEF Alphabet
      <4> DEFINE a == <<Comma>>
      <4>2. Piece(i) = a \o EntryText(fs[i]) /\ a \in Seq(Alphabet)
        BY <2>4, <3>2, <4>1
      <4> HIDE DEF a
      <4> QED BY <2>2, <4>2
    <3> QED BY <3>1, <3>2
  <2>6. s \in Seq(Seq(Alphabet)) /\ Len(s) = N /\ s # <<>> /\ \A i \in 1 .. N : s[i] = Piece(i)
    <3> HIDE DEF s
    <3> QED BY <1>0, <1>4, <2>1, <2>5
  <2> HIDE DEF s
  <2>7. PICK F : /\ FlattenSeq(s) = F[Len(s)] /\ F[1] = s[1]
                 /\ \A i \in 1 .. Len(s) - 1 : F[i + 1] = F[i] \o s[i + 1]
    BY <2>6, FlattenSteps
  <2>8. text = F[N] /\ F[1] = EntryText(fs[1])
        /\ \A i \in 1 .. N - 1 : F[i + 1] = F[i] \o (<<Comma>> \o EntryText(fs[i + 1]))
    <3>1. \A i \in 1 .. N - 1 : i + 1 \in 2 .. N /\ i + 1 \in 1 .. N
      BY <1>0
    <3>2. 1 \in 1 .. N
      BY <1>0, <1>4
    <3> QED BY <1>2, <2>3, <2>4, <2>6, <2>7, <3>1, <3>2
  <2> HIDE DEF text, st
  <2>9. Upto(F, 1)
    <3>1. before(1) = es
      BY <1>0
    <3>2. 1 \in 1 .. N
      BY <1>0, <1>4
    <3>3. Reading!Fold(0, st, F[1]) = Setting(m, fs[1].name, fs[1].level, TRUE)
      BY <1>0, <2>8, <3>2, ReadEntry DEF st
    <3> QED BY <2>2, <2>8, <3>1, <3>2, <3>3
  <2>10. ASSUME NEW i \in 1 .. N, NEW now, Kept(now, before(i))
         PROVE  Kept(insert(now, fs[i].name, fs[i].level, TRUE), es \o SubSeq(fs, 1, i))
    <3>1. before(i) \in Seq(Entry) /\ Append(before(i), fs[i]) = es \o SubSeq(fs, 1, i)
      <4>1. /\ SubSeq(fs, 1, i - 1) \in Seq(Entry) /\ fs[i] \in Entry
            /\ Append(SubSeq(fs, 1, i - 1), fs[i]) = SubSeq(fs, 1, i)
        BY <1>0
      <4> DEFINE a == SubSeq(fs, 1, i - 1)
                 x == fs[i]
      <4>2. a \in Seq(Entry) /\ x \in Entry
        BY <4>1
      <4> HIDE DEF a, x
      <4>3. Append(es \o a, x) = es \o Append(a, x)
        <5>1. es \in Seq(Entry)
          BY <1>0
        <5> QED BY <4>2, <5>1, AppendConcat
      <4>4. es \o a \in Seq(Entry)
        BY <1>0, <4>2
      <4> QED BY <4>1, <4>3, <4>4 DEF a, x
    <3> HIDE DEF before
    <3>2. Kept(insert(now, fs[i].name, fs[i].level, TRUE), Append(before(i), fs[i]))
      BY <1>0, <2>10, <3>1, KeptNext
    <3> QED BY <3>1, <3>2
  <2>11. ASSUME NEW i \in 1 .. N - 1, Upto(F, i) PROVE Upto(F, i + 1)
    <3> DEFINE j == i + 1
               x == EntryText(fs[j])
    <3>1. PICK now : /\ Kept(now, before(i)) /\ F[i] \in Seq(Alphabet)
                     /\ Reading!Fold(0, st, F[i]) = Setting(now, fs[i].name, fs[i].level, TRUE)
      BY <2>11
    <3>2. i \in 1 .. N /\ j \in 1 .. N /\ j - 1 = i
      BY <1>0
    <3> DEFINE after == insert(now, fs[i].name, fs[i].level, TRUE)
    <3>3. Kept(after, before(j))
      <4> HIDE DEF after, j
      <4> QED BY <2>10, <3>1, <3>2 DEF after
    <3>4. fs[i].name # <<>> /\ fs[i].level # -1
      BY <1>0, <3>2, EntryFacts
    <3>5. x \in Seq(Alphabet)
      BY <2>2, <3>2
    <3>6. <<Comma>> \in Seq(Alphabet)
      BY DEF Alphabet
    <3>7. F[j] = F[i] \o (<<Comma>> \o x)
      BY <2>8
    <3>8. Reading!Fold(0, Setting(after, <<>>, -1, FALSE), x) = Setting(after, fs[j].name, fs[j].level, TRUE)
      BY <1>0, <3>2, ReadEntry
    <3>9. Reading!Fold(0, Setting(now, fs[i].name, fs[i].level, TRUE), <<Comma>>) = Setting(after, <<>>, -1, FALSE)
      <4>1. Reading!Fold(0, Setting(now, fs[i].name, fs[i].level, TRUE), <<Comma>>)
              = Read(0, Setting(now, fs[i].name, fs[i].level, TRUE), Comma)
        BY Reading!FoldOne
      <4> QED BY <3>4, <4>1, ReadComma
    <3> DEFINE comma == <<Comma>>
               at == Setting(now, fs[i].name, fs[i].level, TRUE)
               then == Setting(after, <<>>, -1, FALSE)
               end == Setting(after, fs[j].name, fs[j].level, TRUE)
    <3> HIDE DEF x, comma, at, then, end, after
    <3>16. comma \in Seq(Alphabet) /\ F[j] = F[i] \o (comma \o x)
      BY <3>6, <3>7 DEF comma
    <3>10. Reading!Fold(0, at, comma \o x) = Reading!Fold(0, Reading!Fold(0, at, comma), x)
      BY <3>5, <3>16, ReadConcat
    <3>11. comma \o x \in Seq(Alphabet)
      BY <3>5, <3>16
    <3> DEFINE rest == comma \o x
               f == F[i]
    <3>12. Reading!Fold(0, st, f \o rest) = Reading!Fold(0, Reading!Fold(0, st, f), rest)
      <4>1. f \in Seq(Alphabet) /\ rest \in Seq(Alphabet)
        BY <3>1, <3>11
      <4> HIDE DEF rest, f
      <4> QED BY <4>1, ReadConcat
    <3>17. Reading!Fold(0, st, f) = at /\ Reading!Fold(0, at, comma) = then /\ Reading!Fold(0, then, x) = end
      BY <3>1, <3>8, <3>9 DEF at, then, end, comma
    <3>13. Reading!Fold(0, st, F[j]) = end
      BY <3>16, <3>17, <3>10, <3>12, Zenon
    <3>14. F[j] \in Seq(Alphabet)
      BY <3>1, <3>16, <3>11
    <3>15. Upto(F, j)
      BY <3>3, <3>13, <3>14 DEF end
    <3> QED BY <3>15
  <2> DEFINE B == {n \in Nat : n + 1 <= N => Upto(F, n + 1)}
  <2>12. Nat \subseteq B
    <3> HIDE DEF Upto
    <3>1. 0 \in B
      BY <2>9
    <3>2. ASSUME NEW n \in Nat, n \in B PROVE n + 1 \in B
      <4>1. n + 1 + 1 <= N => n + 1 \in 1 .. N - 1 /\ n + 1 <= N
        BY <1>0
      <4> QED BY <2>11, <3>2, <4>1
    <3> HIDE DEF B
    <3> QED BY <3>1, <3>2, Flattening!Induction
  <2>13. Upto(F, N)
    <3> HIDE DEF Upto
    <3>1. N - 1 \in Nat /\ N - 1 + 1 = N /\ N <= N
      BY <1>0, <1>4
    <3>2. N - 1 \in B
      <4> HIDE DEF B
      <4> QED BY <2>12, <3>1
    <3> QED BY <3>1, <3>2
  <2>14. PICK now : /\ Kept(now, before(N)) /\ F[N] \in Seq(Alphabet)
                    /\ Reading!Fold(0, st, F[N]) = Setting(now, fs[N].name, fs[N].level, TRUE)
    BY <2>13
  <2>15. N \in 1 .. N
    BY <1>0, <1>4
  <2>16. fs[N].name # <<>> /\ fs[N].level # -1
    BY <1>0, <2>15, EntryFacts
  <2> DEFINE after == insert(now, fs[N].name, fs[N].level, TRUE)
  <2>17. EndOfEntry(Reading!Fold(0, st, text), TRUE) = Setting(after, <<>>, -1, TRUE)
    BY <2>8, <2>14, <2>16, ReadComma
  <2>18. setModules(m, text, TRUE) = after
    <3>1. setModules(m, text, TRUE) = EndOfEntry(Reading!Fold(0, st, text), TRUE).modules
      BY <1>1, Zenon DEF text, st
    <3>2. setModules(m, text, TRUE) = Setting(after, <<>>, -1, TRUE).modules
      BY <2>17, <3>1, Zenon
    <3> HIDE DEF after
    <3> QED BY <3>2 DEF Setting
  <2>19. Kept(after, es \o SubSeq(fs, 1, N))
    <3> HIDE DEF before
    <3> QED BY <2>10, <2>14, <2>15
  <2>20. SubSeq(fs, 1, N) = fs
    BY <1>0
  <2> HIDE DEF after
  <2>21. Kept(setModules(m, text, TRUE), es \o fs)
    BY <2>18, <2>19, <2>20, Zenon
  <2>22. text \in Seq(Alphabet)
    BY <2>8, <2>14
  <2> QED BY <2>21, <2>22 DEF text
<1>5. N = 0 \/ N > 0
  BY <1>0
<1> QED BY <1>3, <1>4, <1>5

-----------------------------------------------------------------------------
(* Command lines. *)
(* Arguments: how a command line is taken apart. *)
Taking(p, m, a) ==
  IF Len(a.value) = 0 THEN [m EXCEPT !.params = @ \cup {a.key}]
  ELSE [m EXCEPT !.values = Over(@, [k \in {a.key} |-> Tail(a.value)])]
Arguing == INSTANCE Loops WITH Op <- Taking

(* What is known after the first n arguments. *)
Bare(a) == Len(a.value) = 0
TakenTo(args, n, m) ==
  /\ m = [params |-> m.params, values |-> m.values]
  /\ \A k : k \in m.params <=> \E i \in 1 .. n : args[i].key = k /\ Bare(args[i])
  /\ \A k : k \in DOMAIN m.values <=> \E i \in 1 .. n : args[i].key = k /\ ~Bare(args[i])
  /\ \A i \in 1 .. n : ~Bare(args[i]) /\ (\A j \in 1 .. i - 1 : args[j].key # args[i].key) =>
       m.values[args[i].key] = Tail(args[i].value)

(* One more argument. *)
LEMMA TakenNext ==
  ASSUME NEW args, NEW n \in Nat, NEW m, TakenTo(args, n, m)
  PROVE  TakenTo(args, n + 1, Taking(0, m, args[n + 1]))
<1> DEFINE j == n + 1
           a == args[j]
           new == Taking(0, m, a)
<1>0. 1 .. j = (1 .. n) \cup {j} /\ j \notin 1 .. n /\ j - 1 = n
  OBVIOUS
<1>1. /\ m = [params |-> m.params, values |-> m.values]
      /\ \A k : k \in m.params <=> \E i \in 1 .. n : args[i].key = k /\ Bare(args[i])
      /\ \A k : k \in DOMAIN m.values <=> \E i \in 1 .. n : args[i].key = k /\ ~Bare(args[i])
      /\ \A i \in 1 .. n : ~Bare(args[i]) /\ (\A x \in 1 .. i - 1 : args[x].key # args[i].key) =>
           m.values[args[i].key] = Tail(args[i].value)
  BY DEF TakenTo
<1> HIDE DEF j
<1>2. CASE Bare(a)
  <2>1. new = [m EXCEPT !.params = @ \cup {a.key}]
    BY <1>2 DEF Taking, Bare
  <2>2. new = [params |-> m.params \cup {a.key}, values |-> m.values]
    BY <1>1, <2>1
  <2>3. new.params = m.params \cup {a.key} /\ new.values = m.values /\ new = [params |-> new.params, values |-> new.values]
    BY <2>2
  <2> HIDE DEF new
  <2>4. \A k : k \in new.params <=> \E i \in 1 .. j : args[i].key = k /\ Bare(args[i])
    BY <1>0, <1>1, <1>2, <2>3
  <2>5. \A k : k \in DOMAIN new.values <=> \E i \in 1 .. j : args[i].key = k /\ ~Bare(args[i])
    BY <1>0, <1>1, <1>2, <2>3
  <2>6. \A i \in 1 .. j : ~Bare(args[i]) /\ (\A x \in 1 .. i - 1 : args[x].key # args[i].key) =>
           new.values[args[i].key] = Tail(args[i].value)
    BY <1>0, <1>1, <1>2, <2>3
  <2> QED BY <2>3, <2>4, <2>5, <2>6 DEF TakenTo, j, new
<1>3. CASE ~Bare(a)
  <2> DEFINE V == Over(m.values, [k \in {a.key} |-> Tail(a.value)])
  <2>1. new = [m EXCEPT !.values = Over(@, [k \in {a.key} |-> Tail(a.value)])]
    BY <1>3 DEF Taking, Bare
  <2>2. new = [params |-> m.params, values |-> V]
    <3>1. new = [m EXCEPT !.values = V]
      BY <2>1
    <3> HIDE DEF V, new
    <3> QED BY <1>1, <3>1
  <2>3. new.params = m.params /\ new.values = V /\ new = [params |-> new.params, values |-> new.values]
    <3> HIDE DEF V
    <3> QED BY <2>2
  <2>4. DOMAIN V = DOMAIN m.values \cup {a.key}
    BY DEF Over
  <2>5. \A k \in DOMAIN V : V[k] = IF k \in DOMAIN m.values THEN m.values[k] ELSE Tail(a.value)
    BY DEF Over
  <2> HIDE DEF new, V
  <2>6. \A k : k \in new.params <=> \E i \in 1 .. j : args[i].key = k /\ Bare(args[i])
    BY <1>0, <1>1, <1>3, <2>3
  <2>7. \A k : k \in DOMAIN new.values <=> \E i \in 1 .. j : args[i].key = k /\ ~Bare(args[i])
    BY <1>0, <1>1, <1>3, <2>3, <2>4
  <2>8. ASSUME NEW i \in 1 .. j, ~Bare(args[i]), \A x \in 1 .. i - 1 : args[x].key # args[i].key
        PROVE  new.values[args[i].key] = Tail(args[i].value)
    <3>1. CASE i \in 1 .. n
      <4>1. args[i].key \in DOMAIN m.values
        BY <1>1, <2>8, <3>1
      <4>2. m.values[args[i].key] = Tail(args[i].value)
        BY <1>1, <2>8, <3>1
      <4> QED BY <2>3, <2>4, <2>5, <4>1, <4>2
    <3>2. CASE i = j
      <4>1. \A x \in 1 .. n : args[x].key # a.key
        BY <1>0, <2>8, <3>2
      <4>2. a.key \notin DOMAIN m.values
        BY <1>1, <4>1
      <4> QED BY <2>3, <2>4, <2>5, <3>2, <4>2
    <3> QED BY <1>0, <3>1, <3>2
  <2> QED BY <2>3, <2>6, <2>7, <2>8 DEF TakenTo, j, new
<1> QED BY <1>2, <1>3

(* All of them. *)
LEMMA ArgumentsTaken ==
  ASSUME NEW args, NEW N \in Nat, DOMAIN args = 1 .. N
  PROVE  TakenTo(args, N, setArgs(args))
<1> DEFINE m == [params |-> {}, values |-> <<>>]
<1>1. setArgs(args) = Arguing!Fold(0, m, args)
  BY DEF setArgs, Taking, Arguing!Fold, Arguing!MapThenFoldSet, FoldLeft, MapThenFoldSet,
         Max, Arguing!Max
<1>2. PICK g : Arguing!Run(0, m, args, N, g)
  <2> HIDE DEF m
  <2> QED BY Arguing!FoldSteps
<1>3. g[0] = m /\ setArgs(args) = g[N] /\ \A i \in 1 .. N : g[i] = Taking(0, g[i - 1], args[i])
  BY <1>1, <1>2 DEF Arguing!Run
<1> DEFINE B == {n \in Nat : n <= N => TakenTo(args, n, g[n])}
<1>4. 0 \in B
  <2>1. TakenTo(args, 0, m)
    BY DEF TakenTo
  <2> QED BY <1>3, <2>1
<1>5. ASSUME NEW n \in Nat, n \in B PROVE n + 1 \in B
  <2>1. ASSUME n + 1 <= N PROVE TakenTo(args, n + 1, g[n + 1])
    <3>1. n + 1 \in 1 .. N /\ n + 1 - 1 = n /\ n <= N
      BY <2>1
    <3>2. TakenTo(args, n, g[n])
      BY <1>5, <3>1
    <3>3. g[n + 1] = Taking(0, g[n], args[n + 1])
      BY <1>3, <3>1
    <3> QED BY <3>2, <3>3, TakenNext
  <2> QED BY <2>1
<1>6. N \in B
  <2> HIDE DEF B
  <2> QED BY <1>4, <1>5, Flattening!Induction
<1> QED BY <1>3, <1>6

(* Entries are readable one by one. *)
LEMMA ReadableIs == ASSUME NEW es PROVE Readable(es) <=> AllReadable(es)
<1>1. Readable(es) <=> es \in Seq(Entry) /\ \A i \in DOMAIN es : ReadableEntry(es[i])
  BY Zenon DEF Readable, ReadableEntry, Entry
<1> QED BY <1>1 DEF AllReadable

(* And remain so when there are more. *)
LEMMA MoreReadable ==
  ASSUME NEW es, AllReadable(es), NEW fs, AllReadable(fs)
  PROVE  AllReadable(es \o fs)
<1>1. es \in Seq(Entry) /\ fs \in Seq(Entry) /\ es \o fs \in Seq(Entry)
  BY DEF AllReadable
<1>2. ASSUME NEW i \in 1 .. Len(es) + Len(fs) PROVE ReadableEntry((es \o fs)[i])
  <2>1. CASE i <= Len(es)
    <3>1. (es \o fs)[i] = es[i] /\ i \in DOMAIN es
      BY <1>1, <2>1
    <3> QED BY <3>1 DEF AllReadable
  <2>2. CASE i > Len(es)
    <3>1. (es \o fs)[i] = fs[i - Len(es)] /\ i - Len(es) \in DOMAIN fs
      BY <1>1, <2>2
    <3> QED BY <3>1 DEF AllReadable
  <2> QED BY <1>1, <2>1, <2>2
<1>3. DOMAIN (es \o fs) = 1 .. Len(es) + Len(fs)
  BY <1>1
<1> QED BY <1>1, <1>2, <1>3 DEF AllReadable

(* The levels that can be. *)
LEMMA LevelSet == ASSUME NEW l \in Nat PROVE setLevel(l) = Min({l, 9})
<1>1. {l, 9} \subseteq Nat /\ {l, 9} # {}
  OBVIOUS
<1>2. Min({l, 9}) \in {l, 9} /\ \A y \in {l, 9} : Min({l, 9}) <= y
  BY <1>1, MinIs
<1> QED BY <1>2 DEF setLevel, kMaxVerboseLevel

(* An argument of a command line. *)
ArgumentType == [key : {"-v", "--v", "-vmodule"}, level : 0 .. 9, entries : Seq([name : Text, level : 0 .. 9])]

(* A sign taken off again. *)
LEMMA TailConcat ==
  ASSUME NEW T, NEW x \in T, NEW s \in Seq(T)
  PROVE  Len(<<x>> \o s) # 0 /\ Tail(<<x>> \o s) = s
<1> DEFINE e == <<x>>
           u == Tail(e \o s)
<1>1. e \in Seq(T) /\ Len(e) = 1
  OBVIOUS
<1> HIDE DEF e
<1>2. e \o s \in Seq(T) /\ Len(e \o s) = 1 + Len(s)
  <2>1. e \in Seq(T)
    BY <1>1
  <2>2. e \o s \in Seq(T) /\ Len(e \o s) = Len(e) + Len(s)
    BY <2>1
  <2> QED BY <1>1, <2>2
<1>3. u \in Seq(T) /\ Len(u) = Len(s)
  BY <1>2
<1>4. ASSUME NEW i \in 1 .. Len(s) PROVE u[i] = s[i]
  <2>1. u[i] = (e \o s)[i + 1]
    BY <1>2
  <2>2. (e \o s)[i + 1] = s[i]
    <3>1. e \in Seq(T)
      BY <1>1
    <3>2. \A k \in Len(e) + 1 .. Len(e) + Len(s) : (e \o s)[k] = s[k - Len(e)]
      BY <3>1
    <3>3. i + 1 \in Len(e) + 1 .. Len(e) + Len(s) /\ i + 1 - Len(e) = i
      BY <1>1
    <3> QED BY <3>2, <3>3
  <2> QED BY <2>1, <2>2
<1> HIDE DEF u
<1>5. u = s
  BY <1>3, <1>4, SameTexts
<1> QED BY <1>2, <1>5 DEF e, u

(* What an argument looks like. *)
LEMMA ArgumentIs ==
  ASSUME NEW a \in ArgumentType, Readable(a.entries)
  PROVE  /\ Argument(a).key = a.key /\ a.key \in {"-v", "--v", "-vmodule"}
         /\ Bare(Argument(a)) <=> a.key = "-v"
         /\ a.key = "--v" => DigitOf(Tail(Argument(a).value)[1]) = a.level /\ a.level \in 0 .. 9
         /\ a.key = "-vmodule" => Tail(Argument(a).value) = EntriesText(a.entries)
<1>1. a.key \in {"-v", "--v", "-vmodule"} /\ a.level \in 0 .. 9
  BY DEF ArgumentType
<1> DEFINE d == Digits0to9[a.level + 1]
           text == EntriesText(a.entries)
<1>2. /\ Argument(a).key = a.key
      /\ a.key = "-v" => Argument(a).value = <<>>
      /\ a.key = "--v" => Argument(a).value = <<EqualSign, d>>
      /\ a.key = "-vmodule" => Argument(a).value = <<EqualSign>> \o text
  BY <1>1, Zenon DEF Argument, EqualSign
<1>3. text \in Seq(Alphabet)
  <2>1. AllReadable(<<>>) /\ Kept(<<>>, <<>>)
    BY DEF AllReadable, Kept
  <2> QED BY <2>1, ReadableIs, EntriesRead
<1>4. DigitOf(d) = a.level
  BY <1>1, DigitsRead
<1>5. EqualSign \in Alphabet
  BY DEF Alphabet
<1> HIDE DEF d, text
<1>6. Len(<<EqualSign, d>>) = 2 /\ Tail(<<EqualSign, d>>)[1] = d /\ Len(<<>>) = 0
  OBVIOUS
<1>7. Len(<<EqualSign>> \o text) # 0 /\ Tail(<<EqualSign>> \o text) = text
  BY <1>3, <1>5, TailConcat
<1>8. Bare(Argument(a)) <=> a.key = "-v"
  <2> DEFINE v == Argument(a).value
             e == <<EqualSign, d>>
             u == <<EqualSign>> \o text
  <2>1. /\ a.key = "-v" => v = <<>>
        /\ a.key = "--v" => v = e
        /\ a.key = "-vmodule" => v = u
    BY <1>2
  <2>2. Len(<<>>) = 0 /\ Len(e) # 0 /\ Len(u) # 0
    BY <1>6, <1>7
  <2>3. Bare(Argument(a)) <=> Len(v) = 0
    BY DEF Bare
  <2> HIDE DEF v, e, u
  <2> QED BY <1>1, <2>1, <2>2, <2>3
<1> QED BY <1>1, <1>2, <1>4, <1>6, <1>7, <1>8 DEF d, text

(* Of the arguments with one key the first. *)
WithKey(line, N, key) == {i \in 1 .. N : line[i].key = key}

(* The argument with a key that the program takes is the first one. *)
LEMMA FirstWith ==
  ASSUME NEW line, NEW N \in Nat, NEW key, WithKey(line, N, key) # {}
  PROVE  LET i == Min(WithKey(line, N, key))
         IN  i \in 1 .. N /\ line[i].key = key /\ \A j \in 1 .. i - 1 : line[j].key # key
<1> DEFINE S == WithKey(line, N, key)
           i == Min(S)
<1>1. S \subseteq Nat /\ S # {} /\ S = {j \in 1 .. N : line[j].key = key}
  BY DEF WithKey
<1> HIDE DEF S
<1>2. i \in S /\ \A y \in S : i <= y
  BY <1>1, MinIs
<1> HIDE DEF i
<1>3. i \in 1 .. N /\ line[i].key = key
  BY <1>1, <1>2
<1>4. ASSUME NEW j \in 1 .. i - 1 PROVE line[j].key # key
  <2>1. j \in 1 .. N /\ ~(i <= j)
    BY <1>3
  <2> QED BY <1>1, <1>2, <2>1
<1> QED BY <1>3, <1>4 DEF i, S

(* What is given is as it is registered. *)
Registered(registry, g) ==
  /\ registry = [level |-> Min({g.level, 9}), modules |-> registry.modules]
  /\ g = [level |-> g.level, entries |-> g.entries, customs |-> g.customs]
  /\ g.level \in Nat /\ AllReadable(g.entries) /\ Kept(registry.modules, g.entries)

(* A level is set. *)
LEMMA LevelRegistered ==
  ASSUME NEW registry, NEW g, Registered(registry, g), NEW l \in Nat
  PROVE  Registered([registry EXCEPT !.level = setLevel(l)], [g EXCEPT !.level = l])
<1> DEFINE r == [registry EXCEPT !.level = setLevel(l)]
           h == [g EXCEPT !.level = l]
<1>1. h = [level |-> l, entries |-> g.entries, customs |-> g.customs]
  BY DEF Registered
<1>2. r = [level |-> setLevel(l), modules |-> registry.modules]
  BY DEF Registered
<1>3. setLevel(l) = Min({l, 9})
  BY LevelSet
<1> HIDE DEF r, h
<1>4. r.level = Min({l, 9}) /\ r.modules = registry.modules /\ h.level = l /\ h.entries = g.entries
  BY <1>1, <1>2, <1>3
<1>5. r = [level |-> Min({h.level, 9}), modules |-> r.modules]
  BY <1>2, <1>3, <1>4
<1>6. h = [level |-> h.level, entries |-> h.entries, customs |-> h.customs]
  BY <1>1
<1> QED BY <1>4, <1>5, <1>6 DEF Registered, r, h

(* Modules are set. *)
LEMMA EntriesRegistered ==
  ASSUME NEW registry, NEW g, Registered(registry, g), NEW es, AllReadable(es)
  PROVE  Registered([registry EXCEPT !.modules = setModules(@, EntriesText(es), TRUE)],
                    [g EXCEPT !.entries = @ \o es])
<1> DEFINE m == setModules(registry.modules, EntriesText(es), TRUE)
           e == g.entries \o es
           r == [registry EXCEPT !.modules = setModules(@, EntriesText(es), TRUE)]
           h == [g EXCEPT !.entries = @ \o es]
<1>1. Kept(m, e)
  BY EntriesRead DEF Registered
<1>2. AllReadable(e)
  BY MoreReadable DEF Registered
<1>3. r = [registry EXCEPT !.modules = m] /\ h = [g EXCEPT !.entries = e]
  BY DEF Registered
<1> HIDE DEF m, e, r, h
<1>4. h = [level |-> g.level, entries |-> e, customs |-> g.customs]
  BY <1>3 DEF Registered
<1>5. r = [level |-> Min({g.level, 9}), modules |-> m]
  BY <1>3 DEF Registered
<1>6. r.level = Min({g.level, 9}) /\ r.modules = m /\ h.level = g.level /\ h.entries = e
  BY <1>4, <1>5
<1>7. r = [level |-> Min({h.level, 9}), modules |-> r.modules]
  BY <1>5, <1>6
<1>8. h = [level |-> h.level, entries |-> h.entries, customs |-> h.customs]
  BY <1>4
<1> QED BY <1>1, <1>2, <1>6, <1>7, <1>8 DEF Registered, r, h

(* Nothing is set by no text. *)
LEMMA NoModules == ASSUME NEW m PROVE setModules(m, <<>>, TRUE) = m
<1> DEFINE st == Setting(m, <<>>, -1, FALSE)
<1>1. setModules(m, <<>>, TRUE) = EndOfEntry(Reading!Fold(0, st, <<>>), TRUE).modules
  BY DEF setModules, Setting, Read, Reading!Fold, Reading!MapThenFoldSet, FoldLeft,
         MapThenFoldSet, Max, Reading!Max
<1>2. Reading!Fold(0, st, <<>>) = st
  BY Reading!FoldNone
<1>3. EndOfEntry(st, TRUE).modules = m
  BY DEF EndOfEntry, Setting
<1> HIDE DEF st
<1> QED BY <1>1, <1>2, <1>3

(* A command line is granted its first wish. *)
LEMMA LineRegistered ==
  ASSUME NEW line \in CommandLines, NEW registry, NEW g, Registered(registry, g)
  PROVE  Registered(setFromArgs(registry, setArgs([i \in DOMAIN line |-> Argument(line[i])]), Flags),
                    Asked(line, g))
<1> DEFINE N == Len(line)
           args == [i \in DOMAIN line |-> Argument(line[i])]
           m == setArgs(args)
           With(key) == WithKey(line, N, key)
           First(key) == line[Min(With(key))]
           new == setFromArgs(registry, m, Flags)
           asked == Asked(line, g)
<1>1. line \in Seq(ArgumentType) /\ \A i \in DOMAIN line : Readable(line[i].entries)
  BY VerboseAssumption DEF ArgumentType
<1>2. N \in Nat /\ DOMAIN line = 1 .. N /\ DOMAIN args = 1 .. N
      /\ \A i \in 1 .. N : line[i] \in ArgumentType /\ Readable(line[i].entries) /\ args[i] = Argument(line[i])
  BY <1>1
<1>3. TakenTo(args, N, m)
  <2> HIDE DEF args
  <2> QED BY <1>2, ArgumentsTaken
<1>14. \A key : With(key) # {} <=> \E i \in 1 .. N : line[i].key = key
  BY DEF WithKey
<1>4. asked = IF With("-v") # {} THEN [g EXCEPT !.level = 9]
              ELSE IF With("--v") # {} THEN [g EXCEPT !.level = First("--v").level]
              ELSE IF With("-vmodule") # {} THEN [g EXCEPT !.entries = @ \o First("-vmodule").entries]
              ELSE g
  BY <1>2, Zenon DEF Asked, WithKey
<1>5. \A i \in 1 .. N :
        /\ args[i].key = line[i].key /\ line[i].key \in {"-v", "--v", "-vmodule"}
        /\ Bare(args[i]) <=> line[i].key = "-v"
        /\ line[i].key = "--v" => DigitOf(Tail(args[i].value)[1]) = line[i].level /\ line[i].level \in 0 .. 9
        /\ line[i].key = "-vmodule" => Tail(args[i].value) = EntriesText(line[i].entries)
  BY <1>2, ArgumentIs
<1> HIDE DEF args, m
<1>6. \A k : hasParam(m, k) <=> k = "-v" /\ With("-v") # {}
  <2>1. \A k : k \in m.params <=> \E i \in 1 .. N : args[i].key = k /\ Bare(args[i])
    BY <1>3 DEF TakenTo
  <2> HIDE DEF With
  <2> QED BY <1>5, <1>14, <2>1 DEF hasParam
<1>7. \A k : hasParamWithValue(m, k) <=> k \in {"--v", "-vmodule"} /\ With(k) # {}
  <2>1. \A k : k \in DOMAIN m.values <=> \E i \in 1 .. N : args[i].key = k /\ ~Bare(args[i])
    BY <1>3 DEF TakenTo
  <2>2. \A i \in 1 .. N : args[i].key = line[i].key /\ (~Bare(args[i]) <=> line[i].key \in {"--v", "-vmodule"})
    BY <1>5
  <2>3. \A k : k \in DOMAIN m.values <=> \E i \in 1 .. N : line[i].key = k /\ k \in {"--v", "-vmodule"}
    BY <2>1, <2>2
  <2> HIDE DEF With
  <2> QED BY <1>14, <2>3 DEF hasParamWithValue
<1>8. ASSUME NEW k \in {"--v", "-vmodule"}, With(k) # {}
      PROVE  \E i \in 1 .. N : First(k) = line[i] /\ line[i].key = k /\ getParamValue(m, k) = Tail(args[i].value)
  <2> DEFINE i == Min(With(k))
  <2>1. i \in 1 .. N /\ line[i].key = k /\ \A j \in 1 .. i - 1 : line[j].key # k
    <3>1. N \in Nat
      BY <1>2
    <3> HIDE DEF N
    <3> QED BY <1>8, <3>1, FirstWith
  <2> HIDE DEF i
  <2>2. ~Bare(args[i]) /\ args[i].key = k
    BY <1>5, <1>8, <2>1
  <2>3. \A j \in 1 .. i - 1 : args[j].key # args[i].key
    <3>1. \A j \in 1 .. i - 1 : j \in 1 .. N
      BY <1>2, <2>1
    <3> QED BY <1>5, <2>1, <2>2, <3>1
  <2>4. m.values[k] = Tail(args[i].value)
    BY <1>3, <2>1, <2>2, <2>3 DEF TakenTo
  <2>5. getParamValue(m, k) = Tail(args[i].value)
    BY <1>7, <1>8, <2>4 DEF getParamValue
  <2> QED BY <2>1, <2>5 DEF i
<1> HIDE DEF With
<1> DEFINE Level(key) == [registry EXCEPT !.level = setLevel(DigitOf(getParamValue(m, key)[1]))]
           Modules(key) == [registry EXCEPT !.modules = setModules(@, getParamValue(m, key), TRUE)]
<1>9. new = IF With("-v") # {} THEN [registry EXCEPT !.level = setLevel(9)]
            ELSE IF With("--v") # {} THEN Level("--v")
            ELSE IF With("-vmodule") # {} THEN Modules("-vmodule")
            ELSE Modules("-VMODULE")
  <2>1. (\E k \in {"-v", "--verbose", "-V", "--VERBOSE"} : hasParam(m, k)) <=> With("-v") # {}
    BY <1>6
  <2>2. /\ hasParamWithValue(m, "--v") <=> With("--v") # {}
        /\ hasParamWithValue(m, "-vmodule") <=> With("-vmodule") # {}
        /\ ~hasParamWithValue(m, "--V")
    BY <1>7
  <2>3. "DisableVModules" \notin Flags /\ ("DisableVModulesExtensions" \notin Flags) = TRUE
    BY DEF Flags
  <2> QED BY <2>1, <2>2, <2>3, Zenon DEF setFromArgs, kMaxVerboseLevel
<1> HIDE DEF new, asked
<1>10. ASSUME With("-v") # {}
       PROVE  Registered(new, asked)
  BY <1>4, <1>9, <1>10, LevelRegistered
<1>11. ASSUME With("-v") = {} /\ With("--v") # {}
       PROVE  Registered(new, asked)
  <2>1. PICK i \in 1 .. N : First("--v") = line[i] /\ line[i].key = "--v" /\ getParamValue(m, "--v") = Tail(args[i].value)
    BY <1>8, <1>11
  <2>2. DigitOf(getParamValue(m, "--v")[1]) = line[i].level /\ line[i].level \in Nat
    <3>1. DigitOf(Tail(args[i].value)[1]) = line[i].level /\ line[i].level \in 0 .. 9
      BY <1>5, <2>1
    <3> DEFINE v == getParamValue(m, "--v")
               w == Tail(args[i].value)
    <3>2. v = w /\ DigitOf(w[1]) = line[i].level
      BY <2>1, <3>1
    <3>3. DigitOf(v[1]) = line[i].level
      BY <3>2, Zenon
    <3> QED BY <3>1, <3>3
  <2>3. new = [registry EXCEPT !.level = setLevel(line[i].level)] /\ asked = [g EXCEPT !.level = line[i].level]
    BY <1>4, <1>9, <1>11, <2>1, <2>2
  <2> QED BY <2>2, <2>3, LevelRegistered
<1>12. ASSUME With("-v") = {} /\ With("--v") = {} /\ With("-vmodule") # {}
       PROVE  Registered(new, asked)
  <2>1. PICK i \in 1 .. N : First("-vmodule") = line[i] /\ line[i].key = "-vmodule" /\ getParamValue(m, "-vmodule") = Tail(args[i].value)
    BY <1>8, <1>12
  <2>2. getParamValue(m, "-vmodule") = EntriesText(line[i].entries)
    BY <1>5, <2>1
  <2>3. new = [registry EXCEPT !.modules = setModules(@, EntriesText(line[i].entries), TRUE)]
        /\ asked = [g EXCEPT !.entries = @ \o line[i].entries]
    BY <1>4, <1>9, <1>12, <2>1, <2>2
  <2>4. AllReadable(line[i].entries)
    BY <1>2, ReadableIs
  <2> QED BY <2>3, <2>4, EntriesRegistered
<1>13. ASSUME With("-v") = {} /\ With("--v") = {} /\ With("-vmodule") = {}
       PROVE  Registered(new, asked)
  <2>1. asked = g /\ new = Modules("-VMODULE")
    BY <1>4, <1>9, <1>13
  <2>2. getParamValue(m, "-VMODULE") = <<>>
    BY <1>7 DEF getParamValue
  <2>3. setModules(registry.modules, <<>>, TRUE) = registry.modules
    BY NoModules
  <2>4. new = registry
    BY <2>1, <2>2, <2>3 DEF Registered
  <2> QED BY <2>1, <2>4
<1> QED BY <1>10, <1>11, <1>12, <1>13 DEF new, asked, m, args

-----------------------------------------------------------------------------
(* What is allowed. *)
(* A module covers a path just when its name with a suffix matches it.     *)
LEMMA CoversIs ==
  ASSUME NEW path \in Paths, NEW name \in Text
  PROVE  Covers(name, path) <=>
           \E e \in ToSet(FileExtensions) : wildCardMatch(buildBaseFilename(path), Append(name, e))
<1> DEFINE file == SubSeq(path, SelectLastInSeq(path, LAMBDA c : c = "/") + 1, Len(path))
<1>1. path \in Text /\ buildBaseFilename(path) = file
  BY BaseShown
<1>2. file \in Seq(Characters)
  <2>1. file \in Text
    BY <1>1, BaseType
  <2> HIDE DEF file
  <2> QED BY <2>1, TextsOfCharacters
<1>3. name \in Seq(Characters)
  BY TextsOfCharacters
<1>4. Covers(name, path) <=> \E e \in ToSet(FileExtensions) : Len(file) \in Reached(file, Append(name, e))
  BY Zenon DEF Covers
<1> HIDE DEF file
<1>5. ASSUME NEW e \in ToSet(FileExtensions)
      PROVE  wildCardMatch(file, Append(name, e)) <=> Len(file) \in Reached(file, Append(name, e))
  <2>1. e \in Characters
    BY DEF Characters
  <2>2. Append(name, e) \in Seq(Characters)
    BY <1>3, <2>1
  <2> QED BY <1>2, <2>2, MatchReaches
<1> QED BY <1>1, <1>4, <1>5

(* Of the entries with one name there is a first. *)
LEMMA FirstEntry ==
  ASSUME NEW es, NEW i \in Nat, i > 0
  PROVE  \E j \in 1 .. i : es[j].name = es[i].name /\ FirstOf(es, j)
<1> DEFINE T == {j \in 1 .. i : es[j].name = es[i].name}
<1>1. T \subseteq Nat /\ i \in T
  OBVIOUS
<1> HIDE DEF T
<1>2. PICK j \in T : \A k \in T : j <= k
  BY <1>1, Flattening!LeastNat
<1>3. j \in 1 .. i /\ es[j].name = es[i].name
  BY DEF T
<1>4. ASSUME NEW k \in 1 .. j - 1 PROVE es[k].name # es[j].name
  <2>1. k \in 1 .. i /\ ~(j <= k)
    BY <1>3
  <2> QED BY <1>2, <1>3, <2>1 DEF T
<1> QED BY <1>3, <1>4 DEF FirstOf

(* What decides. *)
Deciding(es, path) == {i \in DOMAIN es : FirstOf(es, i) /\ Covers(es[i].name, path)}

AllowedAs(v, path, g) ==
  IF g.entries = <<>> THEN {v <= Min({g.level, 9})}
  ELSE IF Deciding(g.entries, path) = {} THEN {TRUE}
  ELSE {v <= g.entries[i].level : i \in Deciding(g.entries, path)}

(* Whether a statement is allowed depends on what was given only. *)
LEMMA AllowedIs ==
  ASSUME NEW registry, NEW g, Registered(registry, g), NEW path \in Paths, NEW v \in Nat
  PROVE  allowed(v, path, registry.level, registry.modules, Flags) = AllowedAs(v, path, g)
<1> DEFINE es == g.entries
           modules == registry.modules
           E == ToSet(FileExtensions)
           shown == buildBaseFilename(path)
           matches == {m \in DOMAIN modules : wildCardMatch(shown, m)}
           deciding == Deciding(es, path)
<1>1. registry.level = Min({g.level, 9}) /\ AllReadable(es) /\ Kept(modules, es)
  BY DEF Registered
<1>2. /\ \A y : y \in DOMAIN modules <=> \E i \in DOMAIN es, e \in E : y = Append(es[i].name, e)
      /\ \A i \in DOMAIN es : FirstOf(es, i) => \A e \in E : modules[Append(es[i].name, e)] = es[i].level
  BY <1>1 DEF Kept
<1>3. es \in Seq(Entry) /\ DOMAIN es = 1 .. Len(es) /\ Len(es) \in Nat /\ \A i \in DOMAIN es : es[i].name \in Text
  <2>1. es \in Seq(Entry)
    BY <1>1 DEF AllReadable
  <2>2. \A x \in Entry : x.name \in Text
    BY DEF Entry
  <2> HIDE DEF es
  <2> QED BY <2>1, <2>2
<1>4. FileExtensions[1] \in E
  BY TheSuffixes
<1>5. allowed(v, path, registry.level, modules, Flags) =
        IF DOMAIN modules = {} THEN {v <= registry.level}
        ELSE IF matches # {} THEN {v <= modules[m] : m \in matches}
        ELSE {TRUE}
  <2>1. ("AllowVerboseIfModuleNotSpecified" \in Flags) = TRUE
    BY DEF Flags
  <2> QED BY <2>1, Zenon DEF allowed
<1> HIDE DEF es, modules, E, shown, matches, deciding
<1>6. DOMAIN modules = {} <=> es = <<>>
  <2>1. es = <<>> <=> DOMAIN es = {}
    BY <1>3
  <2> QED BY <1>2, <1>4, <2>1
<1>7. ASSUME NEW m \in matches PROVE \E i \in deciding : modules[m] = es[i].level
  <2>1. m \in DOMAIN modules /\ wildCardMatch(shown, m)
    BY DEF matches
  <2>2. PICK i \in DOMAIN es, e \in E : m = Append(es[i].name, e)
    BY <1>2, <2>1
  <2>3. PICK j \in 1 .. i : es[j].name = es[i].name /\ FirstOf(es, j)
    BY <1>3, FirstEntry
  <2>4. j \in DOMAIN es /\ m = Append(es[j].name, e)
    BY <1>3, <2>2, <2>3
  <2>5. Covers(es[j].name, path)
    BY <1>3, <2>1, <2>4, CoversIs DEF shown, E
  <2>6. modules[m] = es[j].level
    BY <1>2, <2>3, <2>4
  <2> QED BY <2>3, <2>4, <2>5, <2>6 DEF deciding, Deciding
<1>8. ASSUME NEW i \in deciding PROVE \E m \in matches : modules[m] = es[i].level
  <2>1. i \in DOMAIN es /\ FirstOf(es, i) /\ Covers(es[i].name, path)
    BY DEF deciding, Deciding
  <2>2. PICK e \in E : wildCardMatch(shown, Append(es[i].name, e))
    BY <1>3, <2>1, CoversIs DEF shown, E
  <2>3. Append(es[i].name, e) \in DOMAIN modules /\ modules[Append(es[i].name, e)] = es[i].level
    BY <1>2, <2>1
  <2> QED BY <2>2, <2>3 DEF matches
<1>9. matches # {} <=> deciding # {}
  BY <1>7, <1>8
<1>10. {v <= modules[m] : m \in matches} = {v <= es[i].level : i \in deciding}
  BY <1>7, <1>8
<1> QED BY <1>1, <1>5, <1>6, <1>9, <1>10, Zenon DEF es, modules, deciding, AllowedAs

-----------------------------------------------------------------------------
(* What is registered is what was asked for, and a verbose statement was   *)
(* answered from it.                                                       *)
VerboseInvariant ==
  /\ Registered(vRegistry, given)
  /\ call.op = "allowed" =>
       /\ call.path \in Paths /\ call.level \in Nat
       /\ result = allowed(call.level, call.path, vRegistry.level, vRegistry.modules, Flags)

(* At the start. *)
LEMMA NothingRegistered ==
  /\ AllReadable(<<>>) /\ Kept(<<>>, <<>>) /\ Registered(DefaultRegistry, NothingGiven)
<1>1. AllReadable(<<>>) /\ Kept(<<>>, <<>>)
  BY DEF AllReadable, Kept
<1>2. DefaultRegistry.level = 0 /\ DefaultRegistry.modules = <<>> /\ NothingGiven.level = 0 /\ NothingGiven.entries = <<>>
  BY DEF DefaultRegistry, NothingGiven
<1>3. Min({0, 9}) = 0
  <2>1. setLevel(0) = Min({0, 9}) /\ setLevel(0) = 0
    BY LevelSet DEF setLevel
  <2> QED BY <2>1
<1>4. /\ DefaultRegistry = [level |-> 0, modules |-> DefaultRegistry.modules]
      /\ NothingGiven = [level |-> NothingGiven.level, entries |-> NothingGiven.entries,
                         customs |-> NothingGiven.customs]
  BY DEF DefaultRegistry, NothingGiven
<1> QED BY <1>1, <1>2, <1>3, <1>4 DEF Registered

(* Calls that do not look at the registry leave it. *)
LEMMA OthersKeepVerbose ==
  ASSUME VerboseInvariant, UNCHANGED <<vRegistry, given>>, call'.op # "allowed"
  PROVE  VerboseInvariant'
BY DEF VerboseInvariant

(* So do those for custom specifiers. *)
LEMMA CustomsKeepVerbose ==
  ASSUME VerboseInvariant, UNCHANGED vRegistry, NEW c, given' = [given EXCEPT !.customs = c], call'.op # "allowed"
  PROVE  VerboseInvariant'
<1>1. given' = [level |-> given.level, entries |-> given.entries, customs |-> c]
  BY DEF VerboseInvariant, Registered
<1>2. given'.level = given.level /\ given'.entries = given.entries
      /\ given' = [level |-> given'.level, entries |-> given'.entries, customs |-> given'.customs]
  BY <1>1
<1> QED BY <1>2 DEF VerboseInvariant, Registered

(* Each call keeps what is registered as it was asked for. *)
LEMMA VerboseStep == VerboseInvariant /\ [Next]_vars => VerboseInvariant'
<1> SUFFICES ASSUME VerboseInvariant, [Next]_vars PROVE VerboseInvariant'
  OBVIOUS
<1> USE DEF Called, Answer
<1>0. Registered(vRegistry, given)
  BY DEF VerboseInvariant
<1>1. CASE Build
  BY <1>1, OthersKeepVerbose DEF Build
<1>2. CASE Stream
  <2>1. \E v, flags : /\ call' = [op |-> "stream", value |-> v, flags |-> flags]
                     /\ UNCHANGED <<vRegistry, given>>
    BY <1>2, Zenon DEF Stream
  <2>2. call'.op # "allowed"
    BY <2>1
  <2> QED BY <2>1, <2>2, OthersKeepVerbose
<1>3. CASE InstallCustomFormatSpecifier
  BY <1>3, CustomsKeepVerbose DEF InstallCustomFormatSpecifier
<1>4. CASE UninstallCustomFormatSpecifier
  BY <1>4, CustomsKeepVerbose DEF UninstallCustomFormatSpecifier
<1>5. CASE Resolve
  BY <1>5, OthersKeepVerbose DEF Resolve
<1>6. CASE MakePath
  BY <1>6, OthersKeepVerbose DEF MakePath
<1>7. CASE SourceName
  BY <1>7, OthersKeepVerbose DEF SourceName
<1>8. CASE Dates
  BY <1>8, OthersKeepVerbose DEF Dates
<1>9. CASE Duration
  BY <1>9, OthersKeepVerbose DEF Duration
<1>10. CASE Difference
  BY <1>10, OthersKeepVerbose DEF Difference
<1>11. CASE Request
  BY <1>11, OthersKeepVerbose DEF Request
<1>12. CASE Parse
  <2>1. \E v, l : /\ call' = [op |-> "parse", value |-> v, level |-> l]
                 /\ UNCHANGED <<vRegistry, given>>
    BY <1>12, Zenon DEF Parse
  <2>2. call'.op # "allowed"
    BY <2>1
  <2> QED BY <2>1, <2>2, OthersKeepVerbose
<1>13. CASE Number
  BY <1>13, OthersKeepVerbose DEF Number
<1>14. CASE Configure
  BY <1>14, OthersKeepVerbose DEF Configure
<1>15. CASE SetVModules
  <2>1. PICK es \in Entries : /\ call' = [op |-> "setVModules"]
                              /\ vRegistry' = [vRegistry EXCEPT !.modules = setModules(@, EntriesText(es), TRUE)]
                              /\ given' = [given EXCEPT !.entries = @ \o es]
    BY <1>15, Zenon DEF SetVModules, Verbose
  <2>2. AllReadable(es)
    BY VerboseAssumption, ReadableIs
  <2>3. Registered(vRegistry', given')
    BY <1>0, <2>1, <2>2, EntriesRegistered
  <2>4. call'.op # "allowed"
    BY <2>1
  <2> QED BY <2>3, <2>4 DEF VerboseInvariant
<1>16. CASE ClearVModules
  <2>1. /\ call' = [op |-> "clearVModules"] /\ vRegistry' = [vRegistry EXCEPT !.modules = <<>>]
        /\ given' = [given EXCEPT !.entries = <<>>]
    BY <1>16 DEF ClearVModules, Verbose
  <2>2. /\ vRegistry' = [level |-> vRegistry.level, modules |-> <<>>]
        /\ given' = [level |-> given.level, entries |-> <<>>, customs |-> given.customs]
    BY <1>0, <2>1 DEF Registered
  <2>3. Registered(vRegistry', given')
    BY <1>0, <2>2, NothingRegistered DEF Registered
  <2>4. call'.op # "allowed"
    BY <2>1
  <2> QED BY <2>3, <2>4 DEF VerboseInvariant
<1>17. CASE SetVerboseLevel
  <2>1. PICK l \in Levels : /\ call' = [op |-> "setVerboseLevel"]
                            /\ vRegistry' = [vRegistry EXCEPT !.level = setLevel(l)]
                            /\ given' = [given EXCEPT !.level = l]
    BY <1>17 DEF SetVerboseLevel, Verbose
  <2>2. Registered(vRegistry', given')
    BY <1>0, <2>1, VerboseAssumption, LevelRegistered
  <2>3. call'.op # "allowed"
    BY <2>1
  <2> QED BY <2>2, <2>3 DEF VerboseInvariant
<1>18. CASE SetFromArgs
  <2>1. PICK line \in CommandLines :
          /\ call' = [op |-> "setFromArgs"] /\ given' = Asked(line, given)
          /\ vRegistry' = setFromArgs(vRegistry, setArgs([i \in DOMAIN line |-> Argument(line[i])]), Flags)
    BY <1>18, Zenon DEF SetFromArgs, Verbose
  <2>2. Registered(vRegistry', given')
    BY <1>0, <2>1, LineRegistered
  <2>3. call'.op # "allowed"
    BY <2>1
  <2> QED BY <2>2, <2>3 DEF VerboseInvariant
<1>19. CASE Allowed
  <2>1. PICK v \in Levels, p \in Paths :
          /\ call' = [op |-> "allowed", level |-> v, path |-> p]
          /\ result' = allowed(v, p, vRegistry.level, vRegistry.modules, Flags)
          /\ UNCHANGED <<vRegistry, given>>
    BY <1>19, Zenon DEF Allowed
  <2>2. call'.level = v /\ call'.path = p /\ v \in Nat
    BY <2>1, VerboseAssumption
  <2> QED BY <1>0, <2>1, <2>2 DEF VerboseInvariant
<1>20. CASE Return
  BY <1>20, OthersKeepVerbose DEF Return, None
<1>21. CASE UNCHANGED vars
  BY <1>21 DEF vars, VerboseInvariant
<1> QED
  BY <1>1, <1>2, <1>3, <1>4, <1>5, <1>6, <1>7, <1>8, <1>9, <1>10, <1>11, <1>12, <1>13, <1>14,
     <1>15, <1>16, <1>17, <1>18, <1>19, <1>20, <1>21 DEF Next

(* A verbose statement is allowed as its module was first given a level,   *)
(* or as the level says, for any names, patterns, levels and command lines *)
(* (VRegistry::setModules, setFromArgs and allowed).                       *)
THEOREM VerboseCorrect == Spec => []VerboseAsAsked
<1>1. Init => VerboseInvariant
  BY NothingRegistered DEF Init, None, VerboseInvariant
<1>2. VerboseInvariant => VerboseAsAsked
  <2> SUFFICES ASSUME VerboseInvariant, call.op = "allowed" PROVE VerboseAsAsked
    BY DEF VerboseAsAsked
  <2>1. Registered(vRegistry, given) /\ call.path \in Paths /\ call.level \in Nat
        /\ result = allowed(call.level, call.path, vRegistry.level, vRegistry.modules, Flags)
    BY DEF VerboseInvariant
  <2>2. result = AllowedAs(call.level, call.path, given)
    BY <2>1, AllowedIs
  <2> QED BY <2>2, Zenon DEF VerboseAsAsked, AllowedAs, Deciding, FirstOf
<1> QED BY <1>1, <1>2, VerboseStep, PTL DEF Spec

-----------------------------------------------------------------------------
(* Configurations.  A line is followed through the parser, a value through *)
(* its quotes, a file from line to line.                                   *)
Space == " "
(* The first of a character, from a place on. *)
LEMMA FindAt ==
  ASSUME NEW T, NEW s \in Seq(T), NEW w, NEW i \in Nat, NEW k \in i .. Len(s), s[k] = w,
         \A j \in i .. k - 1 : s[j] # w
  PROVE  find(s, w, i) = k
<1> DEFINE at == {j \in i .. Len(s) : s[j] = w}
<1>1. Len(s) \in Nat /\ k \in Nat
  OBVIOUS
<1>2. k \in at /\ at \subseteq Nat
  BY <1>1
<1>3. \A y \in at : k <= y
  BY <1>1
<1>4. Min(at) \in at /\ \A y \in at : Min(at) <= y
  <2> HIDE DEF at
  <2> QED BY <1>2, MinIs
<1>5. Min(at) = k
  BY <1>1, <1>2, <1>3, <1>4
<1>6. find(s, w, i) = Min(at)
  BY <1>2 DEF find
<1> QED BY <1>5, <1>6

(* A character that is not there is not found. *)
LEMMA FindNone ==
  ASSUME NEW s, NEW w, NEW i, \A j \in i .. Len(s) : s[j] # w
  PROVE  find(s, w, i) = 0
BY DEF find

(* A text trimmed. *)
LEMMA TrimIs ==
  ASSUME NEW s \in Text, NEW a \in 1 .. Len(s), NEW b \in a .. Len(s), s[a] # Space, s[b] # Space,
         \A i \in 1 .. a - 1 : s[i] = Space, \A i \in b + 1 .. Len(s) : s[i] = Space
  PROVE  trim(s) = SubSeq(s, a, b)
<1> DEFINE dark == {i \in DOMAIN s : s[i] # Space}
<1>1. DOMAIN s = 1 .. Len(s) /\ Len(s) \in Nat /\ a \in Nat /\ b \in Nat
  BY DEF Text
<1>2. dark \subseteq Nat /\ a \in dark /\ b \in dark /\ \A i \in dark : a <= i /\ i <= b
  BY <1>1
<1>3. dark \in SUBSET DOMAIN s
  OBVIOUS
<1>4. trim(s) = SubSeq(s, Min(dark), Max(dark))
  <2>1. dark # {}
    BY <1>2
  <2>2. dark = {i \in DOMAIN s : s[i] # " "}
    BY Zenon DEF Space
  <2> HIDE DEF dark
  <2> QED BY <2>1, <2>2, Zenon DEF trim
<1> HIDE DEF dark
<1>5. Min(dark) \in dark /\ \A y \in dark : Min(dark) <= y
  BY <1>2, MinIs
<1>6. Max(dark) \in dark /\ \A y \in dark : y <= Max(dark)
  BY <1>2, <1>3, LastIs
<1>7. \A m \in Nat, n \in Nat : m \in dark /\ n \in dark /\ (\A y \in dark : m <= y /\ y <= n) => m = a /\ n = b
  BY <1>1, <1>2
<1>8. Min(dark) \in Nat /\ Max(dark) \in Nat
  BY <1>2, <1>5, <1>6
<1>9. Min(dark) = a /\ Max(dark) = b
  BY <1>5, <1>6, <1>7, <1>8
<1> QED BY <1>4, <1>9

(* Nothing to trim. *)
LEMMA TrimNone == trim(<<>>) = <<>>
<1>1. {i \in DOMAIN <<>> : <<>>[i] # " "} = {}
  OBVIOUS
<1> QED BY <1>1 DEF trim

(* A line of k characters and then a comment or nothing. *)
Uncommented(line, k) ==
  /\ line \in Text /\ k \in 0 .. Len(line)
  /\ \A i \in 1 .. Len(line) : line[i] # Quote
  /\ \A i \in 1 .. k : line[i] # Space /\ line[i] # Comment
  /\ Len(line) = k \/ line[k + 1] = Comment

(* The marks of a file are told apart. *)
LEMMA Marks == Comment # Space /\ LoggerMark # LevelMark /\ Comment # LoggerMark /\ Comment # LevelMark
               /\ LoggerMark # Space /\ LevelMark # Space
BY Zenon DEF Comment, Space, LoggerMark, LevelMark

(* A first part of a sequence. *)
LEMMA PartsOf ==
  ASSUME NEW T, NEW s \in Seq(T), NEW m \in 0 .. Len(s)
  PROVE  /\ SubSeq(s, 1, m) \in Seq(T) /\ Len(SubSeq(s, 1, m)) = m
         /\ \A i \in 1 .. m : SubSeq(s, 1, m)[i] = s[i]
OBVIOUS

(* A first part of a text. *)
LEMMA Begun ==
  ASSUME NEW s \in Text, NEW m \in 0 .. Len(s)
  PROVE  /\ SubSeq(s, 1, m) \in Text /\ Len(SubSeq(s, 1, m)) = m
         /\ \A i \in 1 .. m : SubSeq(s, 1, m)[i] = s[i]
<1> DEFINE T == STRING
<1>1. s \in Seq(T)
  BY DEF Text
<1> HIDE DEF T
<1>2. /\ SubSeq(s, 1, m) \in Seq(T) /\ Len(SubSeq(s, 1, m)) = m
      /\ \A i \in 1 .. m : SubSeq(s, 1, m)[i] = s[i]
  BY <1>1, PartsOf
<1>3. Seq(T) = Text
  BY DEF Text, T
<1> QED BY <1>2, <1>3

(* The places of a text. *)
LEMMA Counts == ASSUME NEW s \in Text PROVE Len(s) \in Nat /\ DOMAIN s = 1 .. Len(s)
BY DEF Text

(* The whole of a text. *)
LEMMA WholeText == ASSUME NEW s \in Text PROVE SubSeq(s, 1, Len(s)) = s
BY DEF Text

(* A first part of a first part. *)
LEMMA PrefixOfPrefix ==
  ASSUME NEW s \in Text, NEW m \in 0 .. Len(s), NEW k \in 0 .. m
  PROVE  SubSeq(SubSeq(s, 1, m), 1, k) = SubSeq(s, 1, k)
BY DEF Text

(* The counts of a bare line. *)
LEMMA BareCounts == ASSUME NEW line, NEW k, Uncommented(line, k) PROVE Len(line) \in Nat /\ k \in Nat /\ k <= Len(line)
<1>1. line \in Text /\ k \in 0 .. Len(line)
  BY DEF Uncommented
<1>2. Len(line) \in Nat
  BY <1>1, Counts
<1> QED BY <1>1, <1>2

(* The core of a bare line. *)
LEMMA CoreOfBare ==
  ASSUME NEW line, NEW k, Uncommented(line, k)
  PROVE  Core(line) = SubSeq(line, 1, k)
<1>3. line \in Seq(STRING)
  BY DEF Uncommented, Text
<1>0. Len(line) \in Nat /\ k \in Nat /\ k <= Len(line)
  BY BareCounts
<1>1. CASE Len(line) = k
  <2>1. find(line, Comment, 1) = 0
    BY <1>1, FindNone DEF Uncommented
  <2> QED BY <1>1, <2>1, WholeText DEF Core, Uncommented
<1>2. CASE Len(line) # k
  <2> DEFINE m == k + 1
  <2>1. m \in 1 .. Len(line) /\ m # 0 /\ m - 1 = k
    BY <1>0, <1>2
  <2>2. line[m] = Comment /\ \A j \in 1 .. k : line[j] # Comment
    BY <1>2 DEF Uncommented
  <2> HIDE DEF m
  <2>3. find(line, Comment, 1) = m
    <3>1. 1 \in Nat /\ \A j \in 1 .. m - 1 : line[j] # Comment
      BY <2>1, <2>2
    <3> QED BY <1>3, <2>1, <2>2, <3>1, FindAt
  <2>4. Core(line) = SubSeq(line, 1, m - 1)
    BY <2>1, <2>3 DEF Core
  <2> QED BY <2>1, <2>4
<1> QED BY <1>1, <1>2

(* A bare line ends where its comment begins. *)
LEMMA NoQuotes ==
  ASSUME NEW line, NEW k, Uncommented(line, k)
  PROVE  ignoreComments(line) = SubSeq(line, 1, k)
<1>1. find(line, Quote, 1) = 0
  BY FindNone DEF Uncommented
<1>2. ignoreComments(line) = Core(line)
  <2> DEFINE mark == find(line, Comment, 1)
  <2>1. ignoreComments(line) = IF mark = 0 THEN line ELSE SubSeq(line, 1, mark - 1)
    BY <1>1 DEF ignoreComments
  <2> QED BY <2>1 DEF Core
<1> QED BY <1>2, CoreOfBare

(* A bare line stays bare when trimmed. *)
LEMMA TrimBare ==
  ASSUME NEW line, NEW k, Uncommented(line, k)
  PROVE  Uncommented(trim(line), k) /\ SubSeq(trim(line), 1, k) = SubSeq(line, 1, k)
         /\ (Len(trim(line)) = 0 <=> Len(line) = 0)
         /\ (Len(line) = k => trim(line) = line)
<1>4. line \in Text /\ DOMAIN line = 1 .. Len(line)
  BY Counts DEF Uncommented
<1>0. Len(line) \in Nat /\ k \in Nat /\ k <= Len(line)
  BY BareCounts
<1>1. CASE Len(line) = 0
  <2>1. line = <<>>
    BY <1>1, <1>4 DEF Text
  <2> QED BY <2>1, TrimNone
<1>2. CASE Len(line) # 0
  <2> DEFINE dark == {i \in DOMAIN line : line[i] # Space}
             low == IF k = Len(line) THEN k ELSE k + 1
             m == Max(dark)
  <2>1. 1 \in 1 .. Len(line) /\ line[1] # Space /\ low \in 1 .. Len(line) /\ line[low] # Space
    <3>1. CASE k = Len(line)
      BY <1>0, <1>2, <3>1 DEF Uncommented
    <3>2. CASE k # Len(line)
      <4>1. line[k + 1] = Comment /\ k + 1 \in 1 .. Len(line)
        <5>1. line[k + 1] = Comment
          BY <3>2 DEF Uncommented
        <5> QED BY <1>0, <3>2, <5>1
      <4>2. CASE k = 0
        BY <1>0, <1>2, <3>2, <4>1, <4>2, Marks
      <4>3. CASE k # 0
        <5>1. 1 \in 1 .. k /\ low = k + 1
          BY <1>0, <3>2, <4>3
        <5>2. line[1] # Space
          BY <5>1 DEF Uncommented
        <5> QED BY <1>0, <1>2, <4>1, <5>1, <5>2, Marks
      <4> QED BY <4>2, <4>3
    <3> QED BY <3>1, <3>2
  <2>2. m \in dark /\ \A y \in dark : y <= m
    <3>1. dark \in SUBSET DOMAIN line /\ dark # {}
      BY <1>4, <2>1
    <3> HIDE DEF dark
    <3> QED BY <1>4, <3>1, LastIs
  <2>3. m \in 1 .. Len(line) /\ line[m] # Space /\ low <= m
    <3>1. m \in 1 .. Len(line) /\ line[m] # Space /\ low \in dark
      BY <1>4, <2>1, <2>2
    <3> HIDE DEF m, dark, low
    <3> QED BY <2>2, <3>1
  <2>4. \A i \in m + 1 .. Len(line) : line[i] = Space
    <3> SUFFICES ASSUME NEW i \in m + 1 .. Len(line), line[i] # Space PROVE FALSE
      OBVIOUS
    <3>1. i \in 1 .. Len(line) /\ i > m /\ i \in Nat /\ m \in Nat
      <4> HIDE DEF m
      <4> QED BY <1>0, <2>3
    <3>2. i \in dark
      BY <1>4, <3>1
    <3> HIDE DEF dark, m
    <3> QED BY <2>2, <3>1, <3>2
  <2> HIDE DEF m, dark, low
  <2>5. trim(line) = SubSeq(line, 1, m)
    <3>1. 1 \in 1 .. Len(line) /\ \A i \in 1 .. 1 - 1 : line[i] = Space
      BY <1>0, <1>2
    <3>2. m \in 1 .. Len(line)
      BY <2>3
    <3> QED BY <1>4, <2>1, <2>3, <2>4, <3>1, <3>2, TrimIs
  <2> DEFINE t == SubSeq(line, 1, m)
  <2>6. t \in Text /\ Len(t) = m /\ (\A i \in 1 .. m : t[i] = line[i]) /\ SubSeq(t, 1, k) = SubSeq(line, 1, k)
    <3>1. m \in 0 .. Len(line) /\ k \in 0 .. m
      BY <1>0, <2>3 DEF low
    <3>2. t \in Text /\ Len(t) = m /\ (\A i \in 1 .. m : t[i] = line[i])
      <4>1. m \in 0 .. Len(line)
        BY <3>1
      <4> HIDE DEF m
      <4> QED BY <1>4, <4>1, Begun
    <3>3. SubSeq(t, 1, k) = SubSeq(line, 1, k)
      BY <1>4, <3>1, PrefixOfPrefix
    <3> QED BY <3>2, <3>3
  <2>7. m = k \/ (k + 1 \in 1 .. m /\ line[k + 1] = Comment)
    <3>1. Len(line) = k \/ line[k + 1] = Comment
      BY DEF Uncommented
    <3> QED BY <1>0, <2>3, <3>1 DEF low
  <2> HIDE DEF t
  <2>8. Uncommented(t, k)
    <3>1. k \in 0 .. m /\ \A i \in 1 .. k : i \in 1 .. m /\ i \in 1 .. Len(line)
      BY <1>0, <2>3 DEF low
    <3>2. \A i \in 1 .. m : i \in 1 .. Len(line)
      BY <1>0, <2>3
    <3> QED BY <2>6, <2>7, <3>1, <3>2 DEF Uncommented
  <2>9. Len(line) = k => t = line
    BY <1>0, <1>4, <2>3, WholeText DEF t, low
  <2>10. Len(t) # 0
    BY <1>0, <2>3, <2>6
  <2> QED BY <1>2, <2>5, <2>6, <2>8, <2>9, <2>10 DEF t
<1> QED BY <1>1, <1>2

(* What the readers make of such a line. *)
LEMMA LineStripped ==
  ASSUME NEW line, NEW k, Uncommented(line, k)
  PROVE  /\ isComment(trim(line)) <=> k = 0 /\ Len(line) > 0
         /\ trim(ignoreComments(trim(line))) = SubSeq(line, 1, k)
<1>6. line \in Text
  BY DEF Uncommented
<1>0. Len(line) \in Nat /\ k \in Nat /\ k <= Len(line)
  BY BareCounts
<1> DEFINE t == trim(line)
           core == SubSeq(line, 1, k)
<1>1. Uncommented(t, k) /\ SubSeq(t, 1, k) = core /\ (Len(t) = 0 <=> Len(line) = 0)
  BY TrimBare
<1>2. ignoreComments(t) = core
  <2> HIDE DEF t, core
  <2> QED BY <1>1, NoQuotes
<1>3. Uncommented(core, k) /\ Len(core) = k
  <2>1. core \in Text /\ Len(core) = k /\ \A i \in 1 .. k : core[i] = line[i]
    <3>1. k \in 0 .. Len(line)
      BY <1>0
    <3> QED BY <1>6, <3>1, Begun
  <2> HIDE DEF core
  <2> QED BY <1>0, <2>1 DEF Uncommented
<1>4. trim(core) = core
  <2> HIDE DEF core
  <2> QED BY <1>3, TrimBare
<1>5. isComment(t) <=> k = 0 /\ Len(line) > 0
  <2> HIDE DEF t
  <2>1. Len(t) \in Nat /\ (k # 0 => t[1] # Comment) /\ (k = 0 /\ Len(t) # 0 => t[1] = Comment)
    BY <1>0, <1>1 DEF Uncommented, Text
  <2> QED BY <1>0, <1>1, <2>1 DEF isComment, startsWith, Uncommented
<1> QED BY <1>2, <1>4, <1>5

(* A line that is understood is bare. *)
LEMMA UnderstoodIsBare ==
  ASSUME NEW line, Understood(line)
  PROVE  \E k : Uncommented(line, k) /\ Core(line) = SubSeq(line, 1, k) /\ Len(Core(line)) = k
<1>0. line \in Text /\ Quote \notin ToSet(line) /\ Space \notin ToSet(Core(line))
  BY Zenon DEF Understood, Space
<1>1. line \in Seq(STRING) /\ Len(line) \in Nat /\ DOMAIN line = 1 .. Len(line)
      /\ \A i \in 1 .. Len(line) : line[i] # Quote
  BY <1>0 DEF Text, ToSet
<1> DEFINE at == {j \in 1 .. Len(line) : line[j] = Comment}
<1>2. CASE at = {}
  <2>1. find(line, Comment, 1) = 0
    BY <1>2 DEF find
  <2>2. Core(line) = line
    BY <2>1 DEF Core
  <2>3. \A i \in 1 .. Len(line) : line[i] # Space /\ line[i] # Comment
    BY <1>0, <1>1, <1>2, <2>2 DEF ToSet
  <2>4. Uncommented(line, Len(line))
    BY <1>0, <1>1, <2>3 DEF Uncommented
  <2> QED BY <1>0, <2>2, <2>4, WholeText
<1>3. CASE at # {}
  <2> DEFINE m == Min(at)
  <2>1. m \in at /\ \A y \in at : m <= y
    <3>1. at \subseteq Nat
      OBVIOUS
    <3> HIDE DEF at
    <3> QED BY <1>3, <3>1, MinIs
  <2>2. find(line, Comment, 1) = m
    BY <1>3 DEF find
  <2>3. m \in 1 .. Len(line) /\ line[m] = Comment /\ \A i \in 1 .. m - 1 : line[i] # Comment
    <3>1. m \in 1 .. Len(line) /\ line[m] = Comment
      BY <2>1
    <3>2. ASSUME NEW i \in 1 .. m - 1, line[i] = Comment PROVE FALSE
      <4>1. i \in at /\ i < m
        BY <1>1, <3>1, <3>2
      <4> HIDE DEF at, m
      <4> QED BY <1>1, <2>1, <3>1, <4>1
    <3> QED BY <3>1, <3>2
  <2> HIDE DEF m, at
  <2> DEFINE k == m - 1
             core == SubSeq(line, 1, k)
  <2>4. k \in 0 .. Len(line) /\ m # 0 /\ k + 1 = m
    BY <1>1, <2>3
  <2>5. Core(line) = core
    BY <2>2, <2>4 DEF Core
  <2>6. core \in Text /\ Len(core) = k /\ \A i \in 1 .. k : core[i] = line[i]
    BY <1>0, <2>4, Begun
  <2> HIDE DEF core, k
  <2>7. \A i \in 1 .. k : line[i] # Space
    <3>1. \A i \in 1 .. k : core[i] # Space
      BY <1>0, <2>4, <2>5, <2>6 DEF ToSet, Text
    <3> QED BY <2>6, <3>1
  <2>8. Uncommented(line, k)
    BY <1>0, <1>1, <2>3, <2>4, <2>7 DEF Uncommented, k
  <2> QED BY <2>5, <2>6, <2>8 DEF core
<1> QED BY <1>2, <1>3

-----------------------------------------------------------------------------

(* One sequence, put together. *)
LEMMA FlattenOne == ASSUME NEW T, NEW x \in Seq(T) PROVE FlattenSeq(<<x>>) = x
<1> DEFINE s == <<x>>
<1>1. s \in Seq(Seq(T)) /\ s # <<>> /\ Len(s) = 1 /\ s[1] = x
  OBVIOUS
<1> HIDE DEF s
<1>2. PICK f : FlattenSeq(s) = f[Len(s)] /\ f[1] = s[1]
  BY <1>1, FlattenSteps
<1> QED BY <1>1, <1>2 DEF s

(* Sequences put together one by one. *)
LEMMA FlattenAppend ==
  ASSUME NEW T, NEW s \in Seq(Seq(T)), NEW x \in Seq(T)
  PROVE  FlattenSeq(Append(s, x)) = FlattenSeq(s) \o x
<1>1. CASE s = <<>>
  <2>1. Append(s, x) = <<x>>
    BY <1>1
  <2>2. <<>> \o x = x
    OBVIOUS
  <2> QED BY <1>1, <2>1, <2>2, FlattenOne, FlattenNone
<1>2. CASE s # <<>>
  <2> DEFINE t == Append(s, x)
             N == Len(s)
  <2>1. t \in Seq(Seq(T)) /\ t # <<>> /\ Len(t) = N + 1 /\ N \in Nat /\ N > 0 /\ t[N + 1] = x
        /\ \A i \in 1 .. N : t[i] = s[i]
    <3> DEFINE U == Seq(T)
    <3>1. s \in Seq(U) /\ x \in U
      OBVIOUS
    <3> HIDE DEF U
    <3>2. t \in Seq(U) /\ Len(t) = N + 1 /\ N \in Nat /\ N > 0
      BY <1>2, <3>1
    <3>3. t[N + 1] = x /\ \A i \in 1 .. N : t[i] = s[i]
      BY <1>2, <3>1
    <3>4. t # <<>>
      BY <3>2
    <3> QED BY <3>2, <3>3, <3>4 DEF U
  <2> HIDE DEF t, N
  <2>2. PICK f : /\ FlattenSeq(s) = f[N] /\ f[1] = s[1]
                 /\ \A i \in 1 .. N - 1 : f[i + 1] = f[i] \o s[i + 1]
    BY <1>2, FlattenSteps DEF N
  <2>3. PICK h : /\ FlattenSeq(t) = h[Len(t)] /\ h[1] = t[1]
                 /\ \A i \in 1 .. Len(t) - 1 : h[i + 1] = h[i] \o t[i + 1]
    BY <2>1, FlattenSteps
  <2> DEFINE B == {n \in Nat : n \in 1 .. N => f[n] = h[n]}
  <2>4. 0 \in B
    OBVIOUS
  <2>5. ASSUME NEW n \in Nat, n \in B PROVE n + 1 \in B
    <3>1. CASE n + 1 = 1
      BY <2>1, <2>2, <2>3, <3>1
    <3>2. CASE n + 1 \in 2 .. N
      <4> DEFINE m == n + 1
      <4>1. n \in 1 .. N /\ n \in 1 .. N - 1 /\ n \in 1 .. Len(t) - 1 /\ m \in 1 .. N
        BY <2>1, <3>2
      <4>2. f[m] = f[n] \o s[m] /\ h[m] = h[n] \o t[m]
        BY <2>2, <2>3, <4>1
      <4>3. t[m] = s[m] /\ f[n] = h[n]
        BY <2>1, <2>5, <4>1
      <4>4. f[m] = h[m]
        BY <4>2, <4>3
      <4> QED BY <4>4
    <3>3. CASE n + 1 \notin 1 .. N
      BY <3>3
    <3>4. n + 1 = 1 \/ n + 1 \in 2 .. N \/ n + 1 \notin 1 .. N
      BY <2>1
    <3> HIDE DEF B
    <3> QED BY <3>1, <3>2, <3>3, <3>4
  <2>6. Nat \subseteq B
    <3> HIDE DEF B
    <3> QED BY <2>4, <2>5, Flattening!Induction
  <2>7. N \in 1 .. N /\ N \in 1 .. Len(t) - 1 /\ Len(t) = N + 1
    BY <2>1
  <2>8. h[N + 1] = h[N] \o t[N + 1]
    BY <2>3, <2>7
  <2>9. f[N] = h[N]
    BY <2>6, <2>7
  <2> QED BY <2>1, <2>2, <2>3, <2>7, <2>8, <2>9 DEF t
<1> QED BY <1>1, <1>2

-----------------------------------------------------------------------------
(* Whose a line is and for which level, from one line to the next. *)
LEMMA LastNext ==
  ASSUME NEW i \in Nat, NEW S \in SUBSET (1 .. i)
  PROVE  Max(S \cup {i + 1}) = i + 1
<1>1. i + 1 \in S \cup {i + 1} /\ \A y \in S \cup {i + 1} : y \in Nat /\ y <= i + 1
  OBVIOUS
<1> DEFINE q == S \cup {i + 1}
           j == i + 1
<1>2. j \in q /\ \A y \in q : y \in Nat /\ y <= j
  BY <1>1
<1> HIDE DEF q, j
<1>3. \E x \in q : \A y \in q : x >= y
  BY <1>2
<1>4. Max(q) \in q /\ \A y \in q : Max(q) >= y
  BY <1>3 DEF Max
<1>5. \A x \in Nat : x >= j /\ x <= j => x = j
  BY <1>2
<1>6. Max(q) \in Nat /\ Max(q) >= j /\ Max(q) <= j
  BY <1>2, <1>4
<1> QED BY <1>5, <1>6 DEF q, j

(* Whose the next line is. *)
LEMMA OwnerNext ==
  ASSUME NEW f, NEW i \in Nat
  PROVE  Owner(f, i + 1) = IF Header(f[i + 1]) THEN getLogger(Tail(Core(f[i + 1]))) ELSE Owner(f, i)
<1> DEFINE hs == {h \in 1 .. i : Header(f[h])}
           next == {h \in 1 .. i + 1 : Header(f[h])}
<1>1. CASE Header(f[i + 1])
  <2>1. next = hs \cup {i + 1}
    BY <1>1
  <2>2. hs \in SUBSET (1 .. i)
    OBVIOUS
  <2> HIDE DEF hs
  <2>3. Max(next) = i + 1 /\ next # {}
    BY <2>1, <2>2, LastNext
  <2> HIDE DEF next
  <2>4. Owner(f, i + 1) = getLogger(Tail(Core(f[Max(next)])))
    BY <2>3, Zenon DEF Owner, next
  <2> QED BY <1>1, <2>3, <2>4
<1>2. CASE ~Header(f[i + 1])
  <2>1. next = hs
    BY <1>2
  <2> QED BY <1>2, <2>1 DEF Owner
<1> QED BY <1>1, <1>2

(* The level the next line stands under. *)
LEMMA LevelNext ==
  ASSUME NEW f, NEW i \in Nat
  PROVE  LevelAt(f, i + 1) = IF Header(f[i + 1]) THEN Unknown
                             ELSE IF isLevel(f[i + 1]) THEN convertLevel(<<f[i + 1][2]>>)
                             ELSE LevelAt(f, i)
<1> DEFINE P(h) == Header(f[h]) \/ isLevel(f[h])
           hs == {h \in 1 .. i : P(h)}
           next == {h \in 1 .. i + 1 : P(h)}
<1>1. CASE P(i + 1)
  <2>1. next = hs \cup {i + 1}
    BY <1>1
  <2>2. hs \in SUBSET (1 .. i)
    OBVIOUS
  <2> HIDE DEF hs
  <2>3. Max(next) = i + 1 /\ next # {}
    BY <2>1, <2>2, LastNext
  <2> HIDE DEF next
  <2>4. LevelAt(f, i + 1) = IF Header(f[Max(next)]) THEN Unknown ELSE convertLevel(<<f[Max(next)][2]>>)
    BY <2>3, Zenon DEF LevelAt, next
  <2> QED BY <1>1, <2>3, <2>4
<1>2. CASE ~P(i + 1)
  <2>1. next = hs
    BY <1>2
  <2> QED BY <1>2, <2>1 DEF LevelAt
<1> QED BY <1>1, <1>2

(* Before the first line there is no owner and no level. *)
LEMMA NobodyFirst == ASSUME NEW f PROVE Owner(f, 0) = NoLogger /\ LevelAt(f, 0) = Unknown
<1>1. 1 .. 0 = {}
  OBVIOUS
<1> QED BY <1>1 DEF Owner, LevelAt

-----------------------------------------------------------------------------
(* How the lines of a section are read. *)
LineRead(p, st, line) == parseLine(line, st)
Lining == INSTANCE Loops WITH Op <- LineRead
Unread == [level |-> Unknown, settings |-> <<>>, ok |-> FALSE]

(* The parser goes through its lines. *)
LEMMA ParseIsFold == ASSUME NEW lines PROVE parseFromText(lines) = Lining!Fold(0, Unread, lines)
BY DEF parseFromText, Unread, LineRead, Lining!Fold, FoldLeft, MapThenFoldSet, Lining!MapThenFoldSet, Max, Lining!Max

(* The parser reads one more line. *)
LEMMA ParseNext ==
  ASSUME NEW lines \in Seq(Text), NEW line \in Text
  PROVE  parseFromText(Append(lines, line)) = parseLine(line, parseFromText(lines))
<1> DEFINE one == <<line>>
<1>1. Append(lines, line) = lines \o one /\ one \in Seq(Text)
  OBVIOUS
<1>2. Lining!Fold(0, Unread, one) = LineRead(0, Unread, line)
  BY Lining!FoldOne
<1>3. Lining!Fold(0, Lining!Fold(0, Unread, lines), one) = LineRead(0, Lining!Fold(0, Unread, lines), line)
  BY Lining!FoldOne
<1> HIDE DEF one
<1>4. Lining!Fold(0, Unread, lines \o one) = Lining!Fold(0, Lining!Fold(0, Unread, lines), one)
  BY <1>1, Lining!FoldConcat
<1> QED BY <1>1, <1>3, <1>4, ParseIsFold DEF LineRead

(* No lines leave the parser as it began. *)
LEMMA ParseNone == parseFromText(<<>>) = Unread
BY Lining!FoldNone, ParseIsFold

Word == STRING

(* Texts are sequences of words. *)
LEMMA TextsOfWords == Text = Seq(Word)
BY DEF Text, Word

(* A sequence of one. *)
LEMMA OneOf ==
  ASSUME NEW T, NEW x \in T
  PROVE  /\ <<x>> \in Seq(T) /\ Len(<<x>>) = 1 /\ <<x>>[1] = x
         /\ \A j \in 1 .. Len(<<x>>) : <<x>>[j] = x
OBVIOUS

(* The three parts of a setting. *)
LEMMA ThreeOf ==
  ASSUME NEW T, NEW c \in Seq(T), Len(c) = 3
  PROVE  /\ c[1] \in T /\ c[2] \in T /\ c[3] \in T
         /\ SubSeq(c, 1, 1) = <<c[1]>> /\ SubSeq(c, 2, 2) = <<c[2]>> /\ SubSeq(c, 3, 3) = <<c[3]>>
         /\ c # <<>>
<1>1. 1 \in 1 .. Len(c) /\ 2 \in 1 .. Len(c) /\ 3 \in 1 .. Len(c)
  OBVIOUS
<1>5. \A i \in 1 .. Len(c) : c[i] \in T
  OBVIOUS
<1>3. c[1] \in T /\ c[2] \in T /\ c[3] \in T
  BY <1>1, <1>5
<1>4. c # <<>>
  OBVIOUS
<1>2. ASSUME NEW i \in 1 .. 3 PROVE SubSeq(c, i, i) = <<c[i]>>
  <2> DEFINE s == SubSeq(c, i, i)
             t == <<c[i]>>
  <2>1. s \in Seq(T) /\ Len(s) = 1 /\ s[1] = c[i]
    OBVIOUS
  <2>2. t \in Seq(T) /\ Len(t) = 1 /\ t[1] = c[i]
    OBVIOUS
  <2> HIDE DEF s, t
  <2>3. s = t
    BY <2>1, <2>2
  <2> QED BY <2>3 DEF s, t
<1> QED BY <1>2, <1>3, <1>4

OldName == "MILLISECONDS_WIDTH"
IsId(c) == Len(c) = 2 /\ c[1] = LoggerMark
IsLevelLine(c) == Len(c) = 3 /\ c[1] = LevelMark
IsSetting(c) == Len(c) = 3 /\ c[2] = EqualSign /\ c[1] \notin {LoggerMark, LevelMark, OldName}

Level == Word \cup {Unknown}
Triples == Level \X Word \X Text
Reader == [level : Level, settings : Seq(Triples), ok : BOOLEAN]

(* A bare line without a comment is read as it is. *)
LEMMA Whole ==
  ASSUME NEW c, Uncommented(c, Len(c))
  PROVE  /\ isComment(trim(c)) <=> FALSE
         /\ trim(ignoreComments(trim(c))) = c
         /\ trim(c) = c
<1>1. Len(c) \in Nat /\ c \in Text
  BY BareCounts DEF Uncommented
<1>2. ~(Len(c) = 0 /\ Len(c) > 0)
  BY <1>1
<1> QED BY <1>1, <1>2, LineStripped, WholeText, TrimBare

(* The empty line is bare. *)
LEMMA EmptyIsBare == Uncommented(<<>>, Len(<<>>)) /\ Len(<<>>) = 0 /\ <<>> \in Text
BY DEF Uncommented, Text

(* The empty line changes nothing. *)
LEMMA EmptyRead ==
  ASSUME NEW st \in Reader
  PROVE  parseLine(<<>>, st) = [st EXCEPT !.ok = TRUE]
BY EmptyIsBare, Whole, Zenon DEF parseLine

(* One character that is no space is kept. *)
LEMMA TrimOne ==
  ASSUME NEW x, x \in Word, x # Space
  PROVE  trim(<<x>>) = <<x>>
<1> DEFINE s == <<x>>
<1>1. s \in Text /\ Len(s) = 1 /\ s[1] = x
  BY OneOf, TextsOfWords
<1> HIDE DEF s
<1>2. trim(s) = SubSeq(s, 1, 1)
  <2>1. 1 \in 1 .. Len(s) /\ (\A i \in 1 .. 1 - 1 : s[i] = Space) /\ \A i \in 1 + 1 .. Len(s) : s[i] = Space
    BY <1>1
  <2> QED BY <1>1, <2>1, TrimIs
<1> QED BY <1>1, <1>2, WholeText DEF s

(* A word stands for a level or for none. *)
LEMMA LevelType == ASSUME NEW x \in Word PROVE convertLevel(<<x>>) \in Level
<1>1. convertLevel(<<x>>) = x \/ convertLevel(<<x>>) = Unknown
  BY DEF convertLevel, Named
<1> QED BY <1>1 DEF Level

(* The line of a level. *)
LEMMA LevelRead ==
  ASSUME NEW c, Uncommented(c, Len(c)), IsLevelLine(c), NEW st \in Reader
  PROVE  /\ parseLine(c, st) \in Reader
         /\ parseLine(c, st).level = convertLevel(<<c[2]>>)
         /\ parseLine(c, st).settings = st.settings
<1> DEFINE on == [st EXCEPT !.ok = TRUE]
<1>0. c \in Seq(Word) /\ Len(c) = 3 /\ c[1] = LevelMark
  BY TextsOfWords DEF Uncommented, IsLevelLine
<1>1. Len(c) = 3 /\ c[1] = LevelMark /\ c[2] \in Word /\ SubSeq(c, 2, 2) = <<c[2]>>
  BY <1>0, ThreeOf
<1>2. c[2] # Space
  BY <1>1 DEF Uncommented
<1>3. isLevel(c) /\ c # <<>>
  BY <1>1 DEF isLevel, startsWith
<1>4. parseLine(c, st) = LevelLine(c, on)
  BY <1>3, Whole, Zenon DEF parseLine
<1>5. SubSeq(c, 2, Len(c) - 1) = <<c[2]>>
  BY <1>1
<1>6. LevelLine(c, on) = [on EXCEPT !.level = convertLevel(<<c[2]>>)]
  <2>1. ~(Len(c) <= 2)
    BY <1>1
  <2>2. trim(<<c[2]>>) = <<c[2]>>
    BY <1>1, <1>2, TrimOne
  <2> QED BY <1>5, <2>1, <2>2 DEF LevelLine
<1>7. on \in Reader /\ on.settings = st.settings
  BY DEF Reader
<1>8. convertLevel(<<c[2]>>) \in Level
  BY <1>1, LevelType
<1> HIDE DEF on
<1> QED BY <1>4, <1>6, <1>7, <1>8 DEF Reader

(* The key that a word stands for. *)
LEMMA KeyOf ==
  ASSUME NEW x \in Word, x # OldName
  PROVE  convertConfig(<<x>>) = IF x \in ConfigNames THEN x ELSE Unknown
<1>1. Named(<<x>>, ConfigNames) = IF x \in ConfigNames THEN x ELSE Unknown
  BY DEF Named
<1>2. Unknown # OldName
  BY DEF Unknown, OldName
<1>3. convertConfig(<<x>>) = LET name == Named(<<x>>, ConfigNames)
                             IN  IF name = OldName THEN "SUBSECOND_PRECISION" ELSE name
  BY Zenon DEF convertConfig, OldName
<1> HIDE DEF ConfigNames, OldName, Unknown
<1> QED BY <1>1, <1>2, <1>3

(* No key is the unknown one. *)
LEMMA NameKnown == Unknown \notin ConfigNames
BY DEF Unknown, ConfigNames

(* A value without quotes is read as it is. *)
LEMMA ValueOfOne ==
  ASSUME NEW x \in Word, x # Quote
  PROVE  Value(<<x>>) = <<x>>
<1> DEFINE s == <<x>>
<1>1. \A j \in 1 .. Len(s) : s[j] # Quote
  BY OneOf
<1> HIDE DEF s
<1>2. find(s, Quote, 1) = 0
  BY <1>1, FindNone
<1>3. Value(s) = s
  BY <1>2 DEF Value
<1> QED BY <1>3 DEF s

(* The line of a setting. *)
LEMMA SettingRead ==
  ASSUME NEW c, Uncommented(c, Len(c)), IsSetting(c), NEW st \in Reader
  PROVE  /\ parseLine(c, st) \in Reader
         /\ parseLine(c, st).level = st.level
         /\ parseLine(c, st).settings =
              IF st.level # Unknown /\ c[1] \in ConfigNames
                THEN Append(st.settings, <<st.level, c[1], <<c[3]>>>>)
              ELSE st.settings
<1> DEFINE on == [st EXCEPT !.ok = TRUE]
           key == IF c[1] \in ConfigNames /\ c[1] # EqualSign THEN c[1] ELSE Unknown
<1>1. c \in Seq(Word) /\ Len(c) = 3 /\ c[2] = EqualSign
  BY TextsOfWords DEF Uncommented, IsSetting
<1>2. c[1] \in Word /\ c[2] \in Word /\ c[3] \in Word
      /\ SubSeq(c, 1, 1) = <<c[1]>> /\ SubSeq(c, 3, 3) = <<c[3]>>
  BY <1>1, ThreeOf
<1>3. c[1] # Space /\ c[3] # Space /\ c[3] # Quote /\ c[1] # Quote /\ c[1] # OldName /\ c[1] # LevelMark
  BY <1>1 DEF Uncommented, IsSetting
<1>4. ~isLevel(c) /\ c # <<>>
  BY <1>1, <1>3 DEF isLevel, startsWith
<1>5. parseLine(c, st) = ConfigLine(c, on)
  BY <1>4, Whole, Zenon DEF parseLine
<1>6. EqualSign \notin ConfigNames
  BY Zenon DEF EqualSign, ConfigNames
<1> DEFINE at == find(c, EqualSign, 1)
           config == IF isConfig(c) THEN convertConfig(trim(SubSeq(c, 1, at - 1))) ELSE Unknown
<1>7. ConfigLine(c, on) =
        IF on.level = Unknown \/ config = Unknown THEN [on EXCEPT !.ok = FALSE]
        ELSE [on EXCEPT !.settings = Append(@, <<on.level, config, Value(trim(SubSeq(c, at + 1, Len(c))))>>)]
  BY Zenon DEF ConfigLine, EqualSign
<1>8. isConfig(c) <=> c[1] \notin {Quote, EqualSign, Space} /\ at # 0
  <2>1. isConfig(c) <=> Len(c) > 0 /\ c[1] \notin {Quote, EqualSign, Space} /\ at # 0
    BY Zenon DEF isConfig, EqualSign, Space
  <2>2. Len(c) > 0
    BY <1>1
  <2> QED BY <2>1, <2>2
<1>9. on \in Reader /\ on.settings = st.settings /\ on.level = st.level
  BY DEF Reader
<1> HIDE DEF on
<1>10. CASE c[1] = EqualSign
  <2>1. config = Unknown
    BY <1>8, <1>10
  <2>2. ConfigLine(c, on) = [on EXCEPT !.ok = FALSE]
    BY <1>7, <2>1
  <2> QED BY <1>5, <1>6, <1>9, <1>10, <2>2 DEF Reader
<1>11. CASE c[1] # EqualSign
  <2>1. at = 2
    <3>1. 2 \in 1 .. Len(c) /\ \A j \in 1 .. 2 - 1 : c[j] # EqualSign
      BY <1>1, <1>11
    <3>2. 1 \in Nat /\ c[2] = EqualSign
      BY <1>1
    <3> QED BY <1>1, <3>1, <3>2, FindAt
  <2>2. SubSeq(c, 1, at - 1) = <<c[1]>> /\ SubSeq(c, at + 1, Len(c)) = <<c[3]>>
    <3>1. at - 1 = 1 /\ at + 1 = 3 /\ Len(c) = 3
      BY <1>1, <2>1
    <3> QED BY <1>2, <3>1
  <2>3. isConfig(c)
    BY <1>3, <1>8, <1>11, <2>1
  <2>4. config = IF c[1] \in ConfigNames THEN c[1] ELSE Unknown
    <3> HIDE DEF at
    <3> QED BY <1>2, <1>3, <2>2, <2>3, TrimOne, KeyOf
  <2>5. Value(trim(SubSeq(c, at + 1, Len(c)))) = <<c[3]>>
    BY <1>2, <1>3, <2>2, TrimOne, ValueOfOne
  <2> HIDE DEF config, at
  <2>6. ConfigLine(c, on) =
          IF on.level = Unknown \/ c[1] \notin ConfigNames THEN [on EXCEPT !.ok = FALSE]
          ELSE [on EXCEPT !.settings = Append(@, <<on.level, c[1], <<c[3]>>>>)]
    BY <1>7, <2>4, <2>5, NameKnown
  <2>7. <<on.level, c[1], <<c[3]>>>> \in Triples
    <3>1. <<c[3]>> \in Text /\ on.level \in Level
      BY <1>2, <1>9, OneOf, TextsOfWords DEF Reader
    <3> QED BY <1>2, <3>1 DEF Triples
  <2>8. CASE on.level = Unknown \/ c[1] \notin ConfigNames
    BY <1>5, <1>9, <2>6, <2>8 DEF Reader
  <2>9. CASE ~(on.level = Unknown \/ c[1] \notin ConfigNames)
    <3> DEFINE x == <<on.level, c[1], <<c[3]>>>>
    <3>1. x \in Triples /\ ConfigLine(c, on) = [on EXCEPT !.settings = Append(@, x)]
      BY <2>6, <2>7, <2>9
    <3>2. Append(on.settings, x) = Append(st.settings, <<st.level, c[1], <<c[3]>>>>)
      BY <1>9
    <3> HIDE DEF x
    <3>3. on.settings \in Seq(Triples) /\ Append(on.settings, x) \in Seq(Triples)
      BY <1>9, <3>1 DEF Reader
    <3>4. [on EXCEPT !.settings = Append(@, x)] \in Reader
      BY <1>9, <3>3 DEF Reader
    <3>5. /\ [on EXCEPT !.settings = Append(@, x)].settings = Append(on.settings, x)
          /\ [on EXCEPT !.settings = Append(@, x)].level = on.level
      BY <1>9 DEF Reader
    <3> QED BY <1>5, <1>9, <2>9, <3>1, <3>2, <3>4, <3>5
  <2> QED BY <2>8, <2>9
<1> QED BY <1>10, <1>11

-----------------------------------------------------------------------------
(* The lines of a global file. *)
Globally(p, st, line) == GlobalLine(st, line)
Globals == INSTANCE Loops WITH Op <- Globally
Nobody == [done |-> <<>>, lines |-> <<>>, logger |-> NoLogger]

Results == Ids \X Seq(Triples)
Configurer == [done : Seq(Results), lines : Seq(Text), logger : Ids \cup {NoLogger}]

DoneOf(d, l) == FlattenSeq([i \in DOMAIN d |-> IF d[i][1] = l THEN d[i][2] ELSE <<>>])
ItemOf(f, j, l) == IF Says(f, j, l) THEN <<<<LevelAt(f, j), f[j][1], <<f[j][3]>>>>>> ELSE <<>>
SaidTo(f, i, l) == FlattenSeq([j \in 1 .. i |-> ItemOf(f, j, l)])

(* A sequence with one more element, place by place. *)
LEMMA AppendIs ==
  ASSUME NEW U, NEW s \in Seq(U), NEW y \in U, NEW t,
         t \in [1 .. Len(s) + 1 -> U],
         t[Len(s) + 1] = y, \A i \in 1 .. Len(s) : t[i] = s[i]
  PROVE  t = Append(s, y)
<1> DEFINE n == Len(s) + 1
           u == Append(s, y)
<1>1. t \in Seq(U) /\ Len(t) = n /\ n \in Nat
  OBVIOUS
<1>2. u \in Seq(U) /\ Len(u) = n /\ u[n] = y
  OBVIOUS
<1>3. \A i \in 1 .. Len(s) : u[i] = s[i]
  OBVIOUS
<1>4. \A i \in 1 .. n : i \in 1 .. Len(s) \/ i = n
  OBVIOUS
<1>5. \A i \in 1 .. n : t[i] = u[i]
  BY <1>2, <1>3, <1>4
<1> HIDE DEF n, u
<1>6. t = u
  BY <1>1, <1>2, <1>5
<1> QED BY <1>6 DEF u

(* What a logger has, after one more result. *)
LEMMA DoneNext ==
  ASSUME NEW d \in Seq(Results), NEW x \in Results, NEW l
  PROVE  DoneOf(Append(d, x), l) = DoneOf(d, l) \o (IF x[1] = l THEN x[2] ELSE <<>>)
<1> DEFINE s == [i \in DOMAIN d |-> IF d[i][1] = l THEN d[i][2] ELSE <<>>]
           e == Append(d, x)
           t == [i \in DOMAIN e |-> IF e[i][1] = l THEN e[i][2] ELSE <<>>]
           y == IF x[1] = l THEN x[2] ELSE <<>>
           T == Triples
           R == Results
<1>1. \A z \in R : z[2] \in Seq(T)
  BY DEF Results
<1>2. <<>> \in Seq(T)
  OBVIOUS
<1>3. x[2] \in Seq(T)
  BY <1>1
<1>4. y \in Seq(T)
  BY <1>2, <1>3
<1>5. d \in Seq(R) /\ x \in R
  OBVIOUS
<1> HIDE DEF T, R
<1>6. \A i \in DOMAIN d : d[i] \in R
  BY <1>5
<1>7. s \in Seq(Seq(T)) /\ Len(s) = Len(d)
  <2>1. DOMAIN d = 1 .. Len(d) /\ Len(d) \in Nat
    BY <1>5
  <2>2. \A i \in 1 .. Len(d) : (IF d[i][1] = l THEN d[i][2] ELSE <<>>) \in Seq(T)
    BY <1>1, <1>2, <1>6, <2>1
  <2>3. s \in [1 .. Len(d) -> Seq(T)]
    BY <2>1, <2>2
  <2> HIDE DEF s
  <2> QED BY <2>1, <2>3
<1>8. t = Append(s, y)
  <2>1. e \in Seq(R) /\ Len(e) = Len(d) + 1 /\ DOMAIN e = 1 .. Len(d) + 1 /\ Len(d) \in Nat
        /\ e[Len(d) + 1] = x /\ \A i \in 1 .. Len(d) : e[i] = d[i]
    BY <1>5
  <2>2. \A i \in 1 .. Len(d) : s[i] = (IF d[i][1] = l THEN d[i][2] ELSE <<>>)
    BY <1>5
  <2> HIDE DEF e, s, y
  <2>3. t[Len(d) + 1] = y
    <3>1. Len(d) + 1 \in 1 .. Len(d) + 1
      BY <2>1
    <3> QED BY <2>1, <3>1 DEF y
  <2>4. \A i \in 1 .. Len(d) : t[i] = s[i]
    <3> SUFFICES ASSUME NEW i \in 1 .. Len(d) PROVE t[i] = s[i]
      OBVIOUS
    <3>1. i \in DOMAIN e
      BY <2>1
    <3> QED BY <2>1, <2>2, <3>1
  <2>5. t \in [1 .. Len(d) + 1 -> Seq(T)]
    <3>1. \A i \in 1 .. Len(d) + 1 : e[i] \in R
      BY <2>1
    <3>2. \A i \in 1 .. Len(d) + 1 : (IF e[i][1] = l THEN e[i][2] ELSE <<>>) \in Seq(T)
      BY <1>1, <1>2, <3>1
    <3> QED BY <2>1, <3>2
  <2> HIDE DEF t
  <2> DEFINE U == Seq(T)
  <2>6. s \in Seq(U) /\ y \in U /\ t \in [1 .. Len(s) + 1 -> U] /\ t[Len(s) + 1] = y
        /\ \A i \in 1 .. Len(s) : t[i] = s[i]
    BY <1>4, <1>7, <2>3, <2>4, <2>5
  <2> HIDE DEF U
  <2> QED BY <2>6, AppendIs
<1> HIDE DEF s, t, y, e
<1>9. FlattenSeq(t) = FlattenSeq(s) \o y
  BY <1>4, <1>7, <1>8, FlattenAppend
<1> QED BY <1>9 DEF DoneOf, s, t, y, e

(* What a logger has is a sequence of settings. *)
LEMMA DoneType ==
  ASSUME NEW d \in Seq(Results), NEW l
  PROVE  DoneOf(d, l) \in Seq(Triples)
<1> DEFINE s == [i \in DOMAIN d |-> IF d[i][1] = l THEN d[i][2] ELSE <<>>]
           T == Triples
           R == Results
<1>1. \A z \in R : z[2] \in Seq(T)
  BY DEF Results
<1>2. d \in Seq(R)
  OBVIOUS
<1> HIDE DEF T, R
<1>3. \A i \in DOMAIN d : d[i] \in R
  BY <1>2
<1>4. s \in Seq(Seq(T))
  <2>1. DOMAIN d = 1 .. Len(d) /\ Len(d) \in Nat
    BY <1>2
  <2>2. \A i \in 1 .. Len(d) : (IF d[i][1] = l THEN d[i][2] ELSE <<>>) \in Seq(T)
    BY <1>1, <1>3, <2>1
  <2>3. s \in [1 .. Len(d) -> Seq(T)]
    BY <2>1, <2>2
  <2> HIDE DEF s
  <2> QED BY <2>1, <2>3
<1> HIDE DEF s
<1>5. FlattenSeq(s) \in Seq(T)
  BY <1>4, FlattenType
<1> QED BY <1>5 DEF DoneOf, s, T

(* What a file says of a logger, after one more line. *)
LEMMA SaidNext ==
  ASSUME NEW f, NEW i \in Nat, NEW l, \A j \in 1 .. i + 1 : ItemOf(f, j, l) \in Seq(Triples)
  PROVE  SaidTo(f, i + 1, l) = SaidTo(f, i, l) \o ItemOf(f, i + 1, l)
<1> DEFINE T == Triples
           item == [j \in 1 .. i + 1 |-> ItemOf(f, j, l)]
           s == [j \in 1 .. i |-> ItemOf(f, j, l)]
           y == ItemOf(f, i + 1, l)
<1>1. \A j \in 1 .. i + 1 : ItemOf(f, j, l) \in Seq(T)
  OBVIOUS
<1> HIDE DEF T
<1>2. y \in Seq(T) /\ s \in [1 .. i -> Seq(T)]
  BY <1>1
<1>3. s \in Seq(Seq(T)) /\ Len(s) = i
  <2> HIDE DEF s
  <2> QED BY <1>2
<1>4. item = Append(s, y)
  <2>1. item[i + 1] = y /\ \A j \in 1 .. i : item[j] = s[j]
    OBVIOUS
  <2>2. item \in [1 .. i + 1 -> Seq(T)]
    BY <1>1
  <2> HIDE DEF item, s, y
  <2> DEFINE U == Seq(T)
  <2>3. s \in Seq(U) /\ y \in U /\ item \in [1 .. Len(s) + 1 -> U] /\ item[Len(s) + 1] = y
        /\ \A j \in 1 .. Len(s) : item[j] = s[j]
    BY <1>2, <1>3, <2>1, <2>2
  <2> HIDE DEF U
  <2> QED BY <2>3, AppendIs
<1> HIDE DEF s, y, item
<1>5. FlattenSeq(item) = FlattenSeq(s) \o y
  BY <1>2, <1>3, <1>4, FlattenAppend
<1> QED BY <1>5 DEF SaidTo, s, y, item

(* No logger has no id. *)
LEMMA NoLoggerIsNone == NoLogger \notin Ids
BY DEF NoLogger, Ids, Letters

(* No key is a mark. *)
LEMMA KeysAreNoMarks ==
  /\ Comment \notin ConfigNames /\ LoggerMark \notin ConfigNames /\ LevelMark \notin ConfigNames
BY Zenon DEF Comment, LoggerMark, LevelMark, ConfigNames

(* Nothing is put behind. *)
LEMMA NothingMore ==
  ASSUME NEW T, NEW s \in Seq(T)
  PROVE  s \o <<>> = s
OBVIOUS

(* The lines of a file that can be understood. *)
LEMMA Shapes ==
  ASSUME NEW line, Understood(line)
  PROVE  /\ Core(line) \in Text /\ Uncommented(Core(line), Len(Core(line)))
         /\ trim(ignoreComments(trim(line))) = Core(line)
         /\ isComment(trim(line)) <=> line # <<>> /\ Core(line) = <<>>
         /\ \A i \in 1 .. Len(Core(line)) : Core(line)[i] = line[i]
         /\ \/ Core(line) = <<>> /\ (line # <<>> => line[1] = Comment)
            \/ IsId(Core(line)) \/ IsLevelLine(Core(line)) \/ IsSetting(Core(line))
<1> DEFINE c == Core(line)
<1>1. PICK k : Uncommented(line, k) /\ c = SubSeq(line, 1, k) /\ Len(c) = k
  BY UnderstoodIsBare
<1>2. line \in Text /\ Len(line) \in Nat /\ k \in Nat /\ k <= Len(line)
  BY <1>1, BareCounts DEF Uncommented
<1>3. c \in Text /\ \A i \in 1 .. k : c[i] = line[i]
  <2>1. k \in 0 .. Len(line)
    BY <1>2
  <2> HIDE DEF c
  <2> QED BY <1>1, <1>2, <2>1, Begun
<1>4. trim(ignoreComments(trim(line))) = c
  BY <1>1, LineStripped
<1>5. isComment(trim(line)) <=> k = 0 /\ Len(line) > 0
  BY <1>1, LineStripped
<1>6. (line = <<>> <=> Len(line) = 0) /\ (c = <<>> <=> k = 0)
  <2>1. ASSUME NEW s \in Text PROVE s = <<>> <=> Len(s) = 0
    BY DEF Text
  <2> QED BY <1>1, <1>2, <1>3, <2>1
<1>7. Uncommented(c, Len(c))
  <2>1. \A i \in 1 .. k : c[i] # Space /\ c[i] # Comment /\ c[i] # Quote
    <3>1. \A i \in 1 .. k : i \in 1 .. Len(line)
      BY <1>2
    <3> QED BY <1>1, <1>3, <3>1 DEF Uncommented
  <2>2. k \in 0 .. k
    BY <1>2
  <2> HIDE DEF c
  <2> QED BY <1>1, <1>3, <2>1, <2>2 DEF Uncommented
<1>8. \/ c = <<>>
      \/ IsId(c) \/ IsLevelLine(c) \/ IsSetting(c)
  BY Zenon DEF Understood, IsId, IsLevelLine, IsSetting, EqualSign, OldName
<1>9. c = <<>> /\ line # <<>> => line[1] = Comment
  <2> SUFFICES ASSUME c = <<>>, line # <<>> PROVE line[1] = Comment
    OBVIOUS
  <2>1. k = 0 /\ Len(line) # 0
    BY <1>6
  <2>2. Len(line) = k \/ line[k + 1] = Comment
    BY <1>1 DEF Uncommented
  <2> QED BY <2>1, <2>2
<1>10. isComment(trim(line)) <=> line # <<>> /\ c = <<>>
  BY <1>2, <1>5, <1>6
<1> HIDE DEF c
<1>11. \A i \in 1 .. Len(c) : c[i] = line[i]
  BY <1>1, <1>3
<1> QED BY <1>3, <1>4, <1>7, <1>8, <1>9, <1>10, <1>11 DEF c

(* What follows the mark of a header. *)
LEMMA TailOfTwo ==
  ASSUME NEW T, NEW c \in Seq(T), Len(c) = 2
  PROVE  Tail(c) = <<c[2]>>
<1> DEFINE t == Tail(c)
           u == <<c[2]>>
<1>1. t \in Seq(T) /\ Len(t) = 1 /\ t[1] = c[2]
  OBVIOUS
<1>2. u \in Seq(T) /\ Len(u) = 1 /\ u[1] = c[2]
  OBVIOUS
<1> HIDE DEF t, u
<1>3. t = u
  BY <1>1, <1>2
<1> QED BY <1>3 DEF t, u

(* And which of them each test of the readers finds. *)
LEMMA Tests ==
  ASSUME NEW line, Understood(line)
  PROVE  LET c == Core(line)
         IN  /\ c = <<>> => ~Header(line) /\ ~isLevel(line) /\ (line # <<>> => line[1] \notin ConfigNames)
             /\ IsId(c) => /\ Header(line) /\ line # <<>> /\ line[1] \notin ConfigNames
                           /\ line[2] \in Word /\ line[2] = c[2] /\ line[2] # Space
                           /\ Tail(c) = <<line[2]>> /\ startsWith(c, LoggerMark) /\ Len(c) > 1
             /\ IsLevelLine(c) => /\ ~Header(line) /\ isLevel(line) /\ line[1] \notin ConfigNames
                                  /\ line[2] \in Word /\ line[2] = c[2] /\ ~startsWith(c, LoggerMark)
             /\ IsSetting(c) => /\ ~Header(line) /\ ~isLevel(line) /\ line # <<>>
                                /\ line[1] = c[1] /\ line[3] = c[3]
                                /\ line[1] \in Word /\ line[3] \in Word /\ ~startsWith(c, LoggerMark)
<1> DEFINE c == Core(line)
<1>1. line \in Seq(Word) /\ c \in Seq(Word) /\ \A i \in 1 .. Len(c) : c[i] = line[i]
  BY Shapes, TextsOfWords DEF Understood
<1>2. Uncommented(c, Len(c)) /\ (c = <<>> => (line # <<>> => line[1] = Comment))
  <2>1. IsId(c) \/ IsLevelLine(c) \/ IsSetting(c) => c # <<>>
    <3>1. Len(<<>>) = 0
      OBVIOUS
    <3> QED BY <3>1 DEF IsId, IsLevelLine, IsSetting
  <2> QED BY <2>1, Shapes
<1> HIDE DEF c
<1>3. \A m : Len(c) > 0 => (startsWith(line, m) <=> c[1] = m) /\ (startsWith(c, m) <=> c[1] = m) /\ line # <<>> /\ c[1] = line[1]
  <2> SUFFICES ASSUME NEW m, Len(c) > 0
               PROVE  (startsWith(line, m) <=> c[1] = m) /\ (startsWith(c, m) <=> c[1] = m)
                      /\ line # <<>> /\ c[1] = line[1]
    OBVIOUS
  <2>1. 1 \in 1 .. Len(c) /\ Len(c) \in Nat
    BY <1>1
  <2>2. c[1] = line[1]
    BY <1>1, <2>1
  <2>3. Len(line) > 0
    <3>1. line = <<>> => c = <<>>
      BY <1>1 DEF c, Core, find
    <3>2. c # <<>>
      BY <1>1
    <3>3. line # <<>>
      BY <3>1, <3>2
    <3> QED BY <1>1, <3>3
  <2>4. line # <<>>
    BY <1>1, <2>3
  <2> QED BY <2>2, <2>3, <2>4 DEF startsWith
<1>4. ASSUME c = <<>>
      PROVE  ~Header(line) /\ ~isLevel(line) /\ (line # <<>> => line[1] \notin ConfigNames)
  <2>1. Len(line) > 0 => line # <<>>
    BY <1>1
  <2> QED BY <1>2, <1>4, <2>1, Marks, KeysAreNoMarks DEF Header, isLevel, startsWith
<1>5. ASSUME IsId(c)
      PROVE  /\ Header(line) /\ line # <<>> /\ line[1] \notin ConfigNames
             /\ line[2] \in Word /\ line[2] = c[2] /\ line[2] # Space
             /\ Tail(c) = <<line[2]>> /\ startsWith(c, LoggerMark) /\ Len(c) > 1
  <2>1. Len(c) = 2 /\ c[1] = LoggerMark
    BY <1>5 DEF IsId
  <2>2. Len(c) > 0 /\ 2 \in 1 .. Len(c)
    BY <2>1
  <2>3. line[2] = c[2] /\ c[2] \in Word
    BY <1>1, <2>2
  <2>4. Tail(c) = <<c[2]>>
    BY <1>1, <2>1, TailOfTwo
  <2>5. c[2] # Space
    BY <1>2, <2>2 DEF Uncommented
  <2>6. Header(line) /\ line # <<>> /\ line[1] \notin ConfigNames /\ startsWith(c, LoggerMark)
    BY <1>3, <2>1, <2>2, KeysAreNoMarks DEF Header
  <2> QED BY <2>1, <2>3, <2>4, <2>5, <2>6
<1>6. ASSUME IsLevelLine(c)
      PROVE  /\ ~Header(line) /\ isLevel(line) /\ line[1] \notin ConfigNames
             /\ line[2] \in Word /\ line[2] = c[2] /\ ~startsWith(c, LoggerMark)
  <2>1. Len(c) = 3 /\ c[1] = LevelMark
    BY <1>6 DEF IsLevelLine
  <2>2. Len(c) > 0 /\ 2 \in 1 .. Len(c)
    BY <2>1
  <2>3. line[2] = c[2] /\ c[2] \in Word
    BY <1>1, <2>2
  <2> QED BY <1>3, <2>1, <2>2, <2>3, KeysAreNoMarks, Marks DEF Header, isLevel
<1>7. ASSUME IsSetting(c)
      PROVE  /\ ~Header(line) /\ ~isLevel(line) /\ line # <<>>
             /\ line[1] = c[1] /\ line[3] = c[3]
             /\ line[1] \in Word /\ line[3] \in Word /\ ~startsWith(c, LoggerMark)
  <2>1. Len(c) = 3 /\ c[1] # LevelMark /\ c[1] # LoggerMark
    BY <1>7 DEF IsSetting
  <2>2. Len(c) > 0 /\ 3 \in 1 .. Len(c) /\ 1 \in 1 .. Len(c)
    BY <2>1
  <2>3. line[3] = c[3] /\ c[3] \in Word /\ line[1] = c[1] /\ c[1] \in Word
    BY <1>1, <2>2
  <2> QED BY <1>3, <2>1, <2>2, <2>3 DEF Header, isLevel
<1> QED BY <1>4, <1>5, <1>6, <1>7 DEF c

(* Every line stands under a level or under none. *)
LEMMA LevelAtType ==
  ASSUME NEW f, NEW N \in Nat, \A i \in 1 .. N : Understood(f[i])
  PROVE  \A i \in 0 .. N : LevelAt(f, i) \in Level
<1> DEFINE B == {n \in Nat : n <= N => LevelAt(f, n) \in Level}
<1>1. Unknown \in Level
  BY DEF Level
<1>2. 0 \in B
  BY <1>1, NobodyFirst
<1>3. ASSUME NEW n \in Nat, n \in B PROVE n + 1 \in B
  <2> SUFFICES ASSUME n + 1 <= N PROVE LevelAt(f, n + 1) \in Level
    OBVIOUS
  <2>1. n + 1 \in 1 .. N /\ LevelAt(f, n) \in Level
    BY <1>3
  <2>2. isLevel(f[n + 1]) => f[n + 1][2] \in Word
    <3>1. Understood(f[n + 1])
      BY <2>1
    <3> QED BY <3>1, Shapes, Tests
  <2>3. isLevel(f[n + 1]) => convertLevel(<<f[n + 1][2]>>) \in Level
    BY <2>2, LevelType
  <2> QED BY <1>1, <2>1, <2>3, LevelNext
<1>4. Nat \subseteq B
  <2> HIDE DEF B
  <2> QED BY <1>2, <1>3, Flattening!Induction
<1> QED BY <1>4

(* What one line says is a sequence of settings. *)
LEMMA ItemType ==
  ASSUME NEW f, NEW N \in Nat, \A i \in 1 .. N : Understood(f[i]), NEW j \in 1 .. N, NEW l
  PROVE  ItemOf(f, j, l) \in Seq(Triples)
<1>1. <<>> \in Seq(Triples)
  OBVIOUS
<1>2. CASE Says(f, j, l)
  <2>1. f[j] # <<>> /\ f[j][1] \in ConfigNames /\ Understood(f[j])
    BY <1>2 DEF Says
  <2>2. f[j][1] \in Word /\ f[j][3] \in Word
    BY <2>1, Shapes, Tests
  <2>3. LevelAt(f, j) \in Level
    <3>1. j \in 0 .. N
      OBVIOUS
    <3> QED BY <3>1, LevelAtType
  <2>4. <<f[j][3]>> \in Text
    BY <2>2, OneOf, TextsOfWords
  <2> DEFINE x == <<LevelAt(f, j), f[j][1], <<f[j][3]>>>>
  <2>5. x \in Triples
    BY <2>2, <2>3, <2>4 DEF Triples
  <2>6. ItemOf(f, j, l) = <<x>>
    BY <1>2 DEF ItemOf
  <2> HIDE DEF x
  <2> QED BY <2>5, <2>6
<1>3. CASE ~Says(f, j, l)
  BY <1>1, <1>3 DEF ItemOf
<1> QED BY <1>2, <1>3

Want(f, i, l) == IF l = NoLogger THEN <<>> ELSE SaidTo(f, i, l)
Loggers == Ids \cup {NoLogger}

(* What has been understood of the first lines of a file. *)
Gathered(f, st, i) ==
  /\ st \in Configurer /\ parseFromText(st.lines) \in Reader
  /\ st.logger = Owner(f, i)
  /\ parseFromText(st.lines).level = LevelAt(f, i)
  /\ \A l \in Loggers : DoneOf(Configured(st), l) = Want(f, i, l)

Pending(st, l) == IF st.logger = l /\ l # NoLogger THEN parseFromText(st.lines).settings ELSE <<>>

(* A logger's section is applied when it ends. *)
LEMMA ConfiguredIs ==
  ASSUME NEW st \in Configurer, parseFromText(st.lines) \in Reader
  PROVE  /\ Configured(st) \in Seq(Results)
         /\ \A l \in Loggers : DoneOf(Configured(st), l) = DoneOf(st.done, l) \o Pending(st, l)
<1> DEFINE set == parseFromText(st.lines).settings
           x == <<st.logger, set>>
<1>1. st.done \in Seq(Results) /\ set \in Seq(Triples) /\ st.logger \in Loggers
  BY DEF Configurer, Reader, Loggers
<1>2. CASE st.lines = <<>> \/ st.logger = NoLogger
  <2>1. Configured(st) = st.done
    BY <1>2 DEF Configured
  <2>2. \A l \in Loggers : Pending(st, l) = <<>>
    BY <1>2, ParseNone DEF Pending, Unread
  <2>3. ASSUME NEW l PROVE DoneOf(st.done, l) \o <<>> = DoneOf(st.done, l)
    BY <1>1, DoneType, NothingMore
  <2> QED BY <1>1, <2>1, <2>2, <2>3
<1>3. CASE ~(st.lines = <<>> \/ st.logger = NoLogger)
  <2>1. Configured(st) = Append(st.done, x)
    BY <1>3 DEF Configured
  <2>2. x \in Results
    BY <1>1, <1>3 DEF Results, Loggers
  <2>3. x[1] = st.logger /\ x[2] = set
    OBVIOUS
  <2> HIDE DEF x
  <2>4. ASSUME NEW l \in Loggers PROVE DoneOf(Configured(st), l) = DoneOf(st.done, l) \o Pending(st, l)
    <3>1. DoneOf(Append(st.done, x), l) = DoneOf(st.done, l) \o (IF x[1] = l THEN x[2] ELSE <<>>)
      BY <1>1, <2>2, DoneNext
    <3>2. (IF x[1] = l THEN x[2] ELSE <<>>) = Pending(st, l)
      BY <1>3, <2>3 DEF Pending
    <3> QED BY <2>1, <3>1, <3>2
  <2>5. Configured(st) \in Seq(Results)
    <3> DEFINE R == Results
    <3>1. st.done \in Seq(R) /\ x \in R
      BY <1>1, <2>2
    <3> HIDE DEF R
    <3>2. Append(st.done, x) \in Seq(R)
      BY <3>1
    <3> QED BY <2>1, <3>2 DEF R
  <2> QED BY <2>4, <2>5
<1> QED BY <1>2, <1>3

(* What a logger should have, after one more line. *)
LEMMA WantNext ==
  ASSUME NEW f, NEW N \in Nat, \A i \in 1 .. N : Understood(f[i]), NEW i \in 0 .. N - 1, NEW l \in Loggers
  PROVE  /\ Want(f, i + 1, l) = Want(f, i, l) \o (IF l = NoLogger THEN <<>> ELSE ItemOf(f, i + 1, l))
         /\ Want(f, i, l) \in Seq(Triples)
<1>1. CASE l = NoLogger
  <2>1. <<>> \in Seq(Triples) /\ <<>> \o <<>> = <<>>
    OBVIOUS
  <2> QED BY <1>1, <2>1 DEF Want
<1>2. CASE l # NoLogger
  <2>1. \A j \in 1 .. N : ItemOf(f, j, l) \in Seq(Triples)
    BY ItemType
  <2>2. i \in Nat /\ \A j \in 1 .. i + 1 : ItemOf(f, j, l) \in Seq(Triples)
    BY <2>1
  <2>3. SaidTo(f, i + 1, l) = SaidTo(f, i, l) \o ItemOf(f, i + 1, l)
    BY <2>2, SaidNext
  <2>4. SaidTo(f, i, l) \in Seq(Triples)
    <3> DEFINE s == [j \in 1 .. i |-> ItemOf(f, j, l)]
               T == Triples
    <3>1. \A j \in 1 .. i : ItemOf(f, j, l) \in Seq(T)
      BY <2>2
    <3> HIDE DEF T
    <3>2. s \in [1 .. i -> Seq(T)]
      BY <3>1
    <3> HIDE DEF s
    <3>3. s \in Seq(Seq(T))
      BY <2>2, <3>2
    <3>4. FlattenSeq(s) \in Seq(T)
      BY <3>3, FlattenType
    <3> QED BY <3>4 DEF SaidTo, s, T
  <2> QED BY <1>2, <2>3, <2>4 DEF Want
<1> QED BY <1>1, <1>2

(* A line that does not start a section goes to the one there is. *)
LEMMA SectionGrows ==
  ASSUME NEW f, NEW N \in Nat, \A i \in 1 .. N : Understood(f[i]), NEW i \in 0 .. N - 1,
         NEW st, Gathered(f, st, i), NEW c \in Text, NEW y \in Seq(Triples),
         ~Header(f[i + 1]),
         parseLine(c, parseFromText(st.lines)) \in Reader,
         parseLine(c, parseFromText(st.lines)).level = LevelAt(f, i + 1),
         parseLine(c, parseFromText(st.lines)).settings = parseFromText(st.lines).settings \o y,
         \A l \in Ids : ItemOf(f, i + 1, l) = IF st.logger = l THEN y ELSE <<>>
  PROVE  Gathered(f, [st EXCEPT !.lines = Append(@, c)], i + 1)
<1> DEFINE lines == Append(st.lines, c)
           st2 == [st EXCEPT !.lines = Append(@, c)]
           old == parseFromText(st.lines)
           new == parseFromText(lines)
<1>1. st \in Configurer /\ st.lines \in Seq(Text) /\ old \in Reader /\ i \in Nat
  BY DEF Gathered, Configurer
<1>2. new = parseLine(c, old)
  BY <1>1, ParseNext
<1>3. lines \in Seq(Text)
  BY <1>1
<1>4. st2.lines = lines /\ st2.done = st.done /\ st2.logger = st.logger
  BY <1>1 DEF Configurer
<1>5. st2 \in Configurer
  <2> HIDE DEF lines
  <2>1. st2 = [st EXCEPT !.lines = lines]
    BY <1>1 DEF lines
  <2> QED BY <1>1, <1>3, <2>1 DEF Configurer
<1> HIDE DEF st2, lines
<1>6. st2.logger = Owner(f, i + 1)
  BY <1>1, <1>4, OwnerNext DEF Gathered
<1>7. new \in Reader /\ new.level = LevelAt(f, i + 1) /\ new.settings = old.settings \o y
  BY <1>2
<1> HIDE DEF new, old
<1>8. ASSUME NEW l \in Loggers PROVE DoneOf(Configured(st2), l) = Want(f, i + 1, l)
  <2> DEFINE d == DoneOf(st.done, l)
             item == IF l = NoLogger THEN <<>> ELSE ItemOf(f, i + 1, l)
             T == Triples
  <2>1. DoneOf(Configured(st2), l) = d \o Pending(st2, l)
    BY <1>4, <1>5, <1>7, ConfiguredIs DEF new
  <2>2. Want(f, i, l) = d \o Pending(st, l)
    BY <1>1, ConfiguredIs DEF Gathered, old
  <2>3. Want(f, i + 1, l) = Want(f, i, l) \o item
    BY WantNext
  <2>4. st.done \in Seq(Results)
    BY <1>1 DEF Configurer
  <2>5. d \in Seq(T) /\ old.settings \in Seq(T) /\ y \in Seq(T) /\ <<>> \in Seq(T)
    BY <1>1, <2>4, DoneType DEF Reader
  <2>6. Pending(st, l) \in Seq(T)
    BY <2>5 DEF Pending, old
  <2>7. Pending(st2, l) = Pending(st, l) \o item
    <3>1. CASE st.logger = l /\ l # NoLogger
      BY <1>4, <1>7, <3>1 DEF Pending, new, old, Loggers
    <3>2. CASE ~(st.logger = l /\ l # NoLogger)
      <4>1. item = <<>>
        BY <3>2 DEF Loggers
      <4>2. <<>> \o <<>> = <<>>
        OBVIOUS
      <4> QED BY <1>4, <3>2, <4>1, <4>2 DEF Pending
    <3> QED BY <3>1, <3>2
  <2>8. item \in Seq(T)
    BY <2>5 DEF Loggers
  <2> HIDE DEF d, item, T
  <2>9. (d \o Pending(st, l)) \o item = d \o (Pending(st, l) \o item)
    BY <2>5, <2>6, <2>8, ConcatAssociative
  <2> QED BY <2>1, <2>2, <2>3, <2>7, <2>9
<1> QED BY <1>4, <1>5, <1>6, <1>7, <1>8 DEF Gathered, new, st2

(* A header names a logger or none. *)
LEMMA LoggerType == ASSUME NEW x PROVE getLogger(<<x>>) \in Loggers
BY DEF getLogger, Loggers

(* A line that is no setting says nothing. *)
LEMMA SaysNothing ==
  ASSUME NEW f, NEW j, f[j] # <<>> => f[j][1] \notin ConfigNames
  PROVE  \A l : ItemOf(f, j, l) = <<>>
BY DEF ItemOf, Says

(* A line that starts a section. *)
LEMMA SectionStarts ==
  ASSUME NEW f, NEW N \in Nat, \A i \in 1 .. N : Understood(f[i]), NEW i \in 0 .. N - 1,
         NEW st, Gathered(f, st, i), IsId(Core(f[i + 1])), f[i + 1][2] \notin Letters
  PROVE  Gathered(f, GlobalLine(st, f[i + 1]), i + 1)
<1> DEFINE line == f[i + 1]
           c == Core(line)
           st2 == [done |-> Configured(st), lines |-> <<>>, logger |-> getLogger(<<line[2]>>)]
<1>1. Understood(line) /\ i \in Nat
  <2>1. i + 1 \in 1 .. N /\ i \in Nat
    OBVIOUS
  <2> QED BY <2>1
<1> HIDE DEF line
<1>2. /\ Header(line) /\ line # <<>> /\ line[1] \notin ConfigNames
      /\ line[2] \in Word /\ line[2] # Space
      /\ Tail(c) = <<line[2]>> /\ startsWith(c, LoggerMark) /\ Len(c) > 1
  BY <1>1, Tests DEF line
<1>3. c # <<>>
  <2>1. Len(<<>>) = 0
    OBVIOUS
  <2> HIDE DEF c
  <2> QED BY <1>2, <2>1
<1>4. trim(ignoreComments(trim(line))) = c /\ ~isComment(trim(line))
  BY <1>1, <1>3, Shapes
<1>5. trim(Tail(c)) = <<line[2]>>
  BY <1>2, TrimOne
<1>6. Len(<<line[2]>>) = 1 /\ <<line[2]>>[1] = line[2] /\ line[2] \notin Letters
  BY DEF line
<1> HIDE DEF c
<1>7. GlobalLine(st, line) = st2
  <2> DEFINE id == trim(Tail(c))
  <2>1. GlobalLine(st, line) = [done |-> Configured(st), lines |-> Section(st.lines),
                                logger |-> IF Len(id) = 1 /\ id[1] \in Letters THEN st.logger ELSE getLogger(id)]
    BY <1>2, <1>4, Zenon DEF GlobalLine
  <2>2. Section(st.lines) = <<>>
    BY DEF Section
  <2>3. id = <<line[2]>>
    BY <1>5
  <2> HIDE DEF id
  <2> QED BY <1>6, <2>1, <2>2, <2>3
<1>8. st \in Configurer /\ parseFromText(st.lines) \in Reader
  BY DEF Gathered
<1>9. st2 \in Configurer
  <2>1. Configured(st) \in Seq(Results) /\ getLogger(<<line[2]>>) \in Loggers /\ <<>> \in Seq(Text)
    BY <1>8, ConfiguredIs, LoggerType
  <2> QED BY <2>1 DEF Configurer, Loggers
<1>10. parseFromText(st2.lines) = Unread /\ Unread \in Reader /\ Unread.level = Unknown
  BY ParseNone DEF Unread, Reader, Level
<1>11. st2.logger = Owner(f, i + 1) /\ Unknown = LevelAt(f, i + 1)
  BY <1>1, <1>2, OwnerNext, LevelNext DEF line, c
<1>12. Configured(st2) = Configured(st)
  BY DEF Configured
<1>13. ASSUME NEW l \in Loggers PROVE DoneOf(Configured(st2), l) = Want(f, i + 1, l)
  <2>1. DoneOf(Configured(st), l) = Want(f, i, l)
    BY DEF Gathered
  <2>2. ItemOf(f, i + 1, l) = <<>>
    BY <1>2, SaysNothing DEF line
  <2>3. Want(f, i + 1, l) = Want(f, i, l) \o <<>> /\ Want(f, i, l) \in Seq(Triples)
    BY <2>2, WantNext
  <2>4. Want(f, i, l) \o <<>> = Want(f, i, l)
    BY <2>3, NothingMore
  <2> QED BY <1>12, <2>1, <2>3, <2>4
<1> HIDE DEF st2
<1>14. Gathered(f, st2, i + 1)
  BY <1>9, <1>10, <1>11, <1>13 DEF Gathered
<1> QED BY <1>7, <1>14 DEF line

(* A line that is no header is kept for its section. *)
LEMMA LineKept ==
  ASSUME NEW st, NEW line, ~isComment(trim(line)), trim(ignoreComments(trim(line))) = Core(line),
         ~startsWith(Core(line), LoggerMark)
  PROVE  GlobalLine(st, line) = [st EXCEPT !.lines = Append(@, Core(line))]
BY Zenon DEF GlobalLine

(* What has been understood stays so with one more line. *)
LEMMA GatheredNext ==
  ASSUME NEW f, NEW N \in Nat, \A i \in 1 .. N : Understood(f[i]), NEW i \in 0 .. N - 1,
         NEW st, Gathered(f, st, i), Header(f[i + 1]) => f[i + 1][2] \notin Letters
  PROVE  Gathered(f, GlobalLine(st, f[i + 1]), i + 1)
<1> DEFINE line == f[i + 1]
           c == Core(line)
           old == parseFromText(st.lines)
<1>1. Understood(line) /\ i \in Nat
  <2>1. i + 1 \in 1 .. N /\ i \in Nat
    OBVIOUS
  <2> QED BY <2>1
<1>2. /\ c \in Text /\ Uncommented(c, Len(c)) /\ trim(ignoreComments(trim(line))) = c
      /\ isComment(trim(line)) <=> line # <<>> /\ c = <<>>
      /\ \/ c = <<>>
         \/ IsId(c) \/ IsLevelLine(c) \/ IsSetting(c)
  <2> HIDE DEF line
  <2> QED BY <1>1, Shapes
<1>3. st \in Configurer /\ old \in Reader /\ st.logger = Owner(f, i) /\ old.level = LevelAt(f, i)
      /\ st.logger \in Loggers
  BY DEF Gathered, Configurer, Loggers
<1>4. old.settings \in Seq(Triples) /\ <<>> \in Seq(Triples)
  BY <1>3 DEF Reader
<1>5. old.settings \o <<>> = old.settings
  BY <1>4, NothingMore
<1> HIDE DEF line, old
<1>6. IsLevelLine(c) \/ IsSetting(c) => c # <<>>
  <2>1. Len(<<>>) = 0
    OBVIOUS
  <2> QED BY <2>1 DEF IsLevelLine, IsSetting
<1>7. CASE c = <<>>
  <2>1. ~Header(line) /\ ~isLevel(line) /\ (line # <<>> => line[1] \notin ConfigNames)
    BY <1>1, <1>7, Tests
  <2>2. \A l : ItemOf(f, i + 1, l) = <<>>
    BY <2>1, SaysNothing DEF line
  <2>3. Owner(f, i + 1) = Owner(f, i) /\ LevelAt(f, i + 1) = LevelAt(f, i)
    BY <1>1, <2>1, OwnerNext, LevelNext DEF line
  <2>4. CASE line # <<>>
    <3>1. GlobalLine(st, line) = st
      BY <1>2, <1>7, <2>4, Zenon DEF GlobalLine
    <3>2. ASSUME NEW l \in Loggers PROVE Want(f, i + 1, l) = Want(f, i, l)
      <4>1. Want(f, i + 1, l) = Want(f, i, l) \o <<>> /\ Want(f, i, l) \in Seq(Triples)
        BY <2>2, WantNext
      <4> QED BY <4>1, NothingMore
    <3>3. Gathered(f, st, i + 1)
      BY <2>3, <3>2 DEF Gathered
    <3> QED BY <3>1, <3>3 DEF line
  <2>5. CASE line = <<>>
    <3>1. parseLine(c, old) = [old EXCEPT !.ok = TRUE]
      BY <1>3, <1>7, EmptyRead
    <3>2. parseLine(c, old) \in Reader /\ parseLine(c, old).level = old.level
          /\ parseLine(c, old).settings = old.settings
      BY <1>3, <3>1 DEF Reader
    <3>3. ~startsWith(c, LoggerMark)
      BY <1>7 DEF startsWith
    <3>4. GlobalLine(st, line) = [st EXCEPT !.lines = Append(@, c)]
      BY <1>2, <2>5, <3>3, LineKept
    <3>5. Gathered(f, [st EXCEPT !.lines = Append(@, c)], i + 1)
      <4>1. \A l \in Ids : ItemOf(f, i + 1, l) = IF st.logger = l THEN <<>> ELSE <<>>
        BY <2>2
      <4> HIDE DEF c
      <4> QED BY <1>2, <1>3, <1>4, <1>5, <2>1, <2>3, <3>2, <4>1, SectionGrows DEF line, old
    <3> QED BY <3>4, <3>5 DEF line
  <2> QED BY <2>4, <2>5
<1>8. CASE IsId(c)
  <2>1. Header(line)
    BY <1>1, <1>8, Tests
  <2> QED BY <1>8, <2>1, SectionStarts DEF line
<1>9. CASE IsLevelLine(c)
  <2>1. /\ ~Header(line) /\ isLevel(line) /\ line[1] \notin ConfigNames
        /\ line[2] = c[2] /\ ~startsWith(c, LoggerMark)
    BY <1>1, <1>9, Tests
  <2>2. \A l : ItemOf(f, i + 1, l) = <<>>
    BY <2>1, SaysNothing DEF line
  <2>3. LevelAt(f, i + 1) = convertLevel(<<c[2]>>)
    BY <1>1, <2>1, LevelNext DEF line
  <2>4. parseLine(c, old) \in Reader /\ parseLine(c, old).level = LevelAt(f, i + 1)
        /\ parseLine(c, old).settings = old.settings \o <<>>
    <3> HIDE DEF c
    <3> QED BY <1>2, <1>3, <1>5, <1>9, <2>3, LevelRead
  <2>5. GlobalLine(st, line) = [st EXCEPT !.lines = Append(@, c)]
    BY <1>2, <1>6, <1>9, <2>1, LineKept
  <2>6. Gathered(f, [st EXCEPT !.lines = Append(@, c)], i + 1)
    <3>1. \A l \in Ids : ItemOf(f, i + 1, l) = IF st.logger = l THEN <<>> ELSE <<>>
      BY <2>2
    <3> HIDE DEF c
    <3> QED BY <1>2, <1>4, <2>1, <2>4, <3>1, SectionGrows DEF line, old
  <2> QED BY <2>5, <2>6 DEF line
<1>10. CASE IsSetting(c)
  <2>1. /\ ~Header(line) /\ ~isLevel(line) /\ line # <<>> /\ line[1] = c[1] /\ line[3] = c[3]
        /\ line[1] \in Word /\ line[3] \in Word /\ ~startsWith(c, LoggerMark)
    BY <1>1, <1>10, Tests
  <2>2. Owner(f, i + 1) = Owner(f, i) /\ LevelAt(f, i + 1) = LevelAt(f, i)
    BY <1>1, <2>1, OwnerNext, LevelNext DEF line
  <2> DEFINE x == <<old.level, c[1], <<c[3]>>>>
             y == IF old.level # Unknown /\ c[1] \in ConfigNames THEN <<x>> ELSE <<>>
  <2>3. x \in Triples
    <3>1. <<c[3]>> \in Text /\ c[1] \in Word /\ old.level \in Level
      BY <1>3, <2>1, OneOf, TextsOfWords DEF Reader
    <3> HIDE DEF c
    <3> QED BY <3>1 DEF Triples
  <2>4. y \in Seq(Triples)
    <3> HIDE DEF x
    <3> QED BY <1>4, <2>3
  <2>5. parseLine(c, old) \in Reader /\ parseLine(c, old).level = LevelAt(f, i + 1)
        /\ parseLine(c, old).settings = old.settings \o y
    <3>1. /\ parseLine(c, old) \in Reader
          /\ parseLine(c, old).level = old.level
          /\ parseLine(c, old).settings =
               IF old.level # Unknown /\ c[1] \in ConfigNames THEN Append(old.settings, x) ELSE old.settings
      <4> HIDE DEF c
      <4> QED BY <1>2, <1>3, <1>10, SettingRead
    <3>2. Append(old.settings, x) = old.settings \o <<x>>
      <4> HIDE DEF x
      <4> QED BY <1>4, <2>3
    <3> HIDE DEF x, c
    <3> QED BY <1>3, <1>5, <2>2, <3>1, <3>2
  <2>6. \A l \in Ids : ItemOf(f, i + 1, l) = IF st.logger = l THEN y ELSE <<>>
    <3> SUFFICES ASSUME NEW l \in Ids PROVE ItemOf(f, i + 1, l) = IF st.logger = l THEN y ELSE <<>>
      OBVIOUS
    <3>1. Says(f, i + 1, l) <=> c[1] \in ConfigNames /\ st.logger = l /\ old.level # Unknown
      BY <1>3, <2>1, <2>2 DEF Says, line
    <3>2. <<LevelAt(f, i + 1), f[i + 1][1], <<f[i + 1][3]>>>> = x
      BY <1>3, <2>1, <2>2 DEF line
    <3> HIDE DEF x, c
    <3> QED BY <3>1, <3>2 DEF ItemOf
  <2>7. GlobalLine(st, line) = [st EXCEPT !.lines = Append(@, c)]
    BY <1>2, <1>6, <1>10, <2>1, LineKept
  <2>8. Gathered(f, [st EXCEPT !.lines = Append(@, c)], i + 1)
    <3> HIDE DEF c, x, y
    <3> QED BY <1>2, <2>1, <2>4, <2>5, <2>6, SectionGrows DEF line, old
  <2> QED BY <2>7, <2>8 DEF line
<1> QED BY <1>2, <1>7, <1>8, <1>9, <1>10

(* A global file is gone through line by line. *)
LEMMA ConfigureIsFold ==
  ASSUME NEW lines
  PROVE  configureFromGlobal(lines) = Configured(Globals!Fold(0, Nobody, Append(lines, <<>>)))
BY DEF configureFromGlobal, Nobody, Globally, Globals!Fold, FoldLeft, MapThenFoldSet,
       Globals!MapThenFoldSet, Max, Globals!Max

(* Of no lines nothing has been understood. *)
LEMMA NobodyGathered == ASSUME NEW f PROVE Gathered(f, Nobody, 0)
<1>1. Nobody \in Configurer
  <2>1. <<>> \in Seq(Results) /\ <<>> \in Seq(Text)
    OBVIOUS
  <2> QED BY <2>1 DEF Nobody, Configurer
<1>2. parseFromText(Nobody.lines) = Unread /\ Unread \in Reader /\ Unread.level = Unknown
  BY ParseNone DEF Unread, Reader, Level, Nobody
<1>3. Configured(Nobody) = <<>>
  BY DEF Configured, Nobody
<1>4. ASSUME NEW l PROVE DoneOf(<<>>, l) = <<>> /\ SaidTo(f, 0, l) = <<>>
  <2>1. [i \in DOMAIN <<>> |-> IF <<>>[i][1] = l THEN <<>>[i][2] ELSE <<>>] = <<>>
    OBVIOUS
  <2>2. [j \in 1 .. 0 |-> ItemOf(f, j, l)] = <<>>
    OBVIOUS
  <2> QED BY <2>1, <2>2, FlattenNone DEF DoneOf, SaidTo
<1>5. Nobody.logger = NoLogger
  BY DEF Nobody
<1> QED BY <1>1, <1>2, <1>3, <1>4, <1>5, NobodyFirst DEF Gathered, Want

(* The line that the code adds at the end changes nothing. *)
LEMMA LastLine ==
  ASSUME NEW f, NEW i, NEW st, Gathered(f, st, i)
  PROVE  \A l \in Loggers : DoneOf(Configured(GlobalLine(st, <<>>)), l) = Want(f, i, l)
<1> DEFINE st2 == [st EXCEPT !.lines = Append(@, <<>>)]
           old == parseFromText(st.lines)
           new == parseFromText(Append(st.lines, <<>>))
<1>1. st \in Configurer /\ old \in Reader
  BY DEF Gathered
<1>2. Core(<<>>) = <<>>
  <2>1. find(<<>>, Comment, 1) = 0
    BY FindNone
  <2> QED BY <2>1 DEF Core
<1>3. GlobalLine(st, <<>>) = st2
  <2>1. ~isComment(trim(<<>>)) /\ trim(ignoreComments(trim(<<>>))) = <<>>
    BY EmptyIsBare, Whole
  <2>2. ~startsWith(<<>>, LoggerMark)
    BY DEF startsWith
  <2> QED BY <1>2, <2>1, <2>2, LineKept
<1>4. st.lines \in Seq(Text) /\ <<>> \in Text
  BY <1>1, EmptyIsBare DEF Configurer
<1>5. new = parseLine(<<>>, old)
  BY <1>4, ParseNext
<1>6. new \in Reader /\ new.settings = old.settings
  BY <1>1, <1>5, EmptyRead DEF Reader
<1> DEFINE lines == Append(st.lines, <<>>)
<1>7. lines \in Seq(Text)
  BY <1>4
<1> HIDE DEF lines
<1>8. st2 \in Configurer /\ st2.lines = lines /\ st2.logger = st.logger /\ st2.done = st.done
  <2>1. st2 = [st EXCEPT !.lines = lines]
    BY <1>1 DEF lines
  <2> QED BY <1>1, <1>7, <2>1 DEF Configurer
<1>9. ASSUME NEW l \in Loggers PROVE DoneOf(Configured(st2), l) = Want(f, i, l)
  <2>1. DoneOf(Configured(st2), l) = DoneOf(st2.done, l) \o Pending(st2, l)
    <3> HIDE DEF st2
    <3> QED BY <1>6, <1>8, ConfiguredIs DEF lines
  <2>2. Pending(st2, l) = Pending(st, l)
    <3> HIDE DEF st2
    <3> QED BY <1>6, <1>8 DEF Pending, lines
  <2>3. DoneOf(Configured(st), l) = DoneOf(st.done, l) \o Pending(st, l)
    BY <1>1, ConfiguredIs
  <2>4. DoneOf(Configured(st), l) = Want(f, i, l)
    BY DEF Gathered
  <2> HIDE DEF st2
  <2> QED BY <1>8, <2>1, <2>2, <2>3, <2>4
<1> QED BY <1>3, <1>9

(* Of a global file each logger gets what the file says of it. *)
LEMMA FilesRead ==
  ASSUME NEW f \in Seq(Text), \A i \in DOMAIN f : Understood(f[i]), ~ShortIds(f), NEW l \in Loggers
  PROVE  DoneOf(configureFromGlobal(f), l) = IF l = NoLogger THEN <<>> ELSE Said(f, l)
<1> DEFINE N == Len(f)
           T == Text
           s == Append(f, <<>>)
<1>1. N \in Nat /\ DOMAIN f = 1 .. N
  OBVIOUS
<1>2. s \in Seq(T) /\ DOMAIN s = 1 .. N + 1 /\ N + 1 \in Nat /\ s[N + 1] = <<>>
      /\ \A i \in 1 .. N : s[i] = f[i]
  <2>1. f \in Seq(T) /\ <<>> \in T
    BY EmptyIsBare
  <2> HIDE DEF T
  <2> QED BY <2>1
<1> HIDE DEF s, N, T
<1>3. PICK g : Globals!Run(0, Nobody, s, N + 1, g)
  BY <1>2, Globals!FoldSteps
<1>4. /\ Globals!Fold(0, Nobody, s) = g[N + 1] /\ g[0] = Nobody
      /\ \A i \in 1 .. N + 1 : g[i] = GlobalLine(g[i - 1], s[i])
  BY <1>3 DEF Globals!Run, Globally
<1> DEFINE B == {n \in Nat : n <= N => Gathered(f, g[n], n)}
<1>5. 0 \in B
  BY <1>4, NobodyGathered
<1>6. ASSUME NEW n \in Nat, n \in B PROVE n + 1 \in B
  <2> SUFFICES ASSUME n + 1 <= N PROVE Gathered(f, g[n + 1], n + 1)
    OBVIOUS
  <2>1. n \in 0 .. N - 1 /\ n + 1 \in 1 .. N + 1 /\ n + 1 \in 1 .. N /\ n + 1 - 1 = n
    BY <1>1
  <2>2. g[n + 1] = GlobalLine(g[n], f[n + 1])
    BY <1>2, <1>4, <2>1
  <2>3. Gathered(f, g[n], n)
    BY <1>1, <1>6, <2>1
  <2>4. Header(f[n + 1]) => f[n + 1][2] \notin Letters
    BY <1>1, <2>1 DEF ShortIds
  <2>5. \A i \in 1 .. N : Understood(f[i])
    BY <1>1
  <2> QED BY <1>1, <2>1, <2>2, <2>3, <2>4, <2>5, GatheredNext
<1>7. Nat \subseteq B
  <2> HIDE DEF B
  <2> QED BY <1>5, <1>6, Globals!Induction
<1>8. Gathered(f, g[N], N)
  <2>1. N <= N
    BY <1>1
  <2> QED BY <1>1, <1>7, <2>1
<1>9. g[N + 1] = GlobalLine(g[N], <<>>)
  <2> DEFINE m == N + 1
  <2>1. m \in 1 .. N + 1 /\ m - 1 = N
    BY <1>1
  <2>2. s[m] = <<>>
    BY <1>2
  <2> HIDE DEF m
  <2>3. g[m] = GlobalLine(g[m - 1], s[m])
    BY <1>4, <2>1
  <2>4. g[m] = GlobalLine(g[N], <<>>)
    BY <2>1, <2>2, <2>3
  <2> QED BY <2>4 DEF m
<1>10. DoneOf(configureFromGlobal(f), l) = Want(f, N, l)
  BY <1>4, <1>8, <1>9, LastLine, ConfigureIsFold DEF s
<1>11. SaidTo(f, N, l) = Said(f, l)
  BY <1>1, Zenon DEF SaidTo, Said, ItemOf
<1> QED BY <1>10, <1>11 DEF Want

-----------------------------------------------------------------------------
(* Numbers. *)
NextDigit(p, n, c) == 10 * n + DigitOf(c)
Digiting == INSTANCE Loops WITH Op <- NextDigit

PlaceStep(p, f, i) == IF i = p THEN 1 ELSE 10 * f[i + 1]
Placing == INSTANCE Loops WITH Op <- PlaceStep

SumStep(p, f, i) == DigitOf(p.text[i]) * p.place[i] + IF i = 1 THEN 0 ELSE f[i - 1]
Summing == INSTANCE Loops WITH Op <- SumStep

(* A digit is a number. *)
LEMMA DigitIsNat == ASSUME NEW c \in ToSet(Digits0to9) PROVE DigitOf(c) \in Nat
<1>1. DOMAIN Digits0to9 = 1 .. 10
  BY DEF Digits0to9
<1>2. PICK i \in DOMAIN Digits0to9 : c = Digits0to9[i]
  BY DEF ToSet
<1>3. i - 1 \in 0 .. 9 /\ i - 1 + 1 = i
  BY <1>1, <1>2
<1>4. DigitOf(Digits0to9[i - 1 + 1]) = i - 1
  BY <1>3, DigitsRead
<1>5. DigitOf(c) = i - 1
  BY <1>2, <1>3, <1>4
<1> QED BY <1>3, <1>5

(* A number moved up by one place. *)
LEMMA Shift ==
  ASSUME NEW a \in Nat, NEW d \in Nat, NEW p \in Nat, NEW q \in Nat, NEW s \in Nat, q = 10 * p, a * q = s
  PROVE  (10 * a + d) * p = d * p + s
<1>1. (10 * a + d) * p = 10 * a * p + d * p
  OBVIOUS
<1>2. 10 * a * p = a * (10 * p)
  OBVIOUS
<1> QED BY <1>1, <1>2

(* The code goes from one digit to the next; the number is the sum of      *)
(* their values at their places.                                           *)
LEMMA DecimalIs ==
  ASSUME NEW t \in Text, t # <<>>, \A i \in 1 .. Len(t) : t[i] \in ToSet(Digits0to9)
  PROVE  FoldLeft(LAMBDA n, c : 10 * n + DigitOf(c), 0, t) = Decimal(t)
<1> DEFINE N == Len(t)
           place == CHOOSE f : f = [i \in DOMAIN t |-> IF i = N THEN 1 ELSE 10 * f[i + 1]]
           sum == CHOOSE f : f = [i \in DOMAIN t |-> DigitOf(t[i]) * place[i] + IF i = 1 THEN 0 ELSE f[i - 1]]
           p == [text |-> t, place |-> place]
           D == 1 .. N
<1>1. N \in Nat /\ DOMAIN t = D /\ N > 0
  <2>1. Len(t) # 0
    BY DEF Text
  <2> QED BY <2>1, Counts
<1>2. Decimal(t) = sum[N]
  BY DEF Decimal
<1>3. Placing!RecOf(N, D, place)
  <2>1. \E f : Placing!RecOf(N, D, f)
    <3> DEFINE m == [i \in D |-> N - i]
    <3>1. m \in [D -> Nat]
      BY <1>1
    <3>2. ASSUME NEW i \in D, NEW f, NEW g, \A e \in D : m[e] < m[i] => f[e] = g[e]
          PROVE  PlaceStep(N, f, i) = PlaceStep(N, g, i)
      <4> DEFINE j == i + 1
      <4>a. i # N => j \in D /\ N - j < N - i
        <5> HIDE DEF N, m
        <5> QED BY <1>1
      <4>b. m[i] = N - i /\ (j \in D => m[j] = N - j)
        <5> HIDE DEF j, D, N
        <5> QED OBVIOUS
      <4>1. i # N => i + 1 \in D /\ m[i + 1] < m[i]
        <5>1. i # N => j \in D /\ m[j] < m[i]
          <6> HIDE DEF m, j, D, N
          <6> QED BY <4>a, <4>b
        <5> HIDE DEF m, D, N
        <5> QED BY <5>1
      <4> HIDE DEF m, j
      <4>2. i # N => f[i + 1] = g[i + 1]
        BY <3>2, <4>1
      <4> QED BY <4>2 DEF PlaceStep
    <3> HIDE DEF m, D, N
    <3> QED BY <3>1, <3>2, Placing!RecursionExists
  <2> HIDE DEF N, D
  <2> QED BY <1>1, <2>1 DEF Placing!RecOf, PlaceStep
<1> HIDE DEF place
<1>4. Summing!RecOf(p, D, sum)
  <2>1. \E f : Summing!RecOf(p, D, f)
    <3> DEFINE m == [i \in D |-> i]
    <3>1. m \in [D -> Nat]
      BY <1>1
    <3>2. ASSUME NEW i \in D, NEW f, NEW g, \A e \in D : m[e] < m[i] => f[e] = g[e]
          PROVE  SumStep(p, f, i) = SumStep(p, g, i)
      <4>1. i # 1 => i - 1 \in D /\ m[i - 1] < m[i]
        BY <1>1
      <4>2. i # 1 => f[i - 1] = g[i - 1]
        BY <3>2, <4>1
      <4> QED BY <4>2 DEF SumStep
    <3> HIDE DEF m, D, N, p
    <3> QED BY <3>1, <3>2, Summing!RecursionExists
  <2> HIDE DEF N, D
  <2>2. sum = CHOOSE f : Summing!RecOf(p, D, f)
    BY <1>1 DEF Summing!RecOf, SumStep
  <2> QED BY <2>1, <2>2
<1> HIDE DEF sum
<1>5. place[N] = 1 /\ \A i \in 1 .. N - 1 : place[i] = 10 * place[i + 1]
  <2>1. \A i \in D : place[i] = IF i = N THEN 1 ELSE 10 * place[i + 1]
    BY <1>3 DEF Placing!RecOf, PlaceStep
  <2>2. N \in D /\ \A i \in 1 .. N - 1 : i \in D /\ i # N
    <3> HIDE DEF N
    <3> QED BY <1>1
  <2> HIDE DEF D
  <2> QED BY <2>1, <2>2
<1>6. \A i \in D : sum[i] = DigitOf(t[i]) * place[i] + IF i = 1 THEN 0 ELSE sum[i - 1]
  BY <1>4 DEF Summing!RecOf, SumStep
<1>7. PICK g : Digiting!Run(0, 0, t, N, g)
  BY <1>1, Digiting!FoldSteps
<1>8. /\ g[0] = 0 /\ \A i \in D : g[i] = 10 * g[i - 1] + DigitOf(t[i])
      /\ FoldLeft(LAMBDA n, c : 10 * n + DigitOf(c), 0, t) = g[N]
  <2>1. Digiting!Fold(0, 0, t) = FoldLeft(LAMBDA n, c : 10 * n + DigitOf(c), 0, t)
    BY DEF NextDigit, Digiting!Fold, FoldLeft, MapThenFoldSet, Digiting!MapThenFoldSet, Max, Digiting!Max
  <2> QED BY <1>7, <2>1 DEF Digiting!Run, NextDigit
<1>9. \A i \in D : DigitOf(t[i]) \in Nat
  BY DigitIsNat
<1> HIDE DEF N
<1>10. \A i \in D : place[i] \in Nat
  <2> DEFINE B == {n \in Nat : n < N => place[N - n] \in Nat}
  <2>1. 0 \in B
    BY <1>1, <1>5
  <2>2. ASSUME NEW n \in Nat, n \in B PROVE n + 1 \in B
    <3> SUFFICES ASSUME n + 1 < N PROVE place[N - (n + 1)] \in Nat
      OBVIOUS
    <3> DEFINE i == N - (n + 1)
    <3>1. i \in 1 .. N - 1 /\ i + 1 = N - n /\ n < N
      BY <1>1
    <3>2. place[N - n] \in Nat
      BY <2>2, <3>1
    <3> HIDE DEF i
    <3>3. place[i] = 10 * place[i + 1] /\ place[i + 1] \in Nat
      BY <1>5, <3>1, <3>2
    <3>4. place[i] \in Nat
      BY <3>3
    <3> QED BY <3>4 DEF i
  <2>3. Nat \subseteq B
    <3> HIDE DEF B
    <3> QED BY <2>1, <2>2, Digiting!Induction
  <2>4. ASSUME NEW i \in D PROVE place[i] \in Nat
    <3>1. N - i \in Nat /\ N - i < N /\ N - (N - i) = i
      BY <1>1
    <3>2. N - i \in B
      BY <2>3, <3>1
    <3> QED BY <3>1, <3>2
  <2> QED BY <2>4
<1> DEFINE B == {n \in Nat : n \in D => g[n] \in Nat /\ sum[n] \in Nat /\ g[n] * place[n] = sum[n]}
<1>11. 0 \in B
  OBVIOUS
<1>12. ASSUME NEW n \in Nat, n \in B PROVE n + 1 \in B
  <2> DEFINE m == n + 1
  <2> SUFFICES ASSUME m \in D
               PROVE  g[m] \in Nat /\ sum[m] \in Nat /\ g[m] * place[m] = sum[m]
    OBVIOUS
  <2>1. m - 1 = n /\ m \in D
    OBVIOUS
  <2> HIDE DEF m
  <2>2. g[m] = 10 * g[n] + DigitOf(t[m]) /\ DigitOf(t[m]) \in Nat /\ place[m] \in Nat
    BY <1>8, <1>9, <1>10, <2>1
  <2>3. sum[m] = DigitOf(t[m]) * place[m] + IF m = 1 THEN 0 ELSE sum[n]
    BY <1>6, <2>1
  <2> DEFINE d == DigitOf(t[m])
             q == place[m]
  <2> HIDE DEF d, q
  <2>4. CASE m = 1
    <3>a. sum[m] = d * q + 0
      BY <2>3, <2>4 DEF d, q
    <3>b. n = 0
      BY <2>1, <2>4
    <3>c. g[m] = 10 * 0 + d
      BY <1>8, <2>2, <3>b DEF d
    <3>d. d \in Nat /\ q \in Nat
      BY <2>2 DEF d, q
    <3>e. d * q \in Nat
      BY <3>d
    <3>1. g[m] = d /\ sum[m] = d * q /\ d \in Nat /\ q \in Nat
      BY <3>a, <3>c, <3>d, <3>e
    <3>2. d * q \in Nat
      BY <3>1
    <3> QED BY <3>1, <3>2 DEF q
  <2>5. CASE m # 1
    <3>1. n \in D /\ n \in 1 .. N - 1 /\ n + 1 = m
      BY <1>1, <2>1, <2>5
    <3>2. g[n] \in Nat /\ sum[n] \in Nat /\ g[n] * place[n] = sum[n]
      BY <1>12, <3>1
    <3>3. place[n] = 10 * place[m] /\ place[n] \in Nat
      BY <1>5, <1>10, <3>1
    <3> DEFINE a == g[n]
               r == place[n]
               s == sum[n]
    <3>4. /\ a \in Nat /\ d \in Nat /\ q \in Nat /\ r \in Nat /\ s \in Nat /\ r = 10 * q /\ a * r = s
          /\ g[m] = 10 * a + d /\ sum[m] = d * q + s
      BY <2>2, <2>3, <2>5, <3>2, <3>3 DEF d, q
    <3> HIDE DEF a, r, s
    <3>5. (10 * a + d) * q = d * q + s
      BY <3>4, Shift
    <3>6. 10 * a + d \in Nat /\ d * q \in Nat /\ d * q + s \in Nat
      <4>1. d * q \in Nat
        BY <3>4
      <4> QED BY <3>4, <4>1
    <3> QED BY <3>4, <3>5, <3>6 DEF q
  <2> QED BY <2>4, <2>5
<1>13. Nat \subseteq B
  <2> HIDE DEF B
  <2> QED BY <1>11, <1>12, Digiting!Induction
<1>14. N \in D
  BY <1>1
<1>15. g[N] \in Nat /\ g[N] * place[N] = sum[N]
  BY <1>1, <1>13, <1>14
<1>16. g[N] = sum[N]
  BY <1>5, <1>15
<1> QED BY <1>2, <1>8, <1>16

DigitTexts == ToSet(Digits0to9)

(* A space is no digit. *)
LEMMA DigitsAreDark == Space \notin DigitTexts
<1>1. DOMAIN Digits0to9 = 1 .. 10
  BY DEF Digits0to9
<1>2. \A i \in 1 .. 10 : Digits0to9[i] \in {"0", "1", "2", "3", "4", "5", "6", "7", "8", "9"}
  BY DEF Digits0to9
<1>3. \A c \in {"0", "1", "2", "3", "4", "5", "6", "7", "8", "9"} : c # Space
  BY Zenon DEF Space
<1> HIDE DEF Digits0to9
<1> QED BY <1>1, <1>2, <1>3 DEF DigitTexts, ToSet

(* A part of a sequence. *)
LEMMA SliceOf ==
  ASSUME NEW T, NEW s \in Seq(T), NEW a \in 1 .. Len(s), NEW b \in a .. Len(s)
  PROVE  /\ SubSeq(s, a, b) \in Seq(T) /\ Len(SubSeq(s, a, b)) = b - a + 1
         /\ \A i \in 1 .. b - a + 1 : SubSeq(s, a, b)[i] = s[a + i - 1]
         /\ \A i \in a .. b : i - a + 1 \in 1 .. b - a + 1 /\ SubSeq(s, a, b)[i - a + 1] = s[i]
OBVIOUS

Dark(s) == {i \in DOMAIN s : s[i] # Space}

(* A number between spaces is read as it is written. *)
LEMMA NumberRead ==
  ASSUME NEW s \in Text
  PROVE  LET dark == Dark(s)
             decimal == dark = Min(dark) .. Max(dark) /\ \A i \in dark : s[i] \in DigitTexts
         IN  getULong(s) = IF dark # {} /\ decimal THEN Decimal(SubSeq(s, Min(dark), Max(dark))) ELSE 0
<1> DEFINE dark == Dark(s)
           a == Min(dark)
           b == Max(dark)
           t == SubSeq(s, a, b)
           decimal == dark = a .. b /\ \A i \in dark : s[i] \in DigitTexts
<1>1. Len(s) \in Nat /\ DOMAIN s = 1 .. Len(s)
  BY Counts
<1>2. trim(s) = IF dark = {} THEN <<>> ELSE t
  BY Zenon DEF trim, Space, Dark
<1>3. CASE dark = {}
  <2>1. trim(s) = <<>>
    BY <1>2, <1>3
  <2>2. getULong(s) = 0
    BY <2>1 DEF getULong
  <2> QED BY <1>3, <2>2
<1>4. CASE dark # {}
  <2>1. trim(s) = t
    BY <1>2, <1>4
  <2>2. dark \subseteq Nat /\ \A i \in dark : i \in 1 .. Len(s)
    BY <1>1 DEF Dark
  <2>3. a \in dark /\ \A i \in dark : a <= i
    BY <1>4, <2>2, MinIs
  <2>4. b \in dark /\ \A i \in dark : i <= b
    <3>1. dark \in SUBSET (1 .. Len(s))
      BY <2>2
    <3> HIDE DEF dark
    <3> QED BY <1>1, <1>4, <3>1, LastIs
  <2>5. a \in 1 .. Len(s) /\ b \in a .. Len(s)
    <3> HIDE DEF dark, a, b
    <3> QED BY <1>1, <2>2, <2>3, <2>4
  <2>6. s \in Seq(Word)
    BY TextsOfWords
  <2> DEFINE n == b - a + 1
  <2>7. /\ t \in Seq(Word) /\ Len(t) = n /\ \A i \in 1 .. n : t[i] = s[a + i - 1]
        /\ \A i \in a .. b : i - a + 1 \in 1 .. n /\ t[i - a + 1] = s[i]
    <3> HIDE DEF a, b, dark
    <3> QED BY <2>5, <2>6, SliceOf
  <2> HIDE DEF t
  <2>8. t \in Text /\ n \in Nat /\ n > 0 /\ t # <<>> /\ DOMAIN t = 1 .. n
    <3>1. t \in Text
      BY <2>7, TextsOfWords
    <3>2. n \in Nat /\ n > 0
      <4> HIDE DEF a, b
      <4> QED BY <1>1, <2>5
    <3>3. DOMAIN t = 1 .. n
      <4> HIDE DEF n
      <4> QED BY <2>7
    <3>4. t # <<>>
      <4> HIDE DEF n
      <4> QED BY <2>7, <3>2
    <3> QED BY <3>1, <3>2, <3>3, <3>4
  <2>9. ASSUME ToSet(t) \subseteq DigitTexts PROVE decimal
    <3>1. ASSUME NEW i \in a .. b PROVE s[i] \in DigitTexts /\ i \in dark
      <4> DEFINE k == i - a + 1
      <4>1. k \in 1 .. n /\ t[k] = s[i]
        BY <2>7
      <4> HIDE DEF k, n
      <4>2. t[k] \in ToSet(t)
        BY <2>8, <4>1 DEF ToSet
      <4>3. s[i] \in DigitTexts
        BY <2>9, <4>1, <4>2
      <4>4. i \in DOMAIN s
        <5> HIDE DEF a, b
        <5> QED BY <1>1, <2>5
      <4> QED BY <4>3, <4>4, DigitsAreDark DEF Dark
    <3>2. dark \subseteq a .. b
      <4> HIDE DEF dark, a, b
      <4> QED BY <2>2, <2>3, <2>4, <2>5
    <3> HIDE DEF a, b, dark
    <3> QED BY <3>1, <3>2
  <2>10. ASSUME decimal PROVE \A i \in 1 .. n : t[i] \in DigitTexts
    <3>1. ASSUME NEW i \in 1 .. n PROVE t[i] \in DigitTexts
      <4> DEFINE k == a + i - 1
      <4>1. k \in a .. b
        <5> HIDE DEF a, b
        <5> QED BY <1>1, <2>5
      <4>2. t[i] = s[k]
        BY <2>7
      <4> HIDE DEF k, a, b, dark
      <4> QED BY <2>10, <4>1, <4>2
    <3> QED BY <3>1
  <2>11. ASSUME decimal PROVE ToSet(t) \subseteq DigitTexts
    BY <2>8, <2>10, <2>11 DEF ToSet
  <2>12. getULong(s) = IF t # <<>> /\ ToSet(t) \subseteq DigitTexts
                       THEN FoldLeft(LAMBDA m, c : 10 * m + DigitOf(c), 0, t) ELSE 0
    BY <2>1, Zenon DEF getULong, DigitTexts
  <2>13. CASE decimal
    <3>1. \A i \in 1 .. Len(t) : t[i] \in ToSet(Digits0to9)
      BY <2>7, <2>10, <2>13 DEF DigitTexts
    <3>2. FoldLeft(LAMBDA m, c : 10 * m + DigitOf(c), 0, t) = Decimal(t)
      <4> HIDE DEF n, decimal
      <4> QED BY <2>8, <3>1, DecimalIs
    <3>3. getULong(s) = Decimal(t)
      BY <2>8, <2>11, <2>12, <2>13, <3>2
    <3> QED BY <1>4, <2>13, <3>3 DEF t
  <2>14. CASE ~decimal
    <3>1. getULong(s) = 0
      BY <2>9, <2>12, <2>14
    <3> QED BY <2>14, <3>1
  <2> QED BY <2>13, <2>14
<1> QED BY <1>3, <1>4

(* The same, in the words of the property. *)
LEMMA NumbersRead ==
  ASSUME NEW s \in Text
  PROVE  LET dark == {i \in DOMAIN s : s[i] # " "}
             decimal == dark = Min(dark) .. Max(dark) /\ \A i \in dark : s[i] \in ToSet(Digits0to9)
         IN  getULong(s) = IF dark # {} /\ decimal THEN Decimal(SubSeq(s, Min(dark), Max(dark))) ELSE 0
<1>1. Dark(s) = {i \in DOMAIN s : s[i] # " "}
  BY Zenon DEF Dark, Space
<1> QED BY <1>1, NumberRead, Zenon DEF DigitTexts

-----------------------------------------------------------------------------
(* Quoted values. *)
Token == Word \cup {Quote, Backslash, Space, EqualSign, Comment, LevelMark, "x", "FORMAT", "GLOBAL", "INFO", "WARN", ":"}

(* The characters that are tokens. *)
LEMMA TokensAre ==
  /\ Word \subseteq Token /\ {Quote, Backslash, Space, EqualSign, Comment, LevelMark} \subseteq Token
  /\ "x" \in Token /\ "FORMAT" \in Token /\ "GLOBAL" \in Token /\ "INFO" \in Token /\ "WARN" \in Token /\ ":" \in Token
BY Zenon DEF Token

(* Texts are made of tokens. *)
LEMMA TextsOfTokens == ASSUME NEW s \in Text PROVE s \in Seq(Token)
<1>1. s \in Seq(Word) /\ Word \subseteq Token
  BY TextsOfWords, TokensAre
<1> QED BY <1>1

Piece(c) == IF c = Quote THEN <<Backslash, Quote>> ELSE <<c>>

(* Where the characters of v stand in t: p[k] that of v[k], p[0] the       *)
(* opening quote, the closing one behind p[N].  Quotes after v[i] are      *)
(* escaped.                                                                *)
LaidFrom(t, v, p, i, k) ==
  /\ p[k] \in Nat /\ p[k - 1] \in Nat /\ t[p[k]] = v[k]
  /\ v[k] # Quote \/ k <= i => p[k] = p[k - 1] + 1
  /\ v[k] = Quote /\ i < k => p[k] = p[k - 1] + 2 /\ t[p[k] - 1] = Backslash

Laid(t, v, p, i) ==
  /\ p[0] \in Nat /\ p[0] > 0
  /\ p[Len(v)] + 1 <= Len(t) /\ t[p[Len(v)] + 1] = Quote
  /\ \A k \in 1 .. Len(v) : LaidFrom(t, v, p, i, k)

(* A character is written as tokens. *)
LEMMA PieceType ==
  ASSUME NEW c \in Token
  PROVE  Piece(c) \in Seq(Token)
<1>1. Quote \in Token /\ Backslash \in Token
  BY TokensAre
<1> QED BY <1>1 DEF Piece

(* How a character is written: a quote is escaped. *)
LEMMA PieceIs ==
  ASSUME NEW c
  PROVE  /\ c # Quote => Len(Piece(c)) = 1 /\ Piece(c)[1] = c
         /\ c = Quote => Len(Piece(c)) = 2 /\ Piece(c)[1] = Backslash /\ Piece(c)[2] = c
BY DEF Piece

(* Two sequences, one behind the other. *)
LEMMA JoinOf ==
  ASSUME NEW T, NEW x \in Seq(T), NEW y \in Seq(T)
  PROVE  /\ x \o y \in Seq(T) /\ Len(x \o y) = Len(x) + Len(y) /\ Len(x) \in Nat /\ Len(y) \in Nat
         /\ \A i \in 1 .. Len(x) : (x \o y)[i] = x[i]
         /\ \A i \in 1 .. Len(y) : (x \o y)[Len(x) + i] = y[i]
OBVIOUS

(* An escaped text is built piece by piece. *)
LEMMA EscapingSteps ==
  ASSUME NEW v \in Text, v # <<>>
  PROVE  \E g : /\ g[0] = <<>> /\ Escaping(v) = g[Len(v)]
                /\ \A k \in 1 .. Len(v) : g[k] = g[k - 1] \o Piece(v[k]) /\ g[k - 1] \in Seq(Token)
<1> DEFINE N == Len(v)
           s == [i \in DOMAIN v |-> Piece(v[i])]
<1>1. N \in Nat /\ DOMAIN v = 1 .. N /\ N > 0 /\ \A i \in 1 .. N : v[i] \in Token
  <2>1. N # 0
    BY DEF Text
  <2>2. v \in Seq(Token)
    BY TextsOfTokens
  <2>3. N \in Nat /\ DOMAIN v = 1 .. N /\ \A i \in 1 .. N : v[i] \in Token
    BY <2>2
  <2> QED BY <2>1, <2>3
<1>2. Escaping(v) = FlattenSeq(s)
  BY DEF Escaping, Piece
<1> HIDE DEF N
<1> DEFINE T == Seq(Token)
<1>3. s \in Seq(T) /\ s # <<>> /\ Len(s) = N /\ \A i \in 1 .. N : s[i] = Piece(v[i]) /\ s[i] \in T
  <2>1. \A i \in 1 .. N : s[i] = Piece(v[i]) /\ s[i] \in T
    BY <1>1, PieceType
  <2>2. DOMAIN s = 1 .. N /\ s = [i \in 1 .. N |-> s[i]]
    BY <1>1
  <2> HIDE DEF s, T
  <2>3. s \in Seq(T) /\ Len(s) = N
    BY <1>1, <2>1, <2>2
  <2> QED BY <1>1, <2>1, <2>3
<1> HIDE DEF s
<1>4. PICK f : FlattenSeq(s) = f[Len(s)] /\ f[1] = s[1] /\ \A i \in 1 .. Len(s) - 1 : f[i + 1] = f[i] \o s[i + 1]
  BY <1>3, FlattenSteps
<1> DEFINE g == [k \in 0 .. N |-> IF k = 0 THEN <<>> ELSE f[k]]
<1>5. g[0] = <<>> /\ \A k \in 1 .. N : g[k] = f[k]
  BY <1>1
<1> HIDE DEF g
<1>6. Escaping(v) = g[N]
  <2>1. N \in 1 .. N
    BY <1>1
  <2> QED BY <1>2, <1>3, <1>4, <1>5, <2>1
<1>7. ASSUME NEW k \in 1 .. N, g[k - 1] \in T PROVE g[k] = g[k - 1] \o Piece(v[k]) /\ g[k] \in T
  <2>1. Piece(v[k]) \in T
    BY <1>1, PieceType
  <2>2. CASE k = 1
    <3>1. k - 1 = 0
      BY <2>2
    <3>2. g[k - 1] = <<>>
      BY <1>5, <3>1
    <3>3. g[k] = Piece(v[k])
      BY <1>1, <1>3, <1>4, <1>5, <2>2
    <3> DEFINE x == Piece(v[k])
    <3> HIDE DEF x
    <3>4. x \in Seq(Token) => <<>> \o x = x
      OBVIOUS
    <3> QED BY <2>1, <3>2, <3>3, <3>4 DEF x
  <2>3. CASE k # 1
    <3> DEFINE j == k - 1
    <3>1. j \in 1 .. N - 1 /\ j + 1 = k /\ j \in 1 .. N
      BY <1>1, <2>3
    <3>2. f[k] = f[j] \o s[k]
      <4> HIDE DEF j
      <4>1. f[j + 1] = f[j] \o s[j + 1]
        BY <1>3, <1>4, <3>1
      <4> QED BY <3>1, <4>1
    <3>3. g[k] = g[j] \o Piece(v[k])
      <4> HIDE DEF j
      <4> QED BY <1>3, <1>5, <3>1, <3>2
    <3>4. g[k] \in T
      <4> DEFINE x == Piece(v[k])
                 y == g[j]
      <4>1. x \in Seq(Token) /\ y \in Seq(Token)
        BY <1>7, <2>1
      <4> HIDE DEF x, y
      <4>2. y \o x \in Seq(Token)
        BY <4>1
      <4> QED BY <3>3, <4>2 DEF x, y
    <3> QED BY <3>3, <3>4
  <2> QED BY <2>2, <2>3
<1> DEFINE B == {n \in Nat : n <= N => g[n] \in T}
<1>8. 0 \in B
  <2>1. <<>> \in Seq(Token)
    OBVIOUS
  <2>2. g[0] \in T
    BY <1>5, <2>1
  <2> HIDE DEF T
  <2> QED BY <2>2
<1>9. ASSUME NEW n \in Nat, n \in B PROVE n + 1 \in B
  <2> DEFINE m == n + 1
  <2> SUFFICES ASSUME m <= N PROVE g[m] \in T
    OBVIOUS
  <2>1. m \in 1 .. N /\ m - 1 = n /\ n <= N
    BY <1>1
  <2>2. g[n] \in T
    BY <1>9, <2>1
  <2> HIDE DEF m, T
  <2> QED BY <1>7, <2>1, <2>2
<1>10. Nat \subseteq B
  <2> HIDE DEF B
  <2> QED BY <1>8, <1>9, Flattening!Induction
<1>11. ASSUME NEW k \in 1 .. N PROVE g[k - 1] \in T
  <2>1. k - 1 \in Nat /\ k - 1 <= N
    BY <1>1
  <2> QED BY <1>10, <2>1
<1> QED BY <1>5, <1>6, <1>7, <1>11 DEF N

(* Where an escaped text stands, v is laid out. *)
LEMMA LaidOut ==
  ASSUME NEW v \in Text, v # <<>>, NEW o \in Nat, o > 0, NEW t, Len(t) \in Nat,
         o + Len(Escaping(v)) + 1 <= Len(t), t[o + Len(Escaping(v)) + 1] = Quote,
         \A x \in 1 .. Len(Escaping(v)) : t[o + x] = Escaping(v)[x]
  PROVE  /\ Escaping(v) \in Seq(Token)
         /\ \E p : Laid(t, v, p, 0) /\ p[0] = o /\ p[Len(v)] = o + Len(Escaping(v))
<1> DEFINE N == Len(v)
<1>1. N \in Nat /\ N > 0
  <2>1. N # 0
    BY DEF Text
  <2> QED BY <2>1, Counts
<1>2. PICK g : /\ g[0] = <<>> /\ Escaping(v) = g[N]
               /\ \A k \in 1 .. N : g[k] = g[k - 1] \o Piece(v[k]) /\ g[k - 1] \in Seq(Token)
  BY EscapingSteps
<1>3. \A k \in 1 .. N : Piece(v[k]) \in Seq(Token)
  <2>1. \A k \in 1 .. N : v[k] \in Token
    <3>1. v \in Seq(Token)
      BY TextsOfTokens
    <3> QED BY <3>1
  <2> QED BY <2>1, PieceType
<1> HIDE DEF N
<1>4. ASSUME NEW k \in 1 .. N
      PROVE  /\ g[k] \in Seq(Token) /\ Len(g[k]) = Len(g[k - 1]) + Len(Piece(v[k]))
             /\ Len(g[k - 1]) \in Nat /\ Len(g[k]) \in Nat
             /\ \A i \in 1 .. Len(g[k - 1]) : g[k][i] = g[k - 1][i]
             /\ \A i \in 1 .. Len(Piece(v[k])) : g[k][Len(g[k - 1]) + i] = Piece(v[k])[i]
  <2> DEFINE x == g[k - 1]
             y == Piece(v[k])
  <2>1. x \in Seq(Token) /\ y \in Seq(Token) /\ g[k] = x \o y
    BY <1>2, <1>3
  <2> HIDE DEF x, y
  <2>2. /\ x \o y \in Seq(Token) /\ Len(x \o y) = Len(x) + Len(y) /\ Len(x) \in Nat /\ Len(y) \in Nat
        /\ \A i \in 1 .. Len(x) : (x \o y)[i] = x[i]
        /\ \A i \in 1 .. Len(y) : (x \o y)[Len(x) + i] = y[i]
    BY <2>1, JoinOf
  <2> DEFINE z == g[k]
  <2>3. /\ z \in Seq(Token) /\ Len(z) = Len(x) + Len(y) /\ Len(x) \in Nat /\ Len(z) \in Nat
        /\ \A i \in 1 .. Len(x) : z[i] = x[i]
        /\ \A i \in 1 .. Len(y) : z[Len(x) + i] = y[i]
    <3>1. z = x \o y
      BY <2>1
    <3> HIDE DEF z
    <3>2. Len(x) + Len(y) \in Nat
      BY <2>2
    <3> QED BY <2>2, <3>1, <3>2
  <2> HIDE DEF z
  <2> QED BY <2>3, Zenon DEF x, y, z
<1>5. ASSUME NEW k \in 0 .. N
      PROVE  Len(g[k]) \in Nat
  <2>1. CASE k = 0
    BY <1>2, <2>1
  <2>2. CASE k # 0
    <3>1. k \in 1 .. N
      BY <1>1, <2>2
    <3> QED BY <1>4, <3>1
  <2> QED BY <2>1, <2>2
<1>6. ASSUME NEW k \in 0 .. N
      PROVE  Len(g[k]) <= Len(g[N]) /\ \A x \in 1 .. Len(g[k]) : g[N][x] = g[k][x]
  <2> DEFINE B == {n \in Nat : k + n <= N => Len(g[k]) <= Len(g[k + n]) /\ \A x \in 1 .. Len(g[k]) : g[k + n][x] = g[k][x]}
  <2>1. 0 \in B
    <3>1. k + 0 = k
      BY <1>1
    <3>2. Len(g[k]) <= Len(g[k])
      BY <1>5
    <3> QED BY <3>1, <3>2
  <2>2. ASSUME NEW n \in Nat, n \in B PROVE n + 1 \in B
    <3> DEFINE m == k + (n + 1)
    <3> SUFFICES ASSUME m <= N
                 PROVE  Len(g[k]) <= Len(g[m]) /\ \A x \in 1 .. Len(g[k]) : g[m][x] = g[k][x]
      OBVIOUS
    <3>1. m \in 1 .. N /\ m - 1 = k + n /\ k + n <= N
      BY <1>1
    <3>2. Len(g[k]) <= Len(g[m - 1]) /\ \A x \in 1 .. Len(g[k]) : g[m - 1][x] = g[k][x]
      BY <2>2, <3>1
    <3> HIDE DEF m
    <3>3. /\ Len(g[m]) = Len(g[m - 1]) + Len(Piece(v[m])) /\ Len(g[m - 1]) \in Nat
          /\ \A i \in 1 .. Len(g[m - 1]) : g[m][i] = g[m - 1][i]
      BY <1>4, <3>1
    <3>4. Len(Piece(v[m])) \in Nat /\ Len(g[k]) \in Nat
      <4> DEFINE y == Piece(v[m])
      <4>1. y \in Seq(Token)
        BY <1>3, <3>1
      <4> HIDE DEF y
      <4>2. Len(y) \in Nat
        BY <4>1
      <4> QED BY <1>5, <4>2 DEF y
    <3> DEFINE a == Len(g[k])
               b == Len(g[m - 1])
               c == Len(g[m])
    <3>5. a <= b /\ c = b + Len(Piece(v[m])) /\ a \in Nat /\ b \in Nat
      BY <3>2, <3>3, <3>4
    <3> HIDE DEF a, b, c
    <3>6. a <= c /\ \A x \in 1 .. a : x \in 1 .. b
      BY <3>4, <3>5
    <3>7. \A x \in 1 .. a : g[m][x] = g[k][x]
      <4>1. \A x \in 1 .. a : g[m - 1][x] = g[k][x]
        BY <3>2 DEF a
      <4>2. \A x \in 1 .. b : g[m][x] = g[m - 1][x]
        BY <3>3 DEF b
      <4> QED BY <3>6, <4>1, <4>2
    <3> QED BY <3>6, <3>7 DEF a, c
  <2>3. Nat \subseteq B
    <3> HIDE DEF B
    <3> QED BY <2>1, <2>2, Flattening!Induction
  <2>4. N - k \in Nat /\ k + (N - k) = N /\ N <= N
    BY <1>1
  <2>5. N - k \in B
    BY <2>3, <2>4
  <2> QED BY <2>4, <2>5
<1> DEFINE p == [k \in 0 .. N |-> o + Len(g[k])]
<1>7. \A k \in 0 .. N : p[k] = o + Len(g[k]) /\ p[k] \in Nat
  <2>1. \A k \in 0 .. N : p[k] = o + Len(g[k])
    OBVIOUS
  <2> HIDE DEF p
  <2> QED BY <1>5, <2>1
<1> HIDE DEF p
<1>8. p[0] = o
  <2>1. Len(g[0]) = 0
    BY <1>2
  <2>2. 0 \in 0 .. N
    BY <1>1
  <2> QED BY <1>7, <2>1, <2>2
<1>9. p[N] = o + Len(Escaping(v)) /\ Escaping(v) \in Seq(Token)
  <2>1. N \in 0 .. N /\ N \in 1 .. N
    BY <1>1
  <2> QED BY <1>2, <1>4, <1>7, <2>1
<1>10. ASSUME NEW k \in 1 .. N PROVE LaidFrom(t, v, p, 0, k)
  <2> DEFINE n == Len(g[k - 1])
             m == Len(g[k])
             c == v[k]
             r == Len(Piece(c))
  <2>1. k \in 0 .. N /\ k - 1 \in 0 .. N
    BY <1>1
  <2>2. m = n + r /\ n \in Nat /\ m \in Nat /\ p[k] = o + m /\ p[k - 1] = o + n
        /\ \A i \in 1 .. r : g[k][n + i] = Piece(c)[i]
    BY <1>4, <1>7, <2>1
  <2>3. \A x \in 1 .. m : t[o + x] = g[k][x]
    <3> DEFINE M == Len(g[N])
    <3>1. m <= M /\ \A x \in 1 .. m : g[N][x] = g[k][x]
      BY <1>6, <2>1
    <3>2. \A x \in 1 .. M : t[o + x] = g[N][x]
      BY <1>2
    <3>3. M \in Nat
      <4>1. N \in 0 .. N
        BY <1>1
      <4> QED BY <1>5, <4>1
    <3>4. m \in Nat
      BY <2>2
    <3> HIDE DEF M, m
    <3>5. \A x \in 1 .. m : x \in 1 .. M
      BY <3>1, <3>3, <3>4
    <3> QED BY <3>1, <3>2, <3>5
  <2>4. CASE c # Quote
    <3>1. r = 1 /\ Piece(c)[1] = c
      BY <2>4, PieceIs
    <3> HIDE DEF n, m, c, r
    <3>2. m = n + 1 /\ g[k][n + 1] = c /\ n + 1 \in 1 .. m
      BY <2>2, <3>1
    <3>3. t[o + m] = c
      BY <2>3, <3>2
    <3>4. p[k] = p[k - 1] + 1 /\ p[k] \in Nat /\ p[k - 1] \in Nat
      <4> DEFINE a == p[k]
                 b == p[k - 1]
      <4>1. a \in Nat /\ b \in Nat
        BY <1>7, <2>1
      <4>2. a = o + m /\ b = o + n /\ n \in Nat
        BY <2>2
      <4> HIDE DEF a, b
      <4>3. a = b + 1
        BY <3>2, <4>2
      <4> QED BY <4>1, <4>3 DEF a, b
    <3> QED BY <2>2, <2>4, <3>3, <3>4 DEF LaidFrom, c
  <2>5. CASE c = Quote
    <3>1. r = 2 /\ Piece(c)[1] = Backslash /\ Piece(c)[2] = c
      BY <2>5, PieceIs
    <3> HIDE DEF n, m, c, r
    <3>2. m = n + 2 /\ g[k][n + 1] = Backslash /\ g[k][n + 2] = c /\ n + 1 \in 1 .. m /\ n + 2 \in 1 .. m
      BY <2>2, <3>1
    <3>3. t[o + m] = c /\ t[o + (n + 1)] = Backslash
      BY <2>3, <3>2
    <3>4. p[k] = p[k - 1] + 2 /\ p[k] \in Nat /\ p[k - 1] \in Nat /\ p[k] - 1 = o + (n + 1)
      <4> DEFINE a == p[k]
                 b == p[k - 1]
      <4>1. a \in Nat /\ b \in Nat
        BY <1>7, <2>1
      <4>2. a = o + m /\ b = o + n /\ n \in Nat
        BY <2>2
      <4> HIDE DEF a, b
      <4>3. m = n + 2
        BY <3>2
      <4>4. a = b + 2
        BY <4>2, <4>3
      <4>5. a - 1 = o + (n + 1)
        BY <4>2, <4>3
      <4> QED BY <4>1, <4>4, <4>5 DEF a, b
    <3>5. ~(k <= 0)
      BY <1>1
    <3> QED BY <2>2, <2>5, <3>3, <3>4, <3>5 DEF LaidFrom, c
  <2> QED BY <2>4, <2>5
<1>11. Laid(t, v, p, 0)
  <2>1. p[0] \in Nat /\ p[0] > 0
    BY <1>8
  <2>2. p[N] + 1 <= Len(t) /\ t[p[N] + 1] = Quote
    BY <1>9
  <2> QED BY <1>10, <2>1, <2>2 DEF Laid, N
<1> QED BY <1>8, <1>9, <1>11 DEF N

(* The place c is that of the next quote of v behind v[j], or the closing one. *)
NextOf(v, p, j, c) ==
  \/ \E k \in j + 1 .. Len(v) : v[k] = Quote /\ c = p[k] /\ \A m \in j + 1 .. k - 1 : v[m] # Quote
  \/ c = p[Len(v)] + 1 /\ \A m \in j + 1 .. Len(v) : v[m] # Quote

(* A quote is told apart from what stands beside it. *)
LEMMA QuotesDiffer == Backslash # Quote /\ Space # Quote /\ Comment # Quote
BY Zenon DEF Backslash, Quote, Space, Comment

(* From one character to the next. *)
LEMMA LaidStep ==
  ASSUME NEW v, NEW t, NEW p, NEW i \in Nat, Laid(t, v, p, i), NEW k \in 1 .. Len(v)
  PROVE  /\ p[k] \in Nat /\ p[k - 1] \in Nat /\ t[p[k]] = v[k]
         /\ \/ p[k] = p[k - 1] + 1
            \/ p[k] = p[k - 1] + 2 /\ v[k] = Quote /\ t[p[k] - 1] = Backslash
<1>1. LaidFrom(t, v, p, i, k)
  BY DEF Laid
<1>2. /\ p[k] \in Nat /\ p[k - 1] \in Nat /\ t[p[k]] = v[k]
      /\ v[k] # Quote \/ k <= i => p[k] = p[k - 1] + 1
      /\ v[k] = Quote /\ i < k => p[k] = p[k - 1] + 2 /\ t[p[k] - 1] = Backslash
  BY <1>1 DEF LaidFrom
<1>3. k <= i \/ i < k
  OBVIOUS
<1> QED BY <1>2, <1>3

(* Characters are laid out in their order. *)
LEMMA LaidOrder ==
  ASSUME NEW v \in Text, NEW t, NEW p, NEW i \in Nat, Laid(t, v, p, i), NEW j \in 0 .. Len(v), NEW k \in j .. Len(v)
  PROVE  p[j] \in Nat /\ p[k] \in Nat /\ p[j] + (k - j) <= p[k]
<1> DEFINE N == Len(v)
<1>1. N \in Nat
  BY Counts
<1>2. \A x \in 1 .. N : p[x] \in Nat /\ p[x - 1] \in Nat /\ p[x - 1] + 1 <= p[x]
  <2>1. ASSUME NEW x \in 1 .. N PROVE p[x] \in Nat /\ p[x - 1] \in Nat /\ p[x - 1] + 1 <= p[x]
    <3> DEFINE a == p[x]
               b == p[x - 1]
    <3>1. a \in Nat /\ b \in Nat /\ (a = b + 1 \/ a = b + 2)
      BY LaidStep
    <3> HIDE DEF a, b
    <3>2. b + 1 <= a
      BY <3>1
    <3> QED BY <3>1, <3>2 DEF a, b
  <2> QED BY <2>1
<1>3. p[j] \in Nat
  <2>1. CASE j = 0
    BY <2>1 DEF Laid
  <2>2. CASE j # 0
    <3>1. j \in 1 .. N
      BY <1>1, <2>2
    <3> QED BY <1>2, <3>1
  <2> QED BY <2>1, <2>2
<1> HIDE DEF N
<1> DEFINE B == {n \in Nat : j + n <= N => p[j + n] \in Nat /\ p[j] + n <= p[j + n]}
<1>4. 0 \in B
  <2>1. j + 0 = j /\ p[j] + 0 <= p[j]
    BY <1>1, <1>3
  <2> QED BY <1>3, <2>1
<1>5. ASSUME NEW n \in Nat, n \in B PROVE n + 1 \in B
  <2> DEFINE m == j + (n + 1)
  <2> SUFFICES ASSUME m <= N PROVE p[m] \in Nat /\ p[j] + (n + 1) <= p[m]
    OBVIOUS
  <2>1. m \in 1 .. N /\ m - 1 = j + n /\ j + n <= N
    BY <1>1
  <2> DEFINE a == p[m]
             b == p[m - 1]
             c == p[j]
  <2>2. b \in Nat /\ c + n <= b
    BY <1>5, <2>1
  <2>3. a \in Nat /\ b + 1 <= a
    <3> HIDE DEF m
    <3> QED BY <1>2, <2>1
  <2>4. c \in Nat
    BY <1>3
  <2> HIDE DEF a, b, c, m
  <2>5. c + (n + 1) <= a
    BY <2>2, <2>3, <2>4
  <2> QED BY <2>3, <2>5 DEF a, c
<1>6. Nat \subseteq B
  <2> HIDE DEF B
  <2> QED BY <1>4, <1>5, Flattening!Induction
<1>7. k - j \in Nat /\ j + (k - j) = k /\ k <= N
  BY <1>1 DEF N
<1>8. k - j \in B
  BY <1>6, <1>7
<1> QED BY <1>3, <1>7, <1>8

(* Only the quotes of v are quotes. *)
LEMMA QuotesOf ==
  ASSUME NEW v \in Text, NEW t, NEW p, NEW i \in Nat, Laid(t, v, p, i), NEW j \in 0 .. Len(v),
         NEW x \in Nat, p[j] < x, x <= p[Len(v)], t[x] = Quote
  PROVE  \E k \in j + 1 .. Len(v) : v[k] = Quote /\ x = p[k]
<1> DEFINE N == Len(v)
           Found == \E k \in j + 1 .. Len(v) : v[k] = Quote /\ x = p[k]
<1>1. N \in Nat
  BY Counts
<1> HIDE DEF N, Found
<1> DEFINE B == {n \in Nat : j + n <= N /\ x <= p[j + n] => Found}
<1>2. 0 \in B
  <2>1. j + 0 = j /\ p[j] \in Nat
    BY <1>1, LaidOrder DEF N
  <2>2. ~(x <= p[j])
    BY <2>1
  <2> QED BY <2>1, <2>2
<1>3. ASSUME NEW n \in Nat, n \in B PROVE n + 1 \in B
  <2> DEFINE m == j + (n + 1)
  <2> SUFFICES ASSUME m <= N, x <= p[m] PROVE Found
    OBVIOUS
  <2>1. m \in 1 .. N /\ m - 1 = j + n /\ j + n <= N /\ m \in j + 1 .. N
    BY <1>1
  <2>2. x <= p[m - 1] => Found
    BY <1>3, <2>1
  <2> HIDE DEF m
  <2> DEFINE a == p[m]
             b == p[m - 1]
  <2>3. /\ a \in Nat /\ b \in Nat /\ t[a] = v[m]
        /\ a = b + 1 \/ (a = b + 2 /\ t[a - 1] = Backslash)
    BY <2>1, LaidStep DEF N
  <2> SUFFICES ASSUME ~(x <= b) PROVE Found
    BY <2>2
  <2>4. x <= a
    OBVIOUS
  <2> HIDE DEF a, b
  <2>5. x = a \/ (x = a - 1 /\ t[a - 1] = Backslash)
    BY <2>3, <2>4
  <2>6. x = a
    BY <2>5, QuotesDiffer
  <2> QED BY <2>1, <2>3, <2>6 DEF Found, a, N
<1>4. Nat \subseteq B
  <2> HIDE DEF B
  <2> QED BY <1>2, <1>3, Flattening!Induction
<1>5. N - j \in Nat /\ j + (N - j) = N /\ N <= N
  BY <1>1 DEF N
<1>6. N - j \in B
  BY <1>4, <1>5
<1>7. Found
  BY <1>5, <1>6 DEF N
<1> QED BY <1>7 DEF Found

(* The search for a quote. *)
LEMMA NextQuote ==
  ASSUME NEW v \in Text, NEW t \in Seq(Token), NEW p, NEW i \in Nat, Laid(t, v, p, i), NEW j \in 0 .. Len(v),
         NEW start \in Nat, p[j] < start, start <= p[Len(v)] + 1,
         \A k \in j + 1 .. Len(v) : v[k] = Quote => start <= p[k]
  PROVE  NextOf(v, p, j, find(t, Quote, start))
<1> DEFINE N == Len(v)
           Q == {k \in j + 1 .. N : v[k] = Quote}
<1>1. N \in Nat /\ Len(t) \in Nat
  BY Counts
<1>2. p[N] \in Nat /\ p[N] + 1 <= Len(t) /\ t[p[N] + 1] = Quote
  <2>1. N \in 0 .. N /\ N \in N .. N
    BY <1>1
  <2>2. p[N] \in Nat
    BY <2>1, LaidOrder
  <2> QED BY <2>2 DEF Laid
<1>3. ASSUME NEW x \in Nat, start <= x, x <= p[N], t[x] = Quote
      PROVE  \E k \in Q : x = p[k]
  <2>1. p[j] \in Nat
    <3>1. j \in j .. N
      BY <1>1
    <3> QED BY <3>1, LaidOrder
  <2> DEFINE a == p[j]
  <2>2. a < x
    <3>1. a \in Nat /\ a < start
      BY <2>1
    <3> HIDE DEF a
    <3> QED BY <1>3, <3>1
  <2>3. \E k \in j + 1 .. N : v[k] = Quote /\ x = p[k]
    BY <1>3, <2>2, QuotesOf
  <2> QED BY <2>3
<1>4. CASE Q = {}
  <2> DEFINE c == p[N] + 1
  <2>1. c \in start .. Len(t) /\ t[c] = Quote
    BY <1>1, <1>2
  <2>2. \A x \in start .. c - 1 : t[x] # Quote
    <3>1. ASSUME NEW x \in start .. c - 1 PROVE t[x] # Quote
      <4>1. x \in Nat /\ start <= x /\ x <= p[N]
        BY <1>2
      <4> HIDE DEF Q
      <4> QED BY <1>3, <1>4, <4>1
    <3> QED BY <3>1
  <2>3. find(t, Quote, start) = c
    <3> HIDE DEF c
    <3> QED BY <2>1, <2>2, FindAt
  <2>4. \A m \in j + 1 .. N : v[m] # Quote
    BY <1>4
  <2> QED BY <2>3, <2>4 DEF NextOf
<1>5. CASE Q # {}
  <2>1. Q \subseteq Nat
    BY <1>1
  <2>2. PICK k \in Q : \A m \in Q : k <= m
    <3> HIDE DEF Q
    <3> QED BY <1>5, <2>1, Flattening!LeastNat
  <2>3. k \in j + 1 .. N /\ v[k] = Quote /\ k \in Nat /\ j < k /\ k <= N
    BY <1>1
  <2>4. \A m \in j + 1 .. k - 1 : v[m] # Quote
    <3>1. ASSUME NEW m \in j + 1 .. k - 1 PROVE v[m] # Quote
      <4>1. m \in j + 1 .. N /\ ~(k <= m)
        BY <1>1, <2>3
      <4>2. m \notin Q
        <5> HIDE DEF Q
        <5> QED BY <2>2, <4>1
      <4> QED BY <4>1, <4>2
    <3> QED BY <3>1
  <2> DEFINE c == p[k]
  <2>5. c \in Nat /\ c <= p[N]
    <3>1. k \in 0 .. N /\ N \in k .. N
      BY <1>1, <2>3
    <3>2. c \in Nat /\ c + (N - k) <= p[N]
      BY <3>1, LaidOrder
    <3> HIDE DEF c
    <3> QED BY <1>1, <1>2, <2>3, <3>2
  <2>6. t[c] = Quote
    <3>1. k \in 1 .. N
      BY <1>1, <2>3
    <3>2. t[p[k]] = v[k]
      BY <3>1, LaidStep
    <3> QED BY <2>3, <3>2
  <2>7. c \in start .. Len(t)
    <3>1. start <= c
      BY <2>3
    <3> HIDE DEF c
    <3> QED BY <1>1, <1>2, <2>5, <3>1
  <2>8. \A x \in start .. c - 1 : t[x] # Quote
    <3>1. ASSUME NEW x \in start .. c - 1, t[x] = Quote PROVE FALSE
      <4>1. x \in Nat /\ start <= x /\ x <= p[N]
        <5> HIDE DEF c
        <5> QED BY <1>2, <2>5
      <4>2. PICK m \in Q : x = p[m]
        <5> HIDE DEF Q
        <5> QED BY <1>3, <3>1, <4>1
      <4>3. k <= m /\ m \in j + 1 .. N
        <5>1. k <= m
          BY <2>2
        <5> QED BY <5>1
      <4>4. k \in 0 .. N /\ m \in k .. N
        BY <1>1, <2>3, <4>3
      <4>5. c + (m - k) <= p[m] /\ p[m] = x
        BY <4>2, <4>4, LaidOrder
      <4> HIDE DEF c
      <4> QED BY <2>3, <2>5, <4>1, <4>3, <4>5
    <3> QED BY <3>1
  <2>9. find(t, Quote, start) = c
    <3> HIDE DEF c
    <3> QED BY <2>6, <2>7, <2>8, FindAt
  <2> QED BY <2>3, <2>4, <2>9 DEF NextOf
<1> QED BY <1>4, <1>5

(* What a plain value is. *)
LEMMA PlainIs ==
  ASSUME NEW v \in Text, Plain(v)
  PROVE  /\ Len(v) \in Nat /\ Len(v) > 0 /\ v # <<>>
         /\ \A k \in 1 .. Len(v) : /\ v[k] # Backslash
                                   /\ v[k] = Quote => k < Len(v) - 1 /\ v[k + 1] # Quote
<1>1. Len(v) \in Nat /\ DOMAIN v = 1 .. Len(v)
  BY Counts
<1>2. v # <<>>
  BY DEF Plain
<1>3. Len(v) # 0
  BY <1>2 DEF Text
<1>4. \A k \in 1 .. Len(v) : /\ v[k] # Backslash
                             /\ v[k] = Quote => k < Len(v) - 1 /\ v[k + 1] # Quote
  BY <1>1 DEF Plain
<1> QED BY <1>1, <1>2, <1>3, <1>4

(* What stands behind a quote of v leaves the search room. *)
LEMMA Ahead ==
  ASSUME NEW v \in Text, Plain(v), NEW t, NEW p, NEW i \in Nat, Laid(t, v, p, i),
         NEW k \in 1 .. Len(v), v[k] = Quote, i <= k
  PROVE  /\ p[k] \in Nat /\ p[k] + 3 <= p[Len(v)] + 1
         /\ \A m \in k + 1 .. Len(v) : v[m] = Quote => p[k] + 3 <= p[m]
<1> DEFINE N == Len(v)
<1>1. N \in Nat /\ k < N - 1 /\ v[k + 1] # Quote
  BY PlainIs
<1> DEFINE a == p[k]
           z == p[N]
<1>2. a \in Nat /\ z \in Nat /\ a + (N - k) <= z
  <2>1. k \in 0 .. N /\ N \in k .. N
    BY <1>1
  <2> QED BY <2>1, LaidOrder
<1>3. a + 3 <= z + 1
  <2> HIDE DEF a, z
  <2> QED BY <1>1, <1>2
<1>4. ASSUME NEW m \in k + 1 .. N, v[m] = Quote PROVE a + 3 <= p[m]
  <2>1. m # k + 1
    BY <1>1, <1>4
  <2>2. k \in 0 .. N /\ m - 1 \in k .. N /\ m \in 1 .. N /\ m - 1 - k >= 1 /\ ~(m <= i) /\ i < m
    BY <1>1, <2>1
  <2> DEFINE b == p[m - 1]
             c == p[m]
             n == m - 1
  <2>3. b \in Nat /\ a + (m - 1 - k) <= b
    <3> HIDE DEF a
    <3>1. n \in k .. N
      BY <2>2
    <3> HIDE DEF n
    <3>2. p[n] \in Nat /\ p[k] + (n - k) <= p[n]
      BY <2>2, <3>1, LaidOrder
    <3> QED BY <3>2 DEF n, a
  <2>4. c = b + 2
    <3>1. LaidFrom(t, v, p, i, m)
      BY <2>2 DEF Laid
    <3> QED BY <1>4, <2>2, <3>1 DEF LaidFrom
  <2> HIDE DEF a, b, c
  <2>5. a + 3 <= c
    BY <1>1, <1>2, <2>2, <2>3, <2>4
  <2> QED BY <2>5 DEF c
<1> QED BY <1>2, <1>3, <1>4

(* The closing quote is no escaped one. *)
LEMMA CloseStays ==
  ASSUME NEW v \in Text, Plain(v), NEW t, NEW p, NEW i \in Nat, Laid(t, v, p, i)
  PROVE  p[Len(v)] \in Nat /\ p[Len(v)] >= Len(v) + 1 /\ t[p[Len(v)]] # Backslash
<1> DEFINE N == Len(v)
<1>1. N \in Nat /\ N \in 1 .. N
  BY PlainIs
<1>2. t[p[N]] = v[N] /\ v[N] # Backslash
  BY <1>1, LaidStep, PlainIs
<1> DEFINE a == p[0]
           z == p[N]
<1>3. a \in Nat /\ z \in Nat /\ a + (N - 0) <= z /\ a > 0
  <2>1. 0 \in 0 .. N /\ N \in 0 .. N
    BY <1>1
  <2>2. a > 0
    BY DEF Laid
  <2> QED BY <2>1, <2>2, LaidOrder
<1> HIDE DEF a, z
<1>4. z >= N + 1
  BY <1>1, <1>3
<1> QED BY <1>2, <1>3, <1>4 DEF z

CloseStep(s, at, c) == IF at = 0 \/ s[at - 1] # Backslash THEN at ELSE find(s, Quote, at + 2)
ClosingLoop == INSTANCE Loops WITH Op <- CloseStep

(* Escaped quotes are passed over, one by one. *)
LEMMA ClosingIs ==
  ASSUME NEW v \in Text, Plain(v), NEW t \in Seq(Token), NEW p, Laid(t, v, p, 0)
  PROVE  ClosingQuote(t, find(t, Quote, p[0] + 1)) = p[Len(v)] + 1
<1> DEFINE N == Len(v)
           M == Len(t)
           C == p[N] + 1
           first == find(t, Quote, p[0] + 1)
           On(n, at) == at = C \/ \E k \in 1 .. N : v[k] = Quote /\ at = p[k] /\ n < k
<1>1. N \in Nat /\ M \in Nat /\ DOMAIN t = 1 .. M
  BY PlainIs
<1>2. p[N] \in Nat /\ p[N] >= N + 1 /\ t[p[N]] # Backslash /\ C <= M /\ N <= M
  <2>1. p[N] \in Nat /\ p[N] >= N + 1 /\ t[p[N]] # Backslash
    BY CloseStays
  <2>2. C <= M
    BY DEF Laid
  <2>3. N <= M
    <3> DEFINE z == p[N]
    <3>1. z \in Nat /\ z >= N + 1 /\ z + 1 <= M
      BY <2>1, <2>2
    <3> HIDE DEF z, N, M
    <3> QED BY <1>1, <3>1
  <2> QED BY <2>1, <2>2, <2>3
<1>3. ASSUME NEW n \in Nat, NEW j \in 0 .. N, NEW c, NextOf(v, p, j, c), n <= j
      PROVE  On(n, c)
  <2>1. CASE c = C
    BY <2>1
  <2>2. CASE c # C
    <3>1. PICK k \in j + 1 .. N : v[k] = Quote /\ c = p[k]
      BY <1>3, <2>2 DEF NextOf
    <3>2. k \in 1 .. N /\ n < k
      BY <1>1, <1>3
    <3> QED BY <3>1, <3>2
  <2> QED BY <2>1, <2>2
<1>4. On(0, first)
  <2>1. 0 \in 0 .. N
    BY <1>1
  <2> DEFINE a == p[0]
  <2>2. a \in Nat /\ a + 1 <= p[N] + 1 /\ \A k \in 0 + 1 .. N : a + 1 <= p[k]
    <3>1. ASSUME NEW k \in 1 .. N PROVE a + 1 <= p[k]
      <4>1. k \in 0 .. N
        BY <1>1
      <4>2. a \in Nat /\ p[k] \in Nat /\ a + (k - 0) <= p[k]
        BY <2>1, <4>1, LaidOrder
      <4> DEFINE b == p[k]
      <4>3. b \in Nat /\ a + (k - 0) <= b
        BY <4>2
      <4> HIDE DEF a, b
      <4>4. a + 1 <= b
        BY <1>1, <4>2, <4>3
      <4> QED BY <4>4 DEF b
    <3>2. a \in Nat
      BY <2>1, LaidOrder
    <3>3. N \in 1 .. N
      BY PlainIs
    <3>4. a + 1 <= p[N]
      BY <3>1, <3>3
    <3>5. a + 1 <= p[N] + 1
      <4> DEFINE z == p[N]
      <4>1. z \in Nat /\ a + 1 <= z
        BY <1>2, <3>4
      <4> HIDE DEF a, z
      <4>2. a + 1 <= z + 1
        BY <3>2, <4>1
      <4> QED BY <4>2 DEF z
    <3> QED BY <3>1, <3>2, <3>5
  <2>3. NextOf(v, p, 0, first)
    <3> DEFINE b == a + 1
    <3>1. b \in Nat /\ a < b
      <4> HIDE DEF a
      <4> QED BY <2>2
    <3>2. b <= p[N] + 1 /\ \A k \in 0 + 1 .. N : b <= p[k]
      BY <2>2
    <3>3. p[0] < b
      BY <3>1
    <3> HIDE DEF b, a
    <3>4. NextOf(v, p, 0, find(t, Quote, b))
      BY <2>1, <3>1, <3>2, <3>3, NextQuote
    <3> QED BY <3>4 DEF a, b
  <2> HIDE DEF On, first
  <2> QED BY <1>3, <2>1, <2>3
<1> HIDE DEF first
<1>5. PICK g : ClosingLoop!Run(t, first, t, M, g)
  BY <1>1, ClosingLoop!FoldSteps
<1>6. g[0] = first /\ \A m \in 1 .. M : g[m] = CloseStep(t, g[m - 1], t[m])
  BY <1>5 DEF ClosingLoop!Run
<1>7. ClosingQuote(t, first) = g[M]
  <2>1. ClosingQuote(t, first) = ClosingLoop!Fold(t, first, t)
    BY DEF ClosingQuote, CloseStep, ClosingLoop!Fold, FoldLeft, MapThenFoldSet, ClosingLoop!MapThenFoldSet, Max, ClosingLoop!Max
  <2> QED BY <1>5, <2>1 DEF ClosingLoop!Run
<1>8. ASSUME NEW n \in Nat, NEW at, NEW c, On(n, at)
      PROVE  On(n + 1, CloseStep(t, at, c))
  <2>1. CASE at = C
    <3>1. at - 1 = p[N]
      BY <1>2, <2>1
    <3>2. CloseStep(t, at, c) = at
      BY <1>2, <3>1 DEF CloseStep
    <3> QED BY <2>1, <3>2
  <2>2. CASE at # C
    <3>1. PICK k \in 1 .. N : v[k] = Quote /\ at = p[k] /\ n < k
      BY <1>8, <2>2
    <3>2. k \in 0 .. N /\ k \in Nat /\ k \in k .. N
      BY <1>1
    <3>3. at \in Nat /\ at > 0 /\ t[at - 1] = Backslash
      <4>1. LaidFrom(t, v, p, 0, k)
        BY DEF Laid
      <4>2. at \in Nat /\ p[k - 1] \in Nat /\ at = p[k - 1] + 2 /\ t[at - 1] = Backslash
        BY <3>1, <4>1 DEF LaidFrom
      <4> QED BY <4>2
    <3>4. CloseStep(t, at, c) = find(t, Quote, at + 2)
      BY <3>3 DEF CloseStep
    <3>5. at + 3 <= C /\ \A m \in k + 1 .. N : v[m] = Quote => at + 3 <= p[m]
      BY <3>1, <3>2, Ahead
    <3>6. at + 2 \in Nat /\ at < at + 2 /\ at + 2 <= C /\ \A m \in k + 1 .. N : v[m] = Quote => at + 2 <= p[m]
      <4>1. C \in Nat /\ \A m \in k + 1 .. N : p[m] \in Nat
        <5>1. ASSUME NEW m \in k + 1 .. N PROVE p[m] \in Nat
          <6>1. m \in k .. N
            BY <1>1, <3>2
          <6> QED BY <3>2, <6>1, LaidOrder
        <5> QED BY <1>2, <5>1
      <4> HIDE DEF C
      <4> QED BY <3>3, <3>5, <4>1
    <3>7. NextOf(v, p, k, find(t, Quote, at + 2))
      <4> DEFINE b == at + 2
      <4>1. b \in Nat /\ p[k] < b /\ b <= p[N] + 1 /\ \A m \in k + 1 .. N : v[m] = Quote => b <= p[m]
        BY <3>1, <3>6
      <4> HIDE DEF b
      <4>2. NextOf(v, p, k, find(t, Quote, b))
        BY <3>2, <4>1, NextQuote
      <4> QED BY <4>2 DEF b
    <3>8. n + 1 \in Nat /\ n + 1 <= k
      BY <3>1, <3>2
    <3> HIDE DEF On
    <3> QED BY <1>3, <3>2, <3>4, <3>7, <3>8
  <2> QED BY <2>1, <2>2
<1> HIDE DEF On
<1> DEFINE B == {n \in Nat : n <= M => On(n, g[n])}
<1>9. 0 \in B
  BY <1>4, <1>6
<1>10. ASSUME NEW n \in Nat, n \in B PROVE n + 1 \in B
  <2> DEFINE m == n + 1
  <2> SUFFICES ASSUME m <= M PROVE On(n + 1, g[m])
    OBVIOUS
  <2>1. m \in 1 .. M /\ m - 1 = n /\ n <= M
    BY <1>1
  <2>2. On(n, g[n])
    BY <1>10, <2>1
  <2> HIDE DEF m
  <2>3. g[m] = CloseStep(t, g[n], t[m])
    BY <1>6, <2>1
  <2> QED BY <1>8, <2>2, <2>3
<1>11. Nat \subseteq B
  <2> HIDE DEF B
  <2> QED BY <1>9, <1>10, ClosingLoop!Induction
<1>12. On(M, g[M])
  <2>1. M \in B /\ M <= M
    BY <1>1, <1>11
  <2> QED BY <2>1
<1>13. g[M] = C
  <2>1. ~\E k \in 1 .. N : M < k
    BY <1>1, <1>2
  <2> HIDE DEF C, M, N
  <2> QED BY <1>12, <2>1 DEF On
<1> QED BY <1>7, <1>13 DEF first

(* A sequence without one element. *)
LEMMA RemovedIs ==
  ASSUME NEW T, NEW s \in Seq(T), NEW d \in 1 .. Len(s)
  PROVE  /\ RemoveAt(s, d) \in Seq(T) /\ Len(RemoveAt(s, d)) = Len(s) - 1
         /\ \A x \in 1 .. d - 1 : RemoveAt(s, d)[x] = s[x]
         /\ \A x \in d .. Len(s) - 1 : RemoveAt(s, d)[x] = s[x + 1]
<1> DEFINE a == SubSeq(s, 1, d - 1)
           b == SubSeq(s, d + 1, Len(s))
           r == RemoveAt(s, d)
           n == d - 1
           k == Len(s) - d
<1>1. a \in Seq(T) /\ Len(a) = n /\ \A x \in 1 .. n : a[x] = s[x]
  OBVIOUS
<1>2. b \in Seq(T) /\ Len(b) = k /\ \A x \in 1 .. k : b[x] = s[d + x]
  OBVIOUS
<1>3. r = a \o b
  BY DEF RemoveAt
<1>4. n \in Nat /\ k \in Nat /\ n + 1 = d /\ n + k = Len(s) - 1 /\ d \in Nat
  OBVIOUS
<1> HIDE DEF a, b, r, n, k
<1>5. /\ r \in Seq(T) /\ Len(r) = n + k
      /\ \A x \in 1 .. n : r[x] = a[x]
      /\ \A x \in 1 .. k : r[n + x] = b[x]
  <2>1. /\ a \o b \in Seq(T) /\ Len(a \o b) = Len(a) + Len(b)
        /\ \A x \in 1 .. Len(a) : (a \o b)[x] = a[x]
        /\ \A x \in 1 .. Len(b) : (a \o b)[Len(a) + x] = b[x]
    <3>1. a \in Seq(T) /\ b \in Seq(T)
      BY <1>1, <1>2
    <3> QED BY <3>1, SMTT(30)
  <2>2. Len(a) = n /\ Len(b) = k
    BY <1>1, <1>2
  <2> QED BY <1>3, <2>1, <2>2, Zenon
<1>6. \A x \in 1 .. n : r[x] = s[x]
  BY <1>1, <1>5
<1>7. ASSUME NEW x \in d .. Len(s) - 1 PROVE r[x] = s[x + 1]
  <2> DEFINE y == x - n
  <2>1. y \in 1 .. k /\ n + y = x /\ d + y = x + 1
    BY <1>4
  <2> HIDE DEF y
  <2>2. r[n + y] = b[y] /\ b[y] = s[d + y]
    BY <1>2, <1>5, <2>1
  <2> QED BY <2>1, <2>2
<1> QED BY <1>4, <1>5, <1>6, <1>7 DEF r, n

Moved(p, N, k) == [m \in 0 .. N |-> IF m < k THEN p[m] ELSE p[m] - 1]

(* An escaped text between two quotes. *)
Enclosed(t, v, p, i) ==
  /\ t \in Seq(Token) /\ Laid(t, v, p, i) /\ p[0] = 1 /\ Len(t) = p[Len(v)] + 1

(* With its next escape gone the text is laid out one quote further. *)
LEMMA EscapeGone ==
  ASSUME NEW v \in Text, Plain(v), NEW t, NEW p, NEW i \in Nat, Enclosed(t, v, p, i),
         NEW k \in i + 1 .. Len(v), v[k] = Quote, \A m \in i + 1 .. k - 1 : v[m] # Quote
  PROVE  LET q == Moved(p, Len(v), k)
         IN  Enclosed(RemoveAt(t, p[k] - 1), v, q, k) /\ q[k] = p[k] - 1
<1> DEFINE N == Len(v)
           M == Len(t)
           q == Moved(p, N, k)
           d == p[k] - 1
           t2 == RemoveAt(t, d)
<1>1. N \in Nat /\ k \in 1 .. N /\ k \in Nat /\ i < k
  <2>1. N \in Nat
    BY PlainIs
  <2> QED BY <2>1
<1>2. /\ t \in Seq(Token) /\ Laid(t, v, p, i) /\ p[0] = 1 /\ M = p[N] + 1 /\ M \in Nat
      /\ t[p[N] + 1] = Quote
  BY DEF Enclosed, Laid
<1>3. \A m \in 0 .. N : p[m] \in Nat
  <2>1. ASSUME NEW m \in 0 .. N PROVE p[m] \in Nat
    <3>1. m \in m .. N
      BY <1>1
    <3> QED BY <1>2, <3>1, LaidOrder
  <2> QED BY <2>1
<1>4. ASSUME NEW m \in 1 .. N
      PROVE  /\ p[m] \in Nat /\ p[m - 1] \in Nat /\ t[p[m]] = v[m]
             /\ v[m] # Quote \/ m <= i => p[m] = p[m - 1] + 1
             /\ v[m] = Quote /\ i < m => p[m] = p[m - 1] + 2 /\ t[p[m] - 1] = Backslash
  BY <1>2 DEF Laid, LaidFrom
<1>5. p[k] = p[k - 1] + 2 /\ p[k] \in Nat /\ p[k - 1] \in Nat /\ t[p[k]] = v[k] /\ t[d] = Backslash
  BY <1>1, <1>4
<1>6. ASSUME NEW a \in 0 .. N, NEW b \in a .. N PROVE p[a] \in Nat /\ p[b] \in Nat /\ p[a] + (b - a) <= p[b]
  BY <1>2, LaidOrder
<1>7. d \in 1 .. M /\ p[k] <= p[N] /\ d = p[k - 1] + 1
  <2>1. k \in 0 .. N /\ N \in k .. N
    BY <1>1
  <2>2. p[N] \in Nat /\ p[k] + (N - k) <= p[N]
    BY <1>6, <2>1
  <2> DEFINE a == p[k]
             b == p[k - 1]
             z == p[N]
  <2>3. a = b + 2 /\ b \in Nat /\ a \in Nat /\ z \in Nat /\ M = z + 1 /\ a + (N - k) <= z /\ d = a - 1
    BY <1>2, <1>5, <2>2
  <2> HIDE DEF a, b, z, d, M, N
  <2>4. d \in 1 .. M /\ a <= z /\ d = b + 1
    BY <1>1, <2>3
  <2> QED BY <2>4 DEF a, b, z
<1>8. /\ t2 \in Seq(Token) /\ Len(t2) = M - 1
      /\ \A x \in 1 .. d - 1 : t2[x] = t[x]
      /\ \A x \in d .. M - 1 : t2[x] = t[x + 1]
  <2> HIDE DEF d
  <2> QED BY <1>2, <1>7, RemovedIs
<1>9. /\ \A m \in 0 .. N : m < k => q[m] = p[m]
      /\ \A m \in 0 .. N : ~(m < k) => q[m] = p[m] - 1
  BY DEF Moved
<1> HIDE DEF q, t2
<1>10. /\ q[0] = 1 /\ q[k] = d /\ q[N] = p[N] - 1
  <2>1. 0 \in 0 .. N /\ k \in 0 .. N /\ N \in 0 .. N /\ 0 < k /\ ~(k < k) /\ ~(N < k)
    BY <1>1
  <2> QED BY <1>2, <1>9, <2>1
<1>11. Len(t2) = q[N] + 1 /\ t2[q[N] + 1] = Quote
  <2> DEFINE z == p[N]
  <2>1. z \in Nat /\ z >= d + 1 /\ M = z + 1 /\ d \in Nat
    <3> DEFINE a == p[k]
    <3>1. d = a - 1 /\ a <= z /\ a \in Nat
      BY <1>5, <1>7
    <3>2. z \in Nat
      <4>1. N \in 0 .. N
        BY <1>1
      <4> QED BY <1>3, <4>1
    <3>3. d \in Nat /\ M = z + 1
      BY <1>2, <1>7
    <3> HIDE DEF a, d, z, M
    <3> QED BY <3>1, <3>2, <3>3
  <2>2. q[N] + 1 = z
    BY <1>10, <2>1
  <2>3. z \in d .. M - 1
    <3> HIDE DEF d, z, M
    <3> QED BY <2>1
  <2>4. t2[z] = t[z + 1]
    BY <1>8, <2>3
  <2>5. t[z + 1] = Quote
    BY <1>2
  <2>6. Len(t2) = z
    <3>1. Len(t2) = M - 1
      BY <1>8
    <3> HIDE DEF z, M
    <3> QED BY <2>1, <3>1
  <2> QED BY <2>2, <2>4, <2>5, <2>6
<1>12. ASSUME NEW m \in 1 .. N PROVE LaidFrom(t2, v, q, k, m)
  <2> DEFINE a == p[m]
             b == p[m - 1]
             n == m - 1
  <2>0. m \in 0 .. N /\ n \in 0 .. N /\ m \in Nat
    BY <1>1
  <2>1. a \in Nat /\ b \in Nat /\ t[a] = v[m] /\ d \in Nat
    BY <1>4, <1>7
  <2>2. CASE m < k
    <3>1. q[m] = a /\ q[n] = b
      <4>1. n < k
        BY <1>1, <2>0, <2>2
      <4> QED BY <1>9, <2>0, <2>2, <4>1
    <3>2. a = b + 1
      <4>1. m <= i \/ m \in i + 1 .. k - 1
        BY <1>1, <2>2
      <4>2. v[m] # Quote \/ m <= i
        BY <4>1
      <4> QED BY <1>4, <4>2
    <3>3. a \in 1 .. d - 1
      <4>1. m \in 0 .. N /\ k - 1 \in m .. N
        BY <1>1, <2>2
      <4> DEFINE c == p[k - 1]
                 j == k - 1
      <4>2. a + (k - 1 - m) <= c /\ c \in Nat
        <5>1. j \in m .. N
          BY <4>1
        <5> HIDE DEF j
        <5>2. p[m] + (j - m) <= p[j] /\ p[j] \in Nat
          BY <1>6, <4>1, <5>1
        <5> QED BY <5>2 DEF j
      <4>3. d = c + 1
        BY <1>7
      <4> HIDE DEF a, b, c, d
      <4> QED BY <1>1, <2>1, <2>2, <3>2, <4>2, <4>3
    <3>4. t2[a] = v[m]
      BY <1>8, <2>1, <3>3
    <3> HIDE DEF a, b
    <3>5. q[m] \in Nat /\ q[m - 1] \in Nat /\ t2[q[m]] = v[m] /\ q[m] = q[m - 1] + 1
      BY <2>1, <3>1, <3>2, <3>4
    <3>6. ~(k < m)
      BY <1>1, <2>2
    <3> QED BY <3>5, <3>6 DEF LaidFrom
  <2>3. CASE m = k
    <3>1. q[m] = d /\ q[n] = b /\ d = b + 1
      <4>1. n < k
        BY <1>1, <2>0, <2>3
      <4> QED BY <1>7, <1>9, <1>10, <2>0, <2>3, <4>1
    <3>2. d \in d .. M - 1 /\ d + 1 = a
      <4> DEFINE z == p[N]
                 e == p[k]
      <4>1. e <= z /\ M = z + 1 /\ d = e - 1 /\ e \in Nat /\ z \in Nat /\ d \in Nat /\ e = a
        <5>1. N \in 0 .. N
          BY <1>1
        <5> QED BY <1>2, <1>3, <1>5, <1>7, <2>3, <5>1
      <4> HIDE DEF a, d, e, z, M
      <4> QED BY <4>1
    <3>3. t2[d] = v[m]
      <4>1. t2[d] = t[d + 1]
        BY <1>8, <3>2
      <4> QED BY <2>1, <3>2, <4>1
    <3> HIDE DEF a, b, d
    <3>4. q[m] \in Nat /\ q[m - 1] \in Nat /\ t2[q[m]] = v[m] /\ q[m] = q[m - 1] + 1
      BY <2>1, <3>1, <3>3
    <3>5. ~(k < m)
      BY <1>1, <2>3
    <3> QED BY <3>4, <3>5 DEF LaidFrom
  <2>4. CASE k < m
    <3>1. q[m] = a - 1 /\ q[n] = b - 1
      <4>1. ~(n < k) /\ ~(m < k)
        BY <1>1, <2>0, <2>4
      <4> QED BY <1>9, <2>0, <4>1
    <3>2. b >= d + 1
      <4> DEFINE e == p[k]
      <4>1. e + (n - k) <= b /\ e \in Nat /\ n >= k
        <5>1. k \in 0 .. N /\ n \in k .. N
          BY <1>1, <2>4
        <5> HIDE DEF n
        <5>2. p[k] \in Nat /\ p[k] + (n - k) <= p[n]
          BY <1>6, <5>1
        <5>3. n >= k
          BY <1>1, <5>1
        <5> QED BY <5>2, <5>3 DEF n
      <4>2. d = e - 1
        OBVIOUS
      <4> HIDE DEF b, d, e, n
      <4> QED BY <1>1, <2>0, <2>1, <4>1, <4>2
    <3>3. a <= M - 1
      <4>1. N \in m .. N
        BY <1>1, <2>0
      <4> DEFINE z == p[N]
      <4>2. z \in Nat /\ a + (N - m) <= z /\ M = z + 1
        BY <1>2, <1>6, <2>0, <4>1
      <4>3. m <= N /\ m \in Nat
        BY <1>1
      <4> HIDE DEF a, z, M, N
      <4> QED BY <1>1, <2>1, <4>2, <4>3
    <3>4. a = b + 1 \/ (a = b + 2 /\ v[m] = Quote /\ t[a - 1] = Backslash)
      <4>1. v[m] # Quote \/ (v[m] = Quote /\ i < m)
        BY <1>1, <2>4
      <4> QED BY <1>4, <4>1
    <3>5. v[m] # Quote => a = b + 1
      BY <1>4
    <3>6. v[m] = Quote => a = b + 2 /\ t[a - 1] = Backslash
      <4>1. i < m
        BY <1>1, <2>4
      <4> QED BY <1>4, <4>1
    <3>7. ~(m <= k)
      BY <1>1, <2>4
    <3>8. t2[a - 1] = v[m] /\ a - 1 \in Nat /\ b - 1 \in Nat
      <4> DEFINE x == a - 1
      <4>1. x \in d .. M - 1 /\ x + 1 = a /\ x \in Nat /\ b - 1 \in Nat
        <5> HIDE DEF a, b, d, M
        <5> QED BY <1>2, <2>1, <3>2, <3>3, <3>4
      <4> HIDE DEF x
      <4>2. t2[x] = t[x + 1]
        BY <1>8, <4>1
      <4> QED BY <2>1, <4>1, <4>2 DEF x
    <3>9. a = b + 2 => t2[a - 1 - 1] = t[a - 1]
      <4> SUFFICES ASSUME a = b + 2 PROVE t2[a - 1 - 1] = t[a - 1]
        OBVIOUS
      <4> DEFINE x == a - 1 - 1
      <4>1. x \in d .. M - 1 /\ x + 1 = a - 1
        <5> HIDE DEF a, b, d, M
        <5> QED BY <1>2, <2>1, <3>2, <3>3
      <4> HIDE DEF x
      <4>2. t2[x] = t[x + 1]
        BY <1>8, <4>1
      <4> QED BY <4>1, <4>2 DEF x
    <3> DEFINE a2 == q[m]
               b2 == q[m - 1]
    <3>10. a2 = a - 1 /\ b2 = b - 1 /\ a2 - 1 = a - 1 - 1
      BY <3>1
    <3> HIDE DEF a, b, a2, b2
    <3>11. a2 \in Nat /\ b2 \in Nat /\ t2[a2] = v[m]
      BY <3>8, <3>10
    <3>12. v[m] # Quote => a2 = b2 + 1
      BY <2>1, <3>5, <3>10
    <3>13. v[m] = Quote => a2 = b2 + 2 /\ t2[a2 - 1] = Backslash
      <4>1. v[m] = Quote => a2 = b2 + 2
        BY <2>1, <3>6, <3>10
      <4>2. v[m] = Quote => t2[a2 - 1] = Backslash
        BY <3>6, <3>9, <3>10
      <4> QED BY <4>1, <4>2
    <3> QED BY <3>7, <3>11, <3>12, <3>13 DEF LaidFrom, a2, b2
  <2> QED BY <1>1, <2>0, <2>2, <2>3, <2>4
<1>13. Laid(t2, v, q, k)
  <2>1. q[N] + 1 <= Len(t2)
    <3> DEFINE y == q[N] + 1
    <3>1. Len(t2) = y /\ Len(t2) \in Nat
      BY <1>8, <1>11
    <3> HIDE DEF y
    <3>2. y <= Len(t2)
      BY <3>1
    <3> QED BY <3>2 DEF y
  <2> QED BY <1>10, <1>11, <1>12, <2>1 DEF Laid
<1> QED BY <1>8, <1>10, <1>11, <1>13 DEF Enclosed, q, t2

UnquoteStep(p, u, c) ==
  IF u.close = 0 \/ u.text[u.close - 1] # Backslash THEN u
  ELSE LET t == RemoveAt(u.text, u.close - 1)
       IN  [text |-> t, close |-> find(t, Quote, u.close + 2)]
Unquote == INSTANCE Loops WITH Op <- UnquoteStep

(* After n rounds: the next quote to be freed stands behind v[n], if there is one. *)
FreedTo(v, u, n, p, i) ==
  /\ i \in 0 .. Len(v) /\ Enclosed(u.text, v, p, i) /\ NextOf(v, p, i, u.close)
  /\ u.close = p[Len(v)] + 1 \/ n <= i
Freed(v, u, n) == \E p, i : FreedTo(v, u, n, p, i)

(* One step of the loop frees one quote. *)
LEMMA EscapesFreed ==
  ASSUME NEW v \in Text, Plain(v), NEW u, NEW n \in Nat, Freed(v, u, n), NEW c
  PROVE  Freed(v, UnquoteStep(0, u, c), n + 1)
<1> DEFINE N == Len(v)
<1>1. PICK p, i : FreedTo(v, u, n, p, i)
  BY DEF Freed
<1>2. i \in 0 .. N /\ Enclosed(u.text, v, p, i) /\ NextOf(v, p, i, u.close) /\ (u.close = p[N] + 1 \/ n <= i)
  BY <1>1 DEF FreedTo
<1>3. N \in Nat /\ i \in Nat /\ Laid(u.text, v, p, i)
  <2>1. N \in Nat
    BY PlainIs
  <2> QED BY <1>2, <2>1 DEF Enclosed
<1>4. CASE u.close = p[N] + 1
  <2>1. p[N] \in Nat /\ u.text[p[N]] # Backslash
    BY <1>3, CloseStays
  <2>2. u.close - 1 = p[N]
    BY <1>4, <2>1
  <2>3. UnquoteStep(0, u, c) = u
    BY <2>1, <2>2 DEF UnquoteStep
  <2>4. FreedTo(v, u, n + 1, p, i)
    BY <1>2, <1>4 DEF FreedTo
  <2> QED BY <2>3, <2>4 DEF Freed
<1>5. CASE u.close # p[N] + 1
  <2>1. PICK k \in i + 1 .. N : v[k] = Quote /\ u.close = p[k] /\ \A m \in i + 1 .. k - 1 : v[m] # Quote
    BY <1>2, <1>5 DEF NextOf
  <2>2. k \in 1 .. N /\ k \in 0 .. N /\ k \in Nat /\ i < k /\ k \in k .. N /\ n + 1 <= k
    BY <1>2, <1>3, <1>5, <2>1
  <2>3. p[k] \in Nat /\ p[k] > 0 /\ u.text[p[k] - 1] = Backslash
    <3>1. LaidFrom(u.text, v, p, i, k)
      BY <1>3, <2>2 DEF Laid
    <3>2. p[k] \in Nat /\ p[k - 1] \in Nat /\ p[k] = p[k - 1] + 2 /\ u.text[p[k] - 1] = Backslash
      BY <2>1, <2>2, <3>1 DEF LaidFrom
    <3> QED BY <3>2
  <2> DEFINE t == RemoveAt(u.text, p[k] - 1)
             q == Moved(p, N, k)
             start == p[k] + 2
             u2 == [text |-> t, close |-> find(t, Quote, start)]
  <2>4. UnquoteStep(0, u, c) = u2
    BY <2>1, <2>3 DEF UnquoteStep
  <2>5. Enclosed(t, v, q, k) /\ q[k] = p[k] - 1
    BY <1>2, <1>3, <2>1, EscapeGone
  <2> HIDE DEF t, q
  <2>6. t \in Seq(Token) /\ Laid(t, v, q, k)
    BY <2>5 DEF Enclosed
  <2>7. q[k] + 3 <= q[N] + 1 /\ \A m \in k + 1 .. N : v[m] = Quote => q[k] + 3 <= q[m]
    <3>1. k <= k
      BY <2>2
    <3> QED BY <2>1, <2>2, <2>6, <3>1, Ahead
  <2>8. start \in Nat /\ start = q[k] + 3 /\ q[k] < start
    <3> DEFINE a == p[k]
               b == q[k]
    <3>1. a \in Nat /\ a > 0 /\ b = a - 1 /\ start = a + 2
      BY <2>3, <2>5
    <3> HIDE DEF a, b, start
    <3>2. start \in Nat /\ start = b + 3 /\ b < start
      BY <3>1
    <3> QED BY <3>2 DEF b
  <2>9. NextOf(v, q, k, find(t, Quote, start))
    <3>1. start <= q[N] + 1 /\ \A m \in k + 1 .. N : v[m] = Quote => start <= q[m]
      BY <2>7, <2>8
    <3> HIDE DEF start
    <3> QED BY <2>2, <2>6, <2>8, <3>1, NextQuote
  <2>10. u2.text = t /\ u2.close = find(t, Quote, start)
    OBVIOUS
  <2> HIDE DEF u2, start
  <2>11. FreedTo(v, u2, n + 1, q, k)
    BY <2>2, <2>5, <2>9, <2>10 DEF FreedTo
  <2> QED BY <2>4, <2>11 DEF Freed
<1> QED BY <1>4, <1>5

(* All escapes go, and nothing else. *)
LEMMA UnquotingIs ==
  ASSUME NEW v \in Text, Plain(v), NEW t, NEW p, Enclosed(t, v, p, 0)
  PROVE  LET u == Unquoting(t, find(t, Quote, 2))
         IN  /\ u.close = Len(v) + 2 /\ Len(u.text) = Len(v) + 2 /\ u.text \in Seq(Token)
             /\ \A k \in 1 .. Len(v) : u.text[k + 1] = v[k]
<1> DEFINE N == Len(v)
           M == Len(t)
           first == [text |-> t, close |-> find(t, Quote, 2)]
           u == Unquoting(t, find(t, Quote, 2))
<1>1. N \in Nat /\ t \in Seq(Token) /\ Laid(t, v, p, 0) /\ p[0] = 1
  BY PlainIs DEF Enclosed
<1>2. M \in Nat /\ DOMAIN t = 1 .. M
  BY <1>1
<1>3. M = p[N] + 1 /\ p[N] \in Nat /\ p[N] >= N + 1
  <2>1. p[N] \in Nat /\ p[N] >= N + 1
    BY <1>1, CloseStays
  <2> QED BY <2>1 DEF Enclosed
<1>4. Freed(v, first, 0)
  <2>1. 0 \in 0 .. N
    BY <1>1
  <2>2. \A k \in 0 + 1 .. N : 2 <= p[k]
    <3>1. ASSUME NEW k \in 0 + 1 .. N PROVE 2 <= p[k]
      <4>1. k \in 0 .. N
        BY <1>1
      <4>2. p[k] \in Nat /\ p[0] + (k - 0) <= p[k]
        BY <1>1, <2>1, <4>1, LaidOrder
      <4> QED BY <1>1, <4>2
    <3> QED BY <3>1
  <2>3. 2 <= p[N] + 1 /\ p[0] < 2
    BY <1>1, <1>3
  <2>4. NextOf(v, p, 0, find(t, Quote, 2))
    BY <1>1, <2>1, <2>2, <2>3, NextQuote
  <2>5. first.text = t /\ first.close = find(t, Quote, 2)
    OBVIOUS
  <2> HIDE DEF first
  <2>6. FreedTo(v, first, 0, p, 0)
    BY <2>1, <2>4, <2>5 DEF FreedTo
  <2> QED BY <2>6 DEF Freed
<1>5. PICK g : Unquote!Run(0, first, t, M, g)
  BY <1>2, Unquote!FoldSteps
<1>6. g[0] = first /\ \A m \in 1 .. M : g[m] = UnquoteStep(0, g[m - 1], t[m])
  BY <1>5 DEF Unquote!Run
<1>7. u = g[M]
  <2>1. u = Unquote!Fold(0, first, t)
    BY DEF Unquoting, UnquoteStep, Unquote!Fold, FoldLeft, MapThenFoldSet, Unquote!MapThenFoldSet, Max, Unquote!Max
  <2> QED BY <1>5, <2>1 DEF Unquote!Run
<1> HIDE DEF first, u, M
<1> DEFINE B == {n \in Nat : n <= M => Freed(v, g[n], n)}
<1>8. 0 \in B
  BY <1>4, <1>6
<1>9. ASSUME NEW n \in Nat, n \in B PROVE n + 1 \in B
  <2> DEFINE m == n + 1
  <2> SUFFICES ASSUME m <= M PROVE Freed(v, g[m], n + 1)
    OBVIOUS
  <2>1. m \in 1 .. M /\ m - 1 = n /\ n <= M
    BY <1>2
  <2>2. Freed(v, g[n], n)
    BY <1>9, <2>1
  <2> HIDE DEF m
  <2>3. g[m] = UnquoteStep(0, g[n], t[m])
    BY <1>6, <2>1
  <2> QED BY <2>2, <2>3, EscapesFreed
<1>10. Nat \subseteq B
  <2> HIDE DEF B
  <2> QED BY <1>8, <1>9, Unquote!Induction
<1>11. Freed(v, u, M)
  <2>1. M \in B /\ M <= M
    BY <1>2, <1>10
  <2> QED BY <1>7, <2>1
<1>12. PICK q, i : FreedTo(v, u, M, q, i)
  BY <1>11 DEF Freed
<1>13. /\ i \in 0 .. N /\ Enclosed(u.text, v, q, i) /\ NextOf(v, q, i, u.close)
       /\ u.close = q[N] + 1 \/ M <= i
  BY <1>12 DEF FreedTo
<1>14. i \in Nat /\ Laid(u.text, v, q, i) /\ q[0] = 1 /\ Len(u.text) = q[N] + 1 /\ u.text \in Seq(Token)
  BY <1>1, <1>13 DEF Enclosed
<1>15. u.close = q[N] + 1
  <2>1. ~(M <= i)
    <3> DEFINE z == p[N]
    <3>1. M = z + 1 /\ z \in Nat /\ z >= N + 1
      BY <1>3
    <3> HIDE DEF z, N
    <3> QED BY <1>1, <1>13, <3>1
  <2> QED BY <1>13, <2>1
<1>16. \A m \in i + 1 .. N : v[m] # Quote
  <2>1. ASSUME NEW k \in i + 1 .. N, u.close = q[k] PROVE FALSE
    <3>1. k \in 0 .. N /\ N \in k .. N
      BY <1>1, <1>14
    <3> DEFINE a == q[k]
               z == q[N]
    <3>2. a \in Nat /\ z \in Nat /\ a + (N - k) <= z /\ a = z + 1
      BY <1>14, <1>15, <2>1, <3>1, LaidOrder
    <3> HIDE DEF a, z, N
    <3> QED BY <1>1, <3>1, <3>2
  <2> HIDE DEF u
  <2> QED BY <1>13, <2>1 DEF NextOf
<1>17. \A k \in 1 .. N : q[k] = q[k - 1] + 1 /\ u.text[q[k]] = v[k]
  <2>1. ASSUME NEW k \in 1 .. N PROVE q[k] = q[k - 1] + 1 /\ u.text[q[k]] = v[k]
    <3>1. LaidFrom(u.text, v, q, i, k)
      BY <1>14 DEF Laid
    <3>2. k <= i \/ k \in i + 1 .. N
      BY <1>1, <1>14
    <3>3. v[k] # Quote \/ k <= i
      BY <1>16, <3>2
    <3> QED BY <3>1, <3>3 DEF LaidFrom
  <2> QED BY <2>1
<1> DEFINE D == {n \in Nat : n <= N => q[n] = n + 1}
<1> HIDE DEF N
<1>18. 0 \in D
  BY <1>14
<1>19. ASSUME NEW n \in Nat, n \in D PROVE n + 1 \in D
  <2> DEFINE m == n + 1
  <2> SUFFICES ASSUME m <= N PROVE q[m] = m + 1
    OBVIOUS
  <2>1. m \in 1 .. N /\ m - 1 = n /\ n <= N
    BY <1>1
  <2>2. q[n] = m
    BY <1>19, <2>1
  <2> HIDE DEF m
  <2>3. q[m] = q[m - 1] + 1
    BY <1>17, <2>1
  <2> QED BY <2>1, <2>2, <2>3
<1>20. Nat \subseteq D
  <2> HIDE DEF D
  <2> QED BY <1>18, <1>19, Unquote!Induction
<1>21. \A k \in 0 .. N : q[k] = k + 1
  <2>1. \A k \in 0 .. N : k \in Nat /\ k <= N
    BY <1>1
  <2> QED BY <1>20, <2>1
<1>22. q[N] = N + 1
  <2>1. N \in 0 .. N
    BY <1>1
  <2> QED BY <1>21, <2>1
<1>23. u.close = N + 2 /\ Len(u.text) = N + 2
  <2>1. N + 1 + 1 = N + 2
    BY <1>1
  <2> QED BY <1>14, <1>15, <1>22, <2>1
<1>24. \A k \in 1 .. N : u.text[k + 1] = v[k]
  <2>1. ASSUME NEW k \in 1 .. N PROVE u.text[k + 1] = v[k]
    <3>1. k \in 0 .. N
      BY <1>1
    <3>2. q[k] = k + 1
      BY <1>21, <3>1
    <3> QED BY <1>17, <3>2
  <2> QED BY <2>1
<1> QED BY <1>14, <1>23, <1>24 DEF N, u

(* The value between quotes, once they are freed. *)
LEMMA ValueOfQuoted ==
  ASSUME NEW text, find(text, Quote, 1) = 1, NEW u, u = Unquoting(text, find(text, Quote, 2)),
         u.close # 0, u.close # 2
  PROVE  Value(text) = SubSeq(u.text, 2, Min({Len(u.text), 1 + u.close - 2}))
<1>1. 1 + 1 = 2 /\ 1 # 0
  OBVIOUS
<1>2. u = Unquoting(text, find(text, Quote, 1 + 1)) /\ u.close # 1 + 1
  BY <1>1, Zenon
<1>3. Value(text) = SubSeq(u.text, 1 + 1, Min({Len(u.text), 1 + u.close - 2}))
  BY <1>1, <1>2, Zenon DEF Value
<1> QED BY <1>1, <1>3, Zenon

(* A value in quotes is read as it was. *)
LEMMA ValueIs ==
  ASSUME NEW v \in Text, Plain(v), NEW t, NEW p, Enclosed(t, v, p, 0), t[1] = Quote
  PROVE  Value(t) = v
<1> DEFINE N == Len(v)
           u == Unquoting(t, find(t, Quote, 2))
<1>1. N \in Nat /\ N > 0 /\ t \in Seq(Token) /\ Len(t) \in Nat /\ v \in Seq(Token)
  <2>1. N \in Nat /\ N > 0
    BY PlainIs
  <2>2. t \in Seq(Token)
    BY DEF Enclosed
  <2>3. v \in Seq(Token)
    BY TextsOfTokens
  <2>4. Len(t) \in Nat
    BY <2>2
  <2> QED BY <2>1, <2>2, <2>3, <2>4
<1>2. 1 \in 1 .. Len(t)
  <2>1. Len(t) = p[N] + 1 /\ Laid(t, v, p, 0)
    BY DEF Enclosed
  <2>2. p[N] \in Nat
    BY <2>1, CloseStays
  <2> QED BY <2>1, <2>2
<1>3. find(t, Quote, 1) = 1
  <2>1. \A x \in 1 .. 1 - 1 : t[x] # Quote
    OBVIOUS
  <2> QED BY <1>1, <1>2, <2>1, FindAt
<1>4. /\ u.close = N + 2 /\ Len(u.text) = N + 2 /\ u.text \in Seq(Token)
      /\ \A k \in 1 .. N : u.text[k + 1] = v[k]
  BY UnquotingIs
<1> HIDE DEF u, N
<1>5. Value(t) = SubSeq(u.text, 2, Min({N + 2, 1 + (N + 2) - 2}))
  <2>1. u.close # 0 /\ u.close # 2
    BY <1>1, <1>4
  <2>2. u = Unquoting(t, find(t, Quote, 2))
    BY DEF u
  <2>3. Value(t) = SubSeq(u.text, 2, Min({Len(u.text), 1 + u.close - 2}))
    BY <1>3, <2>1, <2>2, ValueOfQuoted
  <2> QED BY <1>4, <2>3
<1>6. Min({N + 2, 1 + (N + 2) - 2}) = N + 1
  <2> DEFINE S == {N + 2, 1 + (N + 2) - 2}
  <2>1. S \subseteq Nat /\ N + 1 \in S /\ \A y \in S : N + 1 <= y /\ y \in Nat
    BY <1>1
  <2>2. Min(S) \in S /\ Min(S) \in Nat /\ \A y \in S : Min(S) <= y
    <3> HIDE DEF S
    <3> QED BY <2>1, MinIs
  <2> HIDE DEF S
  <2>3. Min(S) = N + 1
    BY <1>1, <2>1, <2>2
  <2> QED BY <2>3 DEF S
<1> DEFINE w == u.text
           r == SubSeq(w, 2, N + 1)
<1>7. r \in Seq(Token) /\ Len(r) = N /\ \A k \in 1 .. N : r[k] = w[k + 1]
  <2>1. w \in Seq(Token) /\ Len(w) = N + 2
    BY <1>4
  <2> HIDE DEF w
  <2> QED BY <1>1, <2>1
<1>8. r = v
  <2>1. \A k \in 1 .. N : r[k] = v[k]
    BY <1>4, <1>7
  <2> HIDE DEF r
  <2> QED BY <1>1, <1>7, <2>1, SameTexts DEF N
<1> QED BY <1>5, <1>6, <1>8

(* The last of a set of places. *)
LEMMA MaxOfSlots ==
  ASSUME NEW n \in Nat, NEW q \in SUBSET (1 .. n), q # {}
  PROVE  Max(q) \in q /\ \A y \in q : y <= Max(q)
BY Unquote!MaxIs DEF Max, Unquote!Max

(* TrimIs, for any characters. *)
LEMMA TrimTokens ==
  ASSUME NEW T, NEW s \in Seq(T), NEW a \in 1 .. Len(s), NEW b \in a .. Len(s), s[a] # Space, s[b] # Space,
         \A i \in 1 .. a - 1 : s[i] = Space, \A i \in b + 1 .. Len(s) : s[i] = Space
  PROVE  trim(s) = SubSeq(s, a, b)
<1> DEFINE dark == {i \in DOMAIN s : s[i] # Space}
           N == Len(s)
<1>1. DOMAIN s = 1 .. N /\ N \in Nat /\ a \in Nat /\ b \in Nat
  OBVIOUS
<1>2. dark \subseteq Nat /\ a \in dark /\ b \in dark /\ \A i \in dark : a <= i /\ i <= b
  BY <1>1
<1>3. dark \in SUBSET (1 .. N)
  BY <1>1
<1>4. trim(s) = SubSeq(s, Min(dark), Max(dark))
  <2>1. dark # {}
    BY <1>2
  <2>2. dark = {i \in DOMAIN s : s[i] # " "}
    BY Zenon DEF Space
  <2> HIDE DEF dark
  <2> QED BY <2>1, <2>2, Zenon DEF trim
<1> HIDE DEF dark, N
<1>5. Min(dark) \in dark /\ \A y \in dark : Min(dark) <= y
  BY <1>2, MinIs
<1>6. Max(dark) \in dark /\ \A y \in dark : y <= Max(dark)
  BY <1>1, <1>2, <1>3, MaxOfSlots
<1>7. \A m \in Nat, n \in Nat : m \in dark /\ n \in dark /\ (\A y \in dark : m <= y /\ y <= n) => m = a /\ n = b
  BY <1>1, <1>2
<1>8. Min(dark) \in Nat /\ Max(dark) \in Nat
  BY <1>2, <1>5, <1>6
<1>9. Min(dark) = a /\ Max(dark) = b
  BY <1>5, <1>6, <1>7, <1>8
<1> QED BY <1>4, <1>9

(* What find finds. *)
LEMMA FoundIs ==
  ASSUME NEW T, NEW s \in Seq(T), NEW w, NEW c \in Nat, find(s, w, 1) > c
  PROVE  find(s, w, c + 1) = find(s, w, 1)
<1> DEFINE at == {j \in 1 .. Len(s) : s[j] = w}
           f == find(s, w, 1)
<1>1. f = IF at = {} THEN 0 ELSE Min(at)
  BY DEF find
<1>2. at # {} /\ at \subseteq Nat /\ Len(s) \in Nat
  BY <1>1
<1>3. f \in at /\ f \in Nat /\ \A y \in at : f <= y
  <2> HIDE DEF at
  <2> QED BY <1>1, <1>2, MinIs
<1>4. f \in c + 1 .. Len(s) /\ s[f] = w
  <2> HIDE DEF f
  <2>1. f \in 1 .. Len(s) /\ s[f] = w
    BY <1>3
  <2>2. f > c
    BY DEF f
  <2> QED BY <1>2, <2>1, <2>2
<1>5. \A j \in c + 1 .. f - 1 : s[j] # w
  <2>1. ASSUME NEW j \in c + 1 .. f - 1, s[j] = w PROVE FALSE
    <3> HIDE DEF f
    <3>1. j \in at /\ j < f
      BY <1>2, <1>3, <1>4, <2>1
    <3> QED BY <1>3, <3>1
  <2> QED BY <2>1
<1>6. c + 1 \in Nat
  OBVIOUS
<1> DEFINE d == c + 1
<1> HIDE DEF f, d
<1>7. find(s, w, d) = f
  BY <1>4, <1>5, <1>6, FindAt DEF d
<1> QED BY <1>7 DEF d, f

Midway(L, S) == [level : L, settings : S, ok : BOOLEAN]

(* A line of a level, the level behind spaces. *)
LEMMA LevelIsRead ==
  ASSUME NEW T, NEW c \in Seq(T), NEW n \in Nat, n = Len(c), n >= 3, c[1] = LevelMark, c[n] # Space, c[n - 1] # Space,
         \A i \in 2 .. n - 2 : c[i] = Space, \A i \in 1 .. n : c[i] # Quote /\ c[i] # Comment,
         NEW L, NEW S, NEW st \in Midway(L, S), convertLevel(<<c[n - 1]>>) \in L
  PROVE  /\ parseLine(c, st) \in Midway(L, S)
         /\ parseLine(c, st).level = convertLevel(<<c[n - 1]>>) /\ parseLine(c, st).settings = st.settings
<1>1. trim(c) = c
  <2>1. 1 \in 1 .. Len(c) /\ n \in 1 .. Len(c) /\ c[1] # Space
        /\ (\A i \in 1 .. 1 - 1 : c[i] = Space) /\ \A i \in n + 1 .. Len(c) : c[i] = Space
    BY Marks
  <2>2. trim(c) = SubSeq(c, 1, n)
    BY <2>1, TrimTokens
  <2> QED BY <2>2
<1>2. ignoreComments(c) = c
  <2>1. find(c, Quote, 1) = 0 /\ find(c, Comment, 1) = 0
    BY FindNone
  <2> QED BY <2>1 DEF ignoreComments
<1>3. isComment(c) <=> FALSE
  BY Marks DEF isComment, startsWith
<1>4. isLevel(c) /\ c # <<>>
  BY DEF isLevel, startsWith
<1> DEFINE on == [st EXCEPT !.ok = TRUE]
<1>5. on \in Midway(L, S) /\ on.settings = st.settings
  BY DEF Midway
<1>6. parseLine(c, st) = LevelLine(c, on)
  <2> QED BY <1>1, <1>2, <1>3, <1>4, Zenon DEF parseLine
<1> DEFINE d == SubSeq(c, 2, n - 1)
<1>7. d \in Seq(T) /\ Len(d) = n - 2 /\ \A i \in 1 .. n - 2 : d[i] = c[i + 1]
  OBVIOUS
<1>8. trim(d) = <<c[n - 1]>>
  <2>0. n - 2 \in Nat /\ n - 2 > 0 /\ n - 2 + 1 = n - 1
    OBVIOUS
  <2> DEFINE m == n - 2
  <2>1. m \in 1 .. Len(d) /\ m \in m .. Len(d) /\ d[m] = c[n - 1]
    <3> HIDE DEF d
    <3> QED BY <1>7, <2>0
  <2>2. \A i \in 1 .. m - 1 : d[i] = Space
    <3>1. ASSUME NEW i \in 1 .. m - 1 PROVE d[i] = Space
      <4>1. i \in 1 .. m /\ i + 1 \in 2 .. n - 2
        BY <2>0
      <4> HIDE DEF d
      <4>2. d[i] = c[i + 1]
        BY <1>7, <4>1
      <4> QED BY <4>1, <4>2
    <3> QED BY <3>1
  <2>3. \A i \in m + 1 .. Len(d) : d[i] = Space
    <3> HIDE DEF d
    <3> QED BY <1>7, <2>0
  <2> HIDE DEF d
  <2>4. trim(d) = SubSeq(d, m, m)
    <3> HIDE DEF m
    <3> QED BY <1>7, <2>1, <2>2, <2>3, TrimTokens
  <2>5. SubSeq(d, m, m) = <<d[m]>>
    <3> DEFINE x == SubSeq(d, m, m)
               y == <<d[m]>>
    <3> HIDE DEF m
    <3>1. x \in Seq(T) /\ Len(x) = 1 /\ x[1] = d[m]
      BY <1>7, <2>1
    <3>2. y \in Seq(T) /\ Len(y) = 1 /\ y[1] = d[m]
      BY <1>7, <2>1
    <3> HIDE DEF x, y
    <3>3. x = y
      BY <3>1, <3>2
    <3> QED BY <3>3 DEF x, y
  <2> QED BY <2>1, <2>4, <2>5
<1>9. LevelLine(c, on) = [on EXCEPT !.level = convertLevel(<<c[n - 1]>>)]
  <2>1. ~(Len(c) <= 2)
    OBVIOUS
  <2>2. trim(SubSeq(c, 2, Len(c) - 1)) = <<c[n - 1]>>
    BY <1>8
  <2> HIDE DEF on, d
  <2> QED BY <2>1, <2>2, Zenon DEF LevelLine
<1>10. on \in [level : L, settings : S, ok : BOOLEAN]
  BY <1>5 DEF Midway
<1> DEFINE x == convertLevel(<<c[n - 1]>>)
           to == [on EXCEPT !.level = x]
<1> HIDE DEF x, on
<1>11. x \in L
  BY DEF x
<1>12. to \in Midway(L, S) /\ to.level = x /\ to.settings = on.settings
  BY <1>10, <1>11 DEF Midway
<1>13. parseLine(c, st) = to
  BY <1>6, <1>9 DEF x
<1> HIDE DEF to
<1> QED BY <1>5, <1>12, <1>13 DEF x

(* The empty line. *)
LEMMA NothingIsRead ==
  ASSUME NEW L, NEW S, NEW st \in Midway(L, S)
  PROVE  parseLine(<<>>, st) \in Midway(L, S) /\ parseLine(<<>>, st).settings = st.settings
<1>1. parseLine(<<>>, st) = [st EXCEPT !.ok = TRUE]
  BY EmptyIsBare, Whole, Zenon DEF parseLine
<1> QED BY <1>1 DEF Midway

(* A text is escaped to tokens. *)
LEMMA EscapingType == ASSUME NEW v \in Text, v # <<>> PROVE Escaping(v) \in Seq(Token) /\ Len(Escaping(v)) \in Nat
<1> DEFINE N == Len(v)
<1>1. N \in 1 .. N
  <2>1. N \in Nat /\ N # 0
    BY Counts DEF Text
  <2> QED BY <2>1
<1>2. PICK g : /\ g[0] = <<>> /\ Escaping(v) = g[N]
               /\ \A k \in 1 .. N : g[k] = g[k - 1] \o Piece(v[k]) /\ g[k - 1] \in Seq(Token)
  BY EscapingSteps
<1>3. v[N] \in Token
  <2>1. v \in Seq(Token)
    BY TextsOfTokens
  <2> QED BY <1>1, <2>1
<1> DEFINE x == g[N - 1]
           y == Piece(v[N])
<1>4. x \in Seq(Token) /\ y \in Seq(Token) /\ Escaping(v) = x \o y
  BY <1>1, <1>2, <1>3, PieceType
<1> HIDE DEF x, y
<1> QED BY <1>4

(* Four texts behind each other, the third a single character. *)
Behind(w, T, h, a, s, e, c, r, k) ==
  /\ w \in Seq(T) /\ Len(w) = a + e + 1 + k
  /\ \A x \in 1 .. a : w[x] = h[x]
  /\ \A x \in 1 .. e : w[a + x] = s[x]
  /\ w[a + e + 1] = c
  /\ \A x \in 1 .. k : w[a + e + 1 + x] = r[x]

(* Two sequences of known lengths. *)
Adjoined(w, T, x, m, y, k) ==
  /\ w \in Seq(T) /\ Len(w) = m + k
  /\ \A i \in 1 .. m : w[i] = x[i]
  /\ \A i \in 1 .. k : w[m + i] = y[i]

(* One behind the other. *)
LEMMA AdjoinedIs ==
  ASSUME NEW T, NEW x, NEW y, NEW m, NEW k, x \in Seq(T), y \in Seq(T), m \in Nat, k \in Nat,
         Len(x) = m, Len(y) = k
  PROVE  Adjoined(x \o y, T, x, m, y, k)
<1> DEFINE w == x \o y
<1>1. /\ w \in Seq(T) /\ Len(w) = Len(x) + Len(y)
      /\ \A i \in 1 .. Len(x) : w[i] = x[i]
      /\ \A i \in 1 .. Len(y) : w[Len(x) + i] = y[i]
  BY JoinOf
<1> HIDE DEF w
<1>2. Adjoined(w, T, x, m, y, k)
  BY <1>1 DEF Adjoined
<1> QED BY <1>2 DEF w

(* Four sequences, one behind the other. *)
LEMMA Joined4 ==
  ASSUME NEW T, NEW h \in Seq(T), NEW a \in Nat, Len(h) = a, NEW s \in Seq(T), NEW e \in Nat, Len(s) = e,
         NEW c \in T, NEW r \in Seq(T), NEW k \in Nat, Len(r) = k
  PROVE  Behind(h \o s \o <<c>> \o r, T, h, a, s, e, c, r, k)
<1> DEFINE u == h \o s
           o == <<c>>
           t == u \o o
           w == t \o r
<1>1. /\ u \in Seq(T) /\ Len(u) = a + e
      /\ \A x \in 1 .. a : u[x] = h[x]
      /\ \A x \in 1 .. e : u[a + x] = s[x]
  OBVIOUS
<1>2. o \in Seq(T) /\ Len(o) = 1 /\ o[1] = c
  OBVIOUS
<1> HIDE DEF u, o
<1> DEFINE n == a + e
<1>3. n \in Nat /\ Len(u) = n
  BY <1>1
<1> HIDE DEF n
<1>4. /\ t \in Seq(T) /\ Len(t) = n + 1 /\ t[n + 1] = c
      /\ \A x \in 1 .. n : t[x] = u[x]
  <2>1. u \in Seq(T) /\ Len(u) = n /\ n \in Nat /\ o \in Seq(T) /\ Len(o) = 1 /\ o[1] = c
    BY <1>1, <1>2, <1>3
  <2>2. /\ t \in Seq(T) /\ Len(t) = Len(u) + Len(o)
        /\ \A i \in 1 .. Len(u) : t[i] = u[i]
        /\ \A i \in 1 .. Len(o) : t[Len(u) + i] = o[i]
    <3>1. u \in Seq(T) /\ o \in Seq(T)
      BY <2>1
    <3> QED BY <3>1, SMTT(30)
  <2> HIDE DEF t
  <2>3. 1 \in 1 .. Len(o)
    BY <2>1
  <2> QED BY <2>1, <2>2, <2>3
<1> HIDE DEF t
<1> DEFINE m == n + 1
<1>5. m \in Nat /\ Len(t) = m
  BY <1>3, <1>4
<1> HIDE DEF m
<1>6. /\ w \in Seq(T) /\ Len(w) = m + k
      /\ \A x \in 1 .. m : w[x] = t[x]
      /\ \A x \in 1 .. k : w[m + x] = r[x]
  <2>1. t \in Seq(T) /\ r \in Seq(T) /\ Len(r) = k /\ k \in Nat
    BY <1>4
  <2>2. Adjoined(w, T, t, m, r, k)
    BY <1>5, <2>1, AdjoinedIs, Zenon
  <2> HIDE DEF w
  <2> QED BY <2>2 DEF Adjoined
<1> HIDE DEF w
<1>7. \A x \in 1 .. n : w[x] = u[x]
  <2>1. \A x \in 1 .. n : x \in 1 .. m
    BY <1>3 DEF m
  <2> QED BY <1>4, <1>6, <2>1
<1>8. \A x \in 1 .. a : w[x] = h[x]
  <2>1. \A x \in 1 .. a : x \in 1 .. n
    BY DEF n
  <2> QED BY <1>1, <1>7, <2>1
<1>9. ASSUME NEW x \in 1 .. e PROVE w[a + x] = s[x]
  <2> DEFINE y == a + x
  <2>1. y \in 1 .. n
    BY DEF n
  <2>2. u[y] = s[x]
    BY <1>1
  <2> HIDE DEF y
  <2>3. w[y] = s[x]
    BY <1>7, <2>1, <2>2
  <2> QED BY <2>3 DEF y
<1>10. w[m] = c
  <2>1. m \in 1 .. m /\ t[m] = c
    BY <1>3, <1>4 DEF m
  <2> QED BY <1>6, <2>1
<1>11. m = a + e + 1
  BY DEF m, n
<1>12. Behind(w, T, h, a, s, e, c, r, k)
  BY <1>6, <1>8, <1>9, <1>10, <1>11 DEF Behind
<1> QED BY <1>12 DEF w, t, u, o

SixOf(a, b, c, d) == <<a, b, a, c, a, d>>

(* A sequence of six. *)
LEMMA SixIs ==
  ASSUME NEW T, NEW a \in T, NEW b \in T, NEW c \in T, NEW d \in T
  PROVE  LET h == SixOf(a, b, c, d)
         IN  /\ h \in Seq(T) /\ Len(h) = 6
             /\ h[1] = a /\ h[2] = b /\ h[3] = a /\ h[4] = c /\ h[5] = a /\ h[6] = d
BY DEF SixOf

Key == "FORMAT"

(* The key is told apart from the marks. *)
LEMMA KeyDiffers ==
  Key \notin {Space, EqualSign, Quote, Comment, LevelMark} /\ Key \in ConfigNames /\ Key # OldName /\ Key # Unknown
  /\ EqualSign # Space /\ EqualSign # Quote /\ Space # Quote /\ Comment # Quote
BY Zenon DEF Key, Space, EqualSign, Quote, Comment, LevelMark, ConfigNames, OldName, Unknown

(* The line of a quoted value. *)
LEMMA FormatLineIs ==
  ASSUME NEW v \in Text, v # <<>>, NEW r \in Seq(Token), NEW k \in Nat, Len(r) = k,
         NEW e \in Nat, Len(Escaping(v)) = e
  PROVE  LET w == FormatLine(v, r)
         IN  /\ w \in Seq(Token) /\ Len(w) = 7 + e + k
             /\ w[1] = Space /\ w[2] = Key /\ w[3] = Space /\ w[4] = EqualSign /\ w[5] = Space /\ w[6] = Quote
             /\ \A x \in 1 .. e : w[6 + x] = Escaping(v)[x]
             /\ w[7 + e] = Quote
             /\ \A x \in 1 .. k : w[7 + e + x] = r[x]
<1> DEFINE h == SixOf(Space, Key, EqualSign, Quote)
           w == h \o Escaping(v) \o <<Quote>> \o r
<1>1. w = FormatLine(v, r)
  BY Zenon DEF FormatLine, SixOf, Space, Key, EqualSign
<1>2. Space \in Token /\ Key \in Token /\ EqualSign \in Token /\ Quote \in Token
  BY TokensAre DEF Key
<1>3. /\ h \in Seq(Token) /\ Len(h) = 6
      /\ h[1] = Space /\ h[2] = Key /\ h[3] = Space /\ h[4] = EqualSign /\ h[5] = Space /\ h[6] = Quote
  BY <1>2, SixIs
<1>4. Escaping(v) \in Seq(Token)
  BY EscapingType
<1> DEFINE s == Escaping(v)
<1> HIDE DEF h, s
<1>5. s \in Seq(Token) /\ Len(s) = e
  BY <1>4 DEF s
<1>6. Behind(h \o s \o <<Quote>> \o r, Token, h, 6, s, e, Quote, r, k)
  <2> DEFINE a == 6
  <2>1. a \in Nat /\ h \in Seq(Token) /\ Len(h) = a /\ Quote \in Token
    BY <1>2, <1>3
  <2> HIDE DEF a
  <2>2. Behind(h \o s \o <<Quote>> \o r, Token, h, a, s, e, Quote, r, k)
    BY <1>5, <2>1, Joined4, Zenon
  <2> QED BY <2>2 DEF a
<1>7. w = h \o s \o <<Quote>> \o r
  BY DEF s
<1> HIDE DEF w
<1>8. /\ w \in Seq(Token) /\ Len(w) = 6 + e + 1 + k
      /\ \A x \in 1 .. 6 : w[x] = h[x]
      /\ \A x \in 1 .. e : w[6 + x] = s[x]
      /\ w[6 + e + 1] = Quote
      /\ \A x \in 1 .. k : w[6 + e + 1 + x] = r[x]
  BY <1>6, <1>7, Zenon DEF Behind
<1>9. 6 + e + 1 = 7 + e
  OBVIOUS
<1>10. w[1] = Space /\ w[2] = Key /\ w[3] = Space /\ w[4] = EqualSign /\ w[5] = Space /\ w[6] = Quote
  <2>1. 1 \in 1 .. 6 /\ 2 \in 1 .. 6 /\ 3 \in 1 .. 6 /\ 4 \in 1 .. 6 /\ 5 \in 1 .. 6 /\ 6 \in 1 .. 6
    OBVIOUS
  <2> QED BY <1>3, <1>8, <2>1
<1>11. /\ Len(w) = 7 + e + k /\ w[7 + e] = Quote
       /\ \A x \in 1 .. k : w[7 + e + x] = r[x]
  BY <1>8, <1>9
<1> QED BY <1>1, <1>8, <1>10, <1>11 DEF s

(* A setting in quotes, without the space before it. *)
HeadOf(w, v, e) ==
  /\ w[1] = Key /\ w[2] = Space /\ w[3] = EqualSign /\ w[4] = Space /\ w[5] = Quote
  /\ \A x \in 1 .. e : w[5 + x] = Escaping(v)[x]
  /\ w[6 + e] = Quote

(* A setting in quotes, trimmed. *)
LEMMA FormatLineTrimmed ==
  ASSUME NEW v \in Text, v # <<>>, NEW r \in Seq(Token), NEW k \in Nat, Len(r) = k, k = 0 \/ r[k] # Space,
         NEW e \in Nat, Len(Escaping(v)) = e
  PROVE  LET w == trim(FormatLine(v, r))
         IN  /\ w \in Seq(Token) /\ Len(w) = 6 + e + k /\ HeadOf(w, v, e)
             /\ \A x \in 1 .. k : w[6 + e + x] = r[x]
<1> DEFINE l == FormatLine(v, r)
           n == 7 + e + k
           w == SubSeq(l, 2, n)
<1>1. /\ l \in Seq(Token) /\ Len(l) = n
      /\ l[1] = Space /\ l[2] = Key /\ l[3] = Space /\ l[4] = EqualSign /\ l[5] = Space /\ l[6] = Quote
      /\ \A x \in 1 .. e : l[6 + x] = Escaping(v)[x]
      /\ l[7 + e] = Quote
      /\ \A x \in 1 .. k : l[7 + e + x] = r[x]
  BY FormatLineIs
<1> HIDE DEF l
<1>2. n \in Nat /\ n >= 7
  OBVIOUS
<1>3. l[n] # Space
  <2>1. CASE k = 0
    <3>1. n = 7 + e
      BY <2>1
    <3> QED BY <1>1, <3>1, KeyDiffers
  <2>2. CASE k # 0
    <3>1. k \in 1 .. k
      BY <2>2
    <3>2. l[7 + e + k] = r[k]
      BY <1>1, <3>1
    <3> QED BY <2>2, <3>2
  <2> QED BY <2>1, <2>2
<1>4. trim(l) = w
  <2> HIDE DEF n
  <2>1. 2 \in 1 .. Len(l) /\ n \in 2 .. Len(l) /\ l[2] # Space
    BY <1>1, <1>2, KeyDiffers
  <2>2. \A i \in 1 .. 2 - 1 : l[i] = Space
    BY <1>1
  <2>3. \A i \in n + 1 .. Len(l) : l[i] = Space
    BY <1>1, <1>2
  <2> QED BY <1>1, <1>3, <2>1, <2>2, <2>3, TrimTokens
<1>5. w \in Seq(Token) /\ Len(w) = n - 1 /\ \A i \in 1 .. n - 1 : w[i] = l[i + 1]
  <2>1. l \in Seq(Token) /\ Len(l) = n
    BY <1>1
  <2> HIDE DEF n
  <2> QED BY <1>2, <2>1
<1> HIDE DEF w
<1>6. w[1] = Key /\ w[2] = Space /\ w[3] = EqualSign /\ w[4] = Space /\ w[5] = Quote
  <2>1. 1 \in 1 .. n - 1 /\ 2 \in 1 .. n - 1 /\ 3 \in 1 .. n - 1 /\ 4 \in 1 .. n - 1 /\ 5 \in 1 .. n - 1
    BY <1>2
  <2>2. w[1] = l[1 + 1] /\ w[2] = l[2 + 1] /\ w[3] = l[3 + 1] /\ w[4] = l[4 + 1] /\ w[5] = l[5 + 1]
    BY <1>5, <2>1
  <2>3. 1 + 1 = 2 /\ 2 + 1 = 3 /\ 3 + 1 = 4 /\ 4 + 1 = 5 /\ 5 + 1 = 6
    OBVIOUS
  <2> QED BY <1>1, <2>2, <2>3
<1>7. ASSUME NEW x \in 1 .. e PROVE w[5 + x] = Escaping(v)[x]
  <2>1. 5 + x \in 1 .. n - 1 /\ 5 + x + 1 = 6 + x
    OBVIOUS
  <2>2. w[5 + x] = l[5 + x + 1]
    BY <1>5, <2>1
  <2> QED BY <1>1, <2>1, <2>2
<1>8. w[6 + e] = Quote
  <2>1. 6 + e \in 1 .. n - 1 /\ 6 + e + 1 = 7 + e
    OBVIOUS
  <2>2. w[6 + e] = l[6 + e + 1]
    BY <1>5, <2>1
  <2> QED BY <1>1, <2>1, <2>2
<1>9. ASSUME NEW x \in 1 .. k PROVE w[6 + e + x] = r[x]
  <2> DEFINE i == 6 + e + x
  <2>1. i \in 1 .. n - 1 /\ i + 1 = 7 + e + x
    OBVIOUS
  <2> HIDE DEF i
  <2>2. w[i] = l[i + 1]
    BY <1>5, <2>1
  <2>3. l[7 + e + x] = r[x]
    BY <1>1
  <2>4. w[i] = r[x]
    BY <2>1, <2>2, <2>3
  <2> QED BY <2>4 DEF i
<1>10. HeadOf(w, v, e) /\ Len(w) = 6 + e + k
  <2>1. n - 1 = 6 + e + k
    OBVIOUS
  <2> QED BY <1>5, <1>6, <1>7, <1>8, <2>1 DEF HeadOf
<1> QED BY <1>4, <1>5, <1>9, <1>10 DEF l

(* What may stand behind the value: nothing, or a comment. *)
Remarking(r, k) ==
  \/ k = 0
  \/ k = 5 /\ r[1] = Space /\ r[2] = Comment /\ r[5] # Space

(* A comment is looked for behind the closing quote. *)
LEMMA IgnoredIs ==
  ASSUME NEW w, NEW open, find(w, Quote, 1) = open, open # 0,
         NEW close, ClosingQuote(w, find(w, Quote, open + 1)) = close, close # 0
  PROVE  ignoreComments(w) = LET mark == IF find(w, Comment, 1) > close THEN find(w, Comment, 1)
                                                                       ELSE find(w, Comment, close + 1)
                             IN  IF mark = 0 THEN w ELSE SubSeq(w, 1, mark - 1)
BY Zenon DEF ignoreComments

(* Of the line the setting is left. *)
LEMMA CommentGone ==
  ASSUME NEW v \in Text, Plain(v), NEW r \in Seq(Token), NEW k \in Nat, Len(r) = k, Remarking(r, k),
         NEW e \in Nat, Len(Escaping(v)) = e,
         NEW w \in Seq(Token), Len(w) = 6 + e + k, HeadOf(w, v, e), \A x \in 1 .. k : w[6 + e + x] = r[x]
  PROVE  trim(ignoreComments(w)) = SubSeq(w, 1, 6 + e)
<1> DEFINE C == 6 + e
<1>1. C \in Nat /\ C >= 6 /\ Len(w) = C + k
  OBVIOUS
<1>2. /\ w[1] = Key /\ w[2] = Space /\ w[3] = EqualSign /\ w[4] = Space /\ w[5] = Quote
      /\ \A x \in 1 .. e : w[5 + x] = Escaping(v)[x]
      /\ w[C] = Quote
  BY DEF HeadOf
<1>3. v # <<>>
  BY PlainIs
<1>4. find(w, Quote, 1) = 5
  <2>1. 5 \in 1 .. Len(w)
    BY <1>1
  <2>2. \A j \in 1 .. 5 - 1 : w[j] # Quote
    <3>1. \A j \in 1 .. 5 - 1 : j = 1 \/ j = 2 \/ j = 3 \/ j = 4
      OBVIOUS
    <3> QED BY <1>2, <3>1, KeyDiffers
  <2> QED BY <1>2, <2>1, <2>2, FindAt
<1>5. ClosingQuote(w, find(w, Quote, 5 + 1)) = C
  <2> DEFINE o == 5
  <2>1. o \in Nat /\ o > 0 /\ Len(w) \in Nat /\ o + Len(Escaping(v)) + 1 <= Len(w)
        /\ w[o + Len(Escaping(v)) + 1] = Quote
        /\ \A x \in 1 .. Len(Escaping(v)) : w[o + x] = Escaping(v)[x]
    <3>1. o + e + 1 = C
      OBVIOUS
    <3> QED BY <1>1, <1>2, <3>1
  <2> HIDE DEF o
  <2>2. PICK p : Laid(w, v, p, 0) /\ p[0] = o /\ p[Len(v)] = o + Len(Escaping(v))
    BY <1>3, <2>1, LaidOut
  <2>3. ClosingQuote(w, find(w, Quote, p[0] + 1)) = p[Len(v)] + 1
    BY <2>2, ClosingIs
  <2>4. p[0] + 1 = 5 + 1 /\ p[Len(v)] + 1 = C
    BY <2>2 DEF o
  <2> QED BY <2>3, <2>4
<1> HIDE DEF C
<1> DEFINE mark == IF find(w, Comment, 1) > C THEN find(w, Comment, 1) ELSE find(w, Comment, C + 1)
<1>6. mark = find(w, Comment, C + 1)
  BY <1>1, FoundIs
<1>7. ignoreComments(w) = IF mark = 0 THEN w ELSE SubSeq(w, 1, mark - 1)
  <2> DEFINE o == 5
  <2>1. o # 0 /\ C # 0
    BY <1>1
  <2>2. find(w, Quote, 1) = o /\ ClosingQuote(w, find(w, Quote, o + 1)) = C
    BY <1>4, <1>5
  <2> HIDE DEF o
  <2> QED BY <2>1, <2>2, IgnoredIs
<1>8. /\ 1 \in 1 .. C /\ C \in 1 .. C /\ w[1] # Space /\ w[C] # Space
      /\ 1 \in 1 .. Len(w) /\ C \in 1 .. Len(w)
  BY <1>1, <1>2, KeyDiffers
<1>9. CASE k = 0
  <2>1. find(w, Comment, C + 1) = 0
    <3>1. \A j \in C + 1 .. Len(w) : w[j] # Comment
      BY <1>1, <1>9
    <3> QED BY <3>1, FindNone
  <2>2. ignoreComments(w) = w
    BY <1>6, <1>7, <2>1
  <2>3. trim(w) = SubSeq(w, 1, C)
    <3>1. (\A i \in 1 .. 1 - 1 : w[i] = Space) /\ \A i \in C + 1 .. Len(w) : w[i] = Space
      BY <1>1, <1>9
    <3> QED BY <1>8, <3>1, TrimTokens
  <2> QED BY <2>2, <2>3 DEF C
<1>10. CASE k # 0
  <2>1. k = 5 /\ r[1] = Space /\ r[2] = Comment
    BY <1>10 DEF Remarking
  <2> DEFINE a == C + 1
             b == C + 2
  <2>2. w[a] = Space /\ w[b] = Comment
    <3>1. 1 \in 1 .. k /\ 2 \in 1 .. k
      BY <2>1
    <3>2. w[6 + e + 1] = r[1] /\ w[6 + e + 2] = r[2]
      BY <3>1
    <3> QED BY <2>1, <3>2 DEF C
  <2>3. /\ a \in Nat /\ b \in a .. Len(w) /\ b - 1 = a /\ a \in 0 .. Len(w) /\ b # 0
        /\ \A j \in a .. b - 1 : j = a
    BY <1>1, <2>1
  <2> DEFINE d == SubSeq(w, 1, a)
  <2>4. d \in Seq(Token) /\ Len(d) = a /\ \A i \in 1 .. a : d[i] = w[i]
    <3> HIDE DEF a, b
    <3> QED BY <2>3, PartsOf
  <2>5. SubSeq(d, 1, C) = SubSeq(w, 1, C)
    <3> DEFINE x == SubSeq(d, 1, C)
               y == SubSeq(w, 1, C)
    <3>1. C \in 0 .. Len(d) /\ C \in 0 .. Len(w) /\ \A i \in 1 .. C : i \in 1 .. a
      <4>1. Len(d) = a
        BY <2>4
      <4> HIDE DEF d
      <4> QED BY <1>1, <4>1
    <3> HIDE DEF d, a
    <3>2. x \in Seq(Token) /\ Len(x) = C /\ \A i \in 1 .. C : x[i] = d[i]
      BY <2>4, <3>1, PartsOf
    <3>3. y \in Seq(Token) /\ Len(y) = C /\ \A i \in 1 .. C : y[i] = w[i]
      BY <3>1, PartsOf
    <3>4. \A i \in 1 .. C : x[i] = y[i]
      BY <2>4, <3>1, <3>2, <3>3
    <3> HIDE DEF x, y
    <3>5. x = y
      BY <3>2, <3>3, <3>4, SameTexts
    <3> QED BY <3>5 DEF x, y
  <2>6. /\ 1 \in 1 .. Len(d) /\ C \in 1 .. Len(d) /\ d[1] # Space /\ d[C] # Space
        /\ \A i \in C + 1 .. Len(d) : d[i] = Space
    <3>1. Len(d) = a /\ \A i \in 1 .. a : d[i] = w[i]
      BY <2>4
    <3> HIDE DEF d
    <3>2. 1 \in 1 .. a /\ C \in 1 .. a /\ a \in 1 .. a /\ \A i \in C + 1 .. a : i = a
      BY <1>1
    <3>3. d[1] = w[1] /\ d[C] = w[C] /\ d[a] = w[a]
      BY <3>1, <3>2
    <3> HIDE DEF a
    <3> QED BY <1>8, <2>2, <3>1, <3>2, <3>3
  <2> HIDE DEF a, b
  <2>7. find(w, Comment, a) = b
    <3>1. \A j \in a .. b - 1 : w[j] # Comment
      BY <2>2, <2>3, Marks
    <3> QED BY <2>2, <2>3, <3>1, FindAt
  <2>8. ignoreComments(w) = SubSeq(w, 1, b - 1)
    <3>1. mark = b
      BY <1>6, <2>7 DEF a
    <3> HIDE DEF mark
    <3> QED BY <1>7, <2>3, <3>1
  <2>9. ignoreComments(w) = d
    BY <2>3, <2>8
  <2>10. trim(d) = SubSeq(d, 1, C)
    <3>1. \A i \in 1 .. 1 - 1 : d[i] = Space
      OBVIOUS
    <3>2. C \in 1 .. Len(d) /\ 1 \in 1 .. Len(d)
      BY <2>6
    <3> HIDE DEF d
    <3> QED BY <2>4, <2>6, <3>1, <3>2, TrimTokens
  <2> QED BY <2>5, <2>9, <2>10 DEF C
<1> QED BY <1>9, <1>10

(* The last part of a sequence. *)
LEMMA SliceIs ==
  ASSUME NEW T, NEW s \in Seq(T), NEW a \in 1 .. Len(s), NEW n \in Nat, a + n - 1 = Len(s)
  PROVE  /\ SubSeq(s, a, Len(s)) \in Seq(T) /\ Len(SubSeq(s, a, Len(s))) = n
         /\ \A i \in 1 .. n : SubSeq(s, a, Len(s))[i] = s[a - 1 + i]
OBVIOUS

(* What is behind the equal sign is the value. *)
LEMMA ValueBehind ==
  ASSUME NEW v \in Text, Plain(v), NEW e \in Nat, Len(Escaping(v)) = e,
         NEW t \in Seq(Token), Len(t) = 6 + e, HeadOf(t, v, e)
  PROVE  Value(trim(SubSeq(t, 4, Len(t)))) = v
<1> DEFINE q == SubSeq(t, 4, Len(t))
           n == 3 + e
           z == SubSeq(q, 2, Len(q))
           m == 2 + e
<1>1. /\ t[4] = Space /\ t[5] = Quote
      /\ \A x \in 1 .. e : t[5 + x] = Escaping(v)[x]
      /\ t[6 + e] = Quote
  BY DEF HeadOf
<1>2. v # <<>>
  BY PlainIs
<1>3. n \in Nat /\ n >= 3 /\ m \in Nat /\ m >= 2
  OBVIOUS
<1>4. q \in Seq(Token) /\ Len(q) = n /\ \A i \in 1 .. n : q[i] = t[3 + i]
  <2> DEFINE a == 4
  <2>1. a \in 1 .. Len(t) /\ a + n - 1 = Len(t)
    OBVIOUS
  <2>2. a - 1 = 3
    OBVIOUS
  <2> HIDE DEF a, n
  <2>3. /\ SubSeq(t, a, Len(t)) \in Seq(Token) /\ Len(SubSeq(t, a, Len(t))) = n
        /\ \A i \in 1 .. n : SubSeq(t, a, Len(t))[i] = t[a - 1 + i]
    BY <1>3, <2>1, SliceIs
  <2> QED BY <2>2, <2>3 DEF a
<1> HIDE DEF q
<1>5. q[1] = Space /\ q[2] = Quote /\ q[n] = Quote
  <2>1. 1 \in 1 .. n /\ 2 \in 1 .. n /\ n \in 1 .. n /\ 3 + 1 = 4 /\ 3 + 2 = 5 /\ 3 + n = 6 + e
    OBVIOUS
  <2>2. q[1] = t[3 + 1] /\ q[2] = t[3 + 2] /\ q[n] = t[3 + n]
    BY <1>4, <2>1
  <2> QED BY <1>1, <2>1, <2>2
<1>6. ASSUME NEW x \in 1 .. e PROVE q[2 + x] = Escaping(v)[x]
  <2> DEFINE i == 2 + x
  <2>1. i \in 1 .. n /\ 3 + i = 5 + x
    OBVIOUS
  <2> HIDE DEF i
  <2>2. q[i] = Escaping(v)[x]
    BY <1>1, <1>4, <2>1
  <2> QED BY <2>2 DEF i
<1>7. trim(q) = z
  <2> HIDE DEF n
  <2>1. 2 \in 1 .. Len(q) /\ Len(q) \in 2 .. Len(q) /\ q[2] # Space /\ q[Len(q)] # Space
    BY <1>3, <1>4, <1>5, KeyDiffers
  <2>2. (\A i \in 1 .. 2 - 1 : q[i] = Space) /\ \A i \in Len(q) + 1 .. Len(q) : q[i] = Space
    BY <1>3, <1>4, <1>5
  <2> QED BY <1>4, <2>1, <2>2, TrimTokens
<1>8. z \in Seq(Token) /\ Len(z) = m /\ \A i \in 1 .. m : z[i] = q[1 + i]
  <2> DEFINE a == 2
  <2>1. a \in 1 .. Len(q) /\ a + m - 1 = Len(q)
    BY <1>4
  <2>2. a - 1 = 1
    OBVIOUS
  <2> HIDE DEF a, m, n
  <2>3. /\ SubSeq(q, a, Len(q)) \in Seq(Token) /\ Len(SubSeq(q, a, Len(q))) = m
        /\ \A i \in 1 .. m : SubSeq(q, a, Len(q))[i] = q[a - 1 + i]
    BY <1>3, <1>4, <2>1, SliceIs
  <2> QED BY <2>2, <2>3 DEF a
<1> HIDE DEF z
<1>9. z[1] = Quote /\ z[1 + e + 1] = Quote
  <2>1. 1 \in 1 .. m /\ m \in 1 .. m /\ 1 + 1 = 2 /\ 1 + m = n /\ 1 + e + 1 = m
    OBVIOUS
  <2>2. z[1] = q[1 + 1] /\ z[m] = q[1 + m]
    BY <1>8, <2>1
  <2> QED BY <1>5, <2>1, <2>2
<1>10. ASSUME NEW x \in 1 .. e PROVE z[1 + x] = Escaping(v)[x]
  <2> DEFINE i == 1 + x
  <2>1. i \in 1 .. m /\ 1 + i = 2 + x
    OBVIOUS
  <2> HIDE DEF i
  <2>2. z[i] = Escaping(v)[x]
    BY <1>6, <1>8, <2>1
  <2> QED BY <2>2 DEF i
<1> DEFINE o == 1
<1>11. /\ o \in Nat /\ o > 0 /\ Len(z) \in Nat /\ o + Len(Escaping(v)) + 1 <= Len(z)
       /\ z[o + Len(Escaping(v)) + 1] = Quote
       /\ \A x \in 1 .. Len(Escaping(v)) : z[o + x] = Escaping(v)[x]
  <2>1. Len(z) = o + e + 1 /\ Len(z) \in Nat /\ o + e + 1 <= Len(z)
    BY <1>8
  <2> QED BY <1>9, <1>10, <2>1
<1>12. Len(z) = o + Len(Escaping(v)) + 1
  BY <1>8
<1> HIDE DEF o
<1>13. PICK p : Laid(z, v, p, 0) /\ p[0] = o /\ p[Len(v)] = o + Len(Escaping(v))
  BY <1>2, <1>11, LaidOut
<1>14. Enclosed(z, v, p, 0)
  <2>1. Len(z) = p[Len(v)] + 1
    BY <1>12, <1>13
  <2>2. p[0] = 1
    BY <1>13 DEF o
  <2> QED BY <1>8, <1>13, <2>1, <2>2 DEF Enclosed
<1>15. Value(z) = v
  BY <1>9, <1>14, ValueIs
<1> QED BY <1>7, <1>15 DEF q

(* The key is known. *)
LEMMA KeyRead == convertConfig(<<Key>>) = Key
<1>1. Len(<<Key>>) = 1 /\ <<Key>>[1] = Key
  OBVIOUS
<1>2. Named(<<Key>>, ConfigNames) = Key
  BY <1>1, KeyDiffers, Zenon DEF Named
<1>3. convertConfig(<<Key>>) = LET name == Named(<<Key>>, ConfigNames)
                               IN  IF name = OldName THEN "SUBSECOND_PRECISION" ELSE name
  BY Zenon DEF convertConfig, OldName
<1> QED BY <1>2, <1>3, KeyDiffers, Zenon

(* What is before the equal sign is its name. *)
LEMMA KeyBefore ==
  ASSUME NEW T, NEW t \in Seq(T), Len(t) >= 3, t[1] = Key, t[2] = Space
  PROVE  convertConfig(trim(SubSeq(t, 1, 2))) = Key
<1> DEFINE q == SubSeq(t, 1, 2)
<1>1. q \in Seq(T) /\ Len(q) = 2 /\ q[1] = Key /\ q[2] = Space
  OBVIOUS
<1> HIDE DEF q
<1>2. trim(q) = SubSeq(q, 1, 1)
  <2>1. 1 \in 1 .. Len(q) /\ 1 \in 1 .. Len(q) /\ q[1] # Space
    BY <1>1, KeyDiffers
  <2>2. (\A i \in 1 .. 1 - 1 : q[i] = Space) /\ \A i \in 1 + 1 .. Len(q) : q[i] = Space
    BY <1>1
  <2> QED BY <1>1, <2>1, <2>2, TrimTokens
<1>3. SubSeq(q, 1, 1) = <<Key>>
  <2> DEFINE x == SubSeq(q, 1, 1)
             y == <<q[1]>>
  <2>1. x \in Seq(T) /\ Len(x) = 1 /\ x[1] = q[1]
    BY <1>1
  <2>2. y \in Seq(T) /\ Len(y) = 1 /\ y[1] = q[1]
    BY <1>1
  <2> HIDE DEF x, y
  <2>3. x = y
    BY <2>1, <2>2
  <2> QED BY <1>1, <2>3 DEF x, y
<1> QED BY <1>2, <1>3, KeyRead DEF q

(* The line of a quoted value sets it. *)
LEMMA QuotedSet ==
  ASSUME NEW v \in Text, Plain(v), NEW e \in Nat, Len(Escaping(v)) = e,
         NEW t \in Seq(Token), Len(t) = 6 + e, HeadOf(t, v, e), NEW on
  PROVE  ConfigLine(t, on) =
           IF on.level = Unknown THEN [on EXCEPT !.ok = FALSE]
           ELSE [on EXCEPT !.settings = Append(@, <<on.level, Key, v>>)]
<1>1. t[1] = Key /\ t[2] = Space /\ t[3] = EqualSign /\ Len(t) \in Nat /\ Len(t) >= 3
  BY DEF HeadOf
<1>2. find(t, EqualSign, 1) = 3
  <2>1. 3 \in 1 .. Len(t) /\ \A j \in 1 .. 3 - 1 : j = 1 \/ j = 2
    BY <1>1
  <2>2. \A j \in 1 .. 3 - 1 : t[j] # EqualSign
    BY <1>1, <2>1, KeyDiffers
  <2> QED BY <1>1, <2>1, <2>2, FindAt
<1> DEFINE at == find(t, EqualSign, 1)
           config == IF isConfig(t) THEN convertConfig(trim(SubSeq(t, 1, at - 1))) ELSE Unknown
<1>3. ConfigLine(t, on) =
        IF on.level = Unknown \/ config = Unknown THEN [on EXCEPT !.ok = FALSE]
        ELSE [on EXCEPT !.settings = Append(@, <<on.level, config, Value(trim(SubSeq(t, at + 1, Len(t))))>>)]
  BY Zenon DEF ConfigLine, EqualSign
<1>4. isConfig(t)
  <2>1. isConfig(t) <=> Len(t) > 0 /\ t[1] \notin {Quote, EqualSign, Space} /\ at # 0
    BY Zenon DEF isConfig, EqualSign, Space
  <2>2. Len(t) > 0 /\ at # 0
    BY <1>1, <1>2
  <2> QED BY <1>1, <2>1, <2>2, KeyDiffers
<1>5. at - 1 = 2 /\ at + 1 = 4
  BY <1>2
<1> HIDE DEF at
<1>6. config = Key
  BY <1>1, <1>4, <1>5, KeyBefore
<1>7. Value(trim(SubSeq(t, at + 1, Len(t)))) = v
  BY <1>5, ValueBehind
<1> HIDE DEF config
<1> QED BY <1>3, <1>6, <1>7, KeyDiffers

(* The whole line. *)
LEMMA QuotedRead ==
  ASSUME NEW v \in Text, Plain(v), NEW r \in Seq(Token), NEW k \in Nat, Len(r) = k, Remarking(r, k),
         NEW L, NEW S, NEW st \in Midway(L, S), st.level # Unknown => Append(st.settings, <<st.level, Key, v>>) \in S
  PROVE  /\ parseLine(FormatLine(v, r), st) \in Midway(L, S)
         /\ parseLine(FormatLine(v, r), st).settings =
              IF st.level = Unknown THEN st.settings ELSE Append(st.settings, <<st.level, Key, v>>)
<1> DEFINE l == FormatLine(v, r)
           e == Len(Escaping(v))
           w == trim(l)
           C == 6 + e
           t == SubSeq(w, 1, C)
           on == [st EXCEPT !.ok = TRUE]
<1>1. e \in Nat /\ v # <<>>
  BY PlainIs, EscapingType
<1> HIDE DEF e
<1>2. C \in Nat /\ C >= 6
  BY <1>1
<1>3. w \in Seq(Token) /\ Len(w) = C + k /\ HeadOf(w, v, e) /\ \A x \in 1 .. k : w[C + x] = r[x]
  <2>1. k = 0 \/ r[k] # Space
    BY DEF Remarking
  <2>2. Len(Escaping(v)) = e
    BY DEF e
  <2> QED BY <1>1, <2>1, <2>2, FormatLineTrimmed
<1>4. trim(ignoreComments(w)) = t
  <2>1. Len(Escaping(v)) = e
    BY DEF e
  <2> HIDE DEF w
  <2> QED BY <1>1, <1>3, <2>1, CommentGone
<1> HIDE DEF w
<1>5. t \in Seq(Token) /\ Len(t) = C /\ \A i \in 1 .. C : t[i] = w[i]
  <2>1. C \in 0 .. Len(w)
    BY <1>2, <1>3
  <2> HIDE DEF C
  <2> QED BY <1>3, <2>1, PartsOf
<1> HIDE DEF t
<1>6. HeadOf(t, v, e)
  <2>1. /\ w[1] = Key /\ w[2] = Space /\ w[3] = EqualSign /\ w[4] = Space /\ w[5] = Quote
        /\ \A x \in 1 .. e : w[5 + x] = Escaping(v)[x]
        /\ w[C] = Quote
    BY <1>3 DEF HeadOf
  <2>2. 1 \in 1 .. C /\ 2 \in 1 .. C /\ 3 \in 1 .. C /\ 4 \in 1 .. C /\ 5 \in 1 .. C /\ C \in 1 .. C
        /\ \A x \in 1 .. e : 5 + x \in 1 .. C
    BY <1>1
  <2>3. /\ t[1] = Key /\ t[2] = Space /\ t[3] = EqualSign /\ t[4] = Space /\ t[5] = Quote /\ t[C] = Quote
    BY <1>5, <2>1, <2>2
  <2>4. ASSUME NEW x \in 1 .. e PROVE t[5 + x] = Escaping(v)[x]
    <3> DEFINE i == 5 + x
    <3>1. i \in 1 .. C /\ w[i] = Escaping(v)[x]
      BY <2>1, <2>2
    <3> HIDE DEF i, C
    <3>2. t[i] = Escaping(v)[x]
      BY <1>5, <3>1
    <3> QED BY <3>2 DEF i
  <2> QED BY <2>3, <2>4 DEF HeadOf
<1>7. isComment(w) <=> FALSE
  BY <1>3, KeyDiffers DEF HeadOf, isComment, startsWith
<1>8. t # <<>> /\ (isLevel(t) <=> FALSE)
  <2>1. t # <<>>
    <3>1. Len(t) # 0
      BY <1>2, <1>5
    <3> QED BY <3>1
  <2> QED BY <1>6, <2>1, KeyDiffers DEF HeadOf, isLevel, startsWith
<1>9. parseLine(l, st) = ConfigLine(t, on)
  <2> HIDE DEF on, l
  <2>1. trim(l) = w
    BY DEF w
  <2> QED BY <1>4, <1>7, <1>8, <2>1, Zenon DEF parseLine, on
<1>10. on \in Midway(L, S) /\ on.settings = st.settings /\ on.level = st.level
  BY DEF Midway
<1> HIDE DEF on, l
<1>11. ConfigLine(t, on) = IF on.level = Unknown THEN [on EXCEPT !.ok = FALSE]
                           ELSE [on EXCEPT !.settings = Append(@, <<on.level, Key, v>>)]
  <2>1. Len(Escaping(v)) = e
    BY DEF e
  <2> QED BY <1>1, <1>5, <1>6, <2>1, QuotedSet
<1>12. CASE st.level = Unknown
  <2> DEFINE off == [on EXCEPT !.ok = FALSE]
  <2>1. parseLine(l, st) = off
    BY <1>9, <1>10, <1>11, <1>12
  <2>2. off \in Midway(L, S) /\ off.settings = on.settings
    BY <1>10 DEF Midway
  <2> HIDE DEF off
  <2> QED BY <1>10, <1>12, <2>1, <2>2 DEF l
<1>13. CASE st.level # Unknown
  <2> DEFINE x == Append(st.settings, <<st.level, Key, v>>)
             to == [on EXCEPT !.settings = x]
  <2>1. x \in S
    BY <1>13
  <2>2. parseLine(l, st) = to
    <3> DEFINE y == <<st.level, Key, v>>
    <3>1. parseLine(l, st) = [on EXCEPT !.settings = Append(on.settings, y)]
      BY <1>9, <1>10, <1>11, <1>13
    <3> HIDE DEF y
    <3>2. Append(on.settings, y) = Append(st.settings, y)
      BY <1>10
    <3> QED BY <3>1, <3>2 DEF y
  <2> HIDE DEF x
  <2>3. to \in Midway(L, S) /\ to.settings = x
    BY <1>10, <2>1 DEF Midway
  <2> HIDE DEF to
  <2> QED BY <1>13, <2>2, <2>3 DEF l, x
<1> QED BY <1>12, <1>13 DEF l

(* The parser reads one more line, of whatever characters. *)
LEMMA ParseMore ==
  ASSUME NEW T, NEW lines \in Seq(T), NEW line \in T
  PROVE  parseFromText(Append(lines, line)) = parseLine(line, parseFromText(lines))
<1> DEFINE one == <<line>>
<1>1. Append(lines, line) = lines \o one /\ one \in Seq(T)
  OBVIOUS
<1> HIDE DEF one
<1>2. Lining!Fold(0, Unread, lines \o one) = Lining!Fold(0, Lining!Fold(0, Unread, lines), one)
  BY <1>1, Lining!FoldConcat
<1>3. Lining!Fold(0, Lining!Fold(0, Unread, lines), one) = LineRead(0, Lining!Fold(0, Unread, lines), line)
  BY Lining!FoldOne DEF one
<1> QED BY <1>1, <1>2, <1>3, ParseIsFold DEF LineRead

TheLevel == "INFO"
NoLevel == "WARN"
GlobalLevel == "GLOBAL"
Colon == ":"

(* Levels are told apart from marks. *)
LEMMA LevelsDiffer ==
  /\ \A x \in {TheLevel, NoLevel, GlobalLevel, Colon} : x # Space /\ x # Quote /\ x # Comment
  /\ LevelMark \notin {Quote, Comment} /\ Space \notin {Quote, Comment}
  /\ TheLevel # Space /\ TheLevel # Unknown
BY Zenon DEF TheLevel, NoLevel, GlobalLevel, Colon, Space, Quote, Comment, LevelMark, Unknown

(* The level that is known and the one that is not. *)
LEMMA LevelsConvert == convertLevel(<<TheLevel>>) = TheLevel /\ convertLevel(<<NoLevel>>) = Unknown
<1>1. ASSUME NEW x PROVE convertLevel(<<x>>) = IF x \in LevelNames THEN x ELSE Unknown
  BY DEF convertLevel, Named
<1>2. TheLevel \in LevelNames /\ NoLevel \notin LevelNames
  BY Zenon DEF TheLevel, NoLevel, LevelNames
<1> QED BY <1>1, <1>2

(* A sequence of three. *)
LEMMA ThreeIs ==
  ASSUME NEW T, NEW a \in T, NEW b \in T, NEW c \in T
  PROVE  <<a, b, c>> \in Seq(T) /\ Len(<<a, b, c>>) = 3 /\ <<a, b, c>>[1] = a /\ <<a, b, c>>[2] = b /\ <<a, b, c>>[3] = c
OBVIOUS

(* A sequence of four. *)
LEMMA FourIs ==
  ASSUME NEW T, NEW a \in T, NEW b \in T, NEW c \in T, NEW d \in T
  PROVE  /\ <<a, b, c, d>> \in Seq(T) /\ Len(<<a, b, c, d>>) = 4
         /\ <<a, b, c, d>>[1] = a /\ <<a, b, c, d>>[2] = b /\ <<a, b, c, d>>[3] = c /\ <<a, b, c, d>>[4] = d
OBVIOUS

(* A line that names a level. *)
LEMMA MarkedLine ==
  ASSUME NEW x \in {TheLevel, GlobalLevel}, NEW L, NEW S, NEW st \in Midway(L, S), convertLevel(<<x>>) \in L
  PROVE  LET c == <<LevelMark, x, Colon>>
         IN  /\ c \in Seq(Token) /\ c[2] = x
             /\ parseLine(c, st) \in Midway(L, S)
             /\ parseLine(c, st).level = convertLevel(<<x>>) /\ parseLine(c, st).settings = st.settings
<1> DEFINE c == <<LevelMark, x, Colon>>
           n == 3
<1>1. LevelMark \in Token /\ x \in Token /\ Colon \in Token
  BY TokensAre DEF TheLevel, GlobalLevel, Colon
<1>2. c \in Seq(Token) /\ n = Len(c) /\ c[1] = LevelMark /\ c[2] = x /\ c[3] = Colon
  BY <1>1, ThreeIs
<1> HIDE DEF c
<1>3. /\ n \in Nat /\ n >= 3 /\ c[n] # Space /\ c[n - 1] # Space /\ c[n - 1] = x
      /\ \A i \in 2 .. n - 2 : c[i] = Space
      /\ \A i \in 1 .. n : c[i] # Quote /\ c[i] # Comment
  <2>1. \A i \in 1 .. n : i = 1 \/ i = 2 \/ i = 3
    OBVIOUS
  <2>2. \A i \in 1 .. n : c[i] # Quote /\ c[i] # Comment
    BY <1>2, <2>1, LevelsDiffer
  <2>3. c[n] # Space /\ c[n - 1] # Space /\ c[n - 1] = x
    <3>1. c[3] # Space /\ c[2] # Space
      BY <1>2, LevelsDiffer
    <3>2. n = 3 /\ n - 1 = 2
      OBVIOUS
    <3> QED BY <1>2, <3>1, <3>2
  <2>4. n \in Nat /\ n >= 3 /\ \A i \in 2 .. n - 2 : c[i] = Space
    OBVIOUS
  <2> QED BY <2>2, <2>3, <2>4
<1> HIDE DEF n
<1>4. convertLevel(<<c[n - 1]>>) \in L
  BY <1>3
<1>5. /\ parseLine(c, st) \in Midway(L, S)
      /\ parseLine(c, st).level = convertLevel(<<c[n - 1]>>) /\ parseLine(c, st).settings = st.settings
  BY <1>2, <1>3, <1>4, LevelIsRead
<1> QED BY <1>2, <1>3, <1>5 DEF c

(* A line with a space before the level names none. *)
LEMMA SpacedLine ==
  ASSUME NEW L, NEW S, NEW st \in Midway(L, S), Unknown \in L
  PROVE  LET c == <<LevelMark, Space, NoLevel, Colon>>
         IN  /\ c \in Seq(Token) /\ c[2] = Space
             /\ parseLine(c, st) \in Midway(L, S)
             /\ parseLine(c, st).level = Unknown /\ parseLine(c, st).settings = st.settings
<1> DEFINE c == <<LevelMark, Space, NoLevel, Colon>>
           n == 4
<1>1. LevelMark \in Token /\ Space \in Token /\ NoLevel \in Token /\ Colon \in Token
  BY TokensAre DEF NoLevel, Colon
<1>2. c \in Seq(Token) /\ n = Len(c) /\ c[1] = LevelMark /\ c[2] = Space /\ c[3] = NoLevel /\ c[4] = Colon
  BY <1>1, FourIs
<1> HIDE DEF c
<1>3. /\ n \in Nat /\ n >= 3 /\ c[n] # Space /\ c[n - 1] # Space /\ c[n - 1] = NoLevel
      /\ \A i \in 2 .. n - 2 : c[i] = Space
      /\ \A i \in 1 .. n : c[i] # Quote /\ c[i] # Comment
  <2>1. \A i \in 1 .. n : i = 1 \/ i = 2 \/ i = 3 \/ i = 4
    OBVIOUS
  <2>2. \A i \in 1 .. n : c[i] # Quote /\ c[i] # Comment
    BY <1>2, <2>1, LevelsDiffer
  <2>3. c[n] # Space /\ c[n - 1] # Space /\ c[n - 1] = NoLevel
    <3>1. c[4] # Space /\ c[3] # Space
      BY <1>2, LevelsDiffer
    <3>2. n = 4 /\ n - 1 = 3
      OBVIOUS
    <3> QED BY <1>2, <3>1, <3>2
  <2>4. n \in Nat /\ n >= 3 /\ \A i \in 2 .. n - 2 : c[i] = Space
    BY <1>2
  <2> QED BY <2>2, <2>3, <2>4
<1> HIDE DEF n
<1>4. convertLevel(<<c[n - 1]>>) = Unknown
  BY <1>3, LevelsConvert
<1>5. /\ parseLine(c, st) \in Midway(L, S)
      /\ parseLine(c, st).level = convertLevel(<<c[n - 1]>>) /\ parseLine(c, st).settings = st.settings
  BY <1>2, <1>3, <1>4, LevelIsRead
<1> QED BY <1>2, <1>4, <1>5 DEF c

(* A value in quotes comes out of the file as it went in. *)
Mark == "x"
Remark == <<Space, Comment, Quote, Mark, Quote>>

(* The remark behind a value. *)
LEMMA RemarkIs == Remark \in Seq(Token) /\ Len(Remark) = 5 /\ Remarking(Remark, 5)
<1>1. Mark \in Token /\ Space \in Token /\ Comment \in Token /\ Quote \in Token
  BY TokensAre DEF Mark
<1>2. Len(Remark) = 5 /\ Remark[1] = Space /\ Remark[2] = Comment /\ Remark[5] = Quote
  BY DEF Remark
<1>3. Remark \in Seq(Token)
  BY <1>1 DEF Remark
<1> QED BY <1>2, <1>3, QuotesDiffer DEF Remarking

QuotedDone(L, S, v, r, st) ==
  /\ parseLine(FormatLine(v, r), st) \in Midway(L, S)
  /\ parseLine(FormatLine(v, r), st).settings =
       IF st.level = Unknown THEN st.settings ELSE Append(st.settings, <<st.level, Key, v>>)

(* The line of a quoted value, under a name. *)
LEMMA QuotedOnce ==
  ASSUME NEW v \in Text, Plain(v), NEW r, NEW k, k \in Nat, r \in Seq(Token), Len(r) = k, Remarking(r, k),
         NEW L, NEW S, NEW st, st \in Midway(L, S), st.level # Unknown => Append(st.settings, <<st.level, Key, v>>) \in S
  PROVE  QuotedDone(L, S, v, r, st)
BY QuotedRead DEF QuotedDone

(* The file of a quoted value. *)
LEMMA QuotedFile ==
  ASSUME NEW v \in Text, Plain(v), NEW comment, comment = <<>> \/ comment = Remark,
         NEW level, level = <<LevelMark, TheLevel, Colon>> \/ level = <<LevelMark, Space, NoLevel, Colon>>,
         NEW newline \in BOOLEAN
  PROVE  parseFromFile(<<<<LevelMark, GlobalLevel, Colon>>, level, FormatLine(v, comment)>>, newline).settings
           = IF level[2] = TheLevel THEN <<<<TheLevel, Key, v>>>> ELSE <<>>
<1> DEFINE y == <<TheLevel, Key, v>>
           some == <<y>>
           S == {<<>>, some}
           L == {convertLevel(<<GlobalLevel>>), TheLevel, Unknown}
           head == <<LevelMark, GlobalLevel, Colon>>
           l == FormatLine(v, comment)
           a == parseLine(head, Unread)
           b == parseLine(level, a)
           c == parseLine(l, b)
           want == IF level[2] = TheLevel THEN some ELSE <<>>
<1>1. Unread \in Midway(L, S) /\ Unread.settings = <<>>
  BY DEF Unread, Midway
<1>2. head \in Seq(Token) /\ a \in Midway(L, S) /\ a.settings = <<>>
  <2>1. convertLevel(<<GlobalLevel>>) \in L /\ GlobalLevel \in {TheLevel, GlobalLevel}
    OBVIOUS
  <2> HIDE DEF L, S
  <2> QED BY <1>1, <2>1, MarkedLine
<1> HIDE DEF a
<1>3. /\ level \in Seq(Token) /\ b \in Midway(L, S) /\ b.settings = <<>>
      /\ b.level = IF level[2] = TheLevel THEN TheLevel ELSE Unknown
  <2>2. CASE level = <<LevelMark, TheLevel, Colon>>
    <3>1. convertLevel(<<TheLevel>>) \in L /\ TheLevel \in {TheLevel, GlobalLevel}
      BY LevelsConvert
    <3> HIDE DEF L, S
    <3> QED BY <1>2, <2>2, <3>1, MarkedLine, LevelsConvert
  <2>3. CASE level = <<LevelMark, Space, NoLevel, Colon>>
    <3>1. Unknown \in L
      OBVIOUS
    <3> HIDE DEF L, S
    <3> QED BY <1>2, <2>3, <3>1, SpacedLine, LevelsDiffer
  <2> QED BY <2>2, <2>3
<1> HIDE DEF b
<1>4. \E k \in Nat : comment \in Seq(Token) /\ Len(comment) = k /\ Remarking(comment, k)
  <2>1. CASE comment = <<>>
    <3>1. comment \in Seq(Token) /\ Len(comment) = 0 /\ Remarking(comment, 0)
      BY <2>1 DEF Remarking
    <3> QED BY <3>1
  <2>2. CASE comment = Remark
    BY <2>2, RemarkIs
  <2> QED BY <2>1, <2>2
<1>5. l \in Seq(Token) /\ c \in Midway(L, S) /\ c.settings = want
  <2>1. PICK k \in Nat : comment \in Seq(Token) /\ Len(comment) = k /\ Remarking(comment, k)
    BY <1>4
  <2>2. v # <<>>
    BY PlainIs
  <2>3. l \in Seq(Token)
    <3> DEFINE e == Len(Escaping(v))
    <3>1. e \in Nat /\ Len(Escaping(v)) = e
      BY <2>2, EscapingType
    <3> HIDE DEF e, l
    <3> QED BY <2>1, <2>2, <3>1, FormatLineIs DEF l
  <2>4. Append(<<>>, y) = some
    <3> HIDE DEF y
    <3> QED OBVIOUS
  <2>5. b.level # Unknown => b.level = TheLevel /\ Append(b.settings, <<b.level, Key, v>>) = some
    BY <1>3, <2>4
  <2>6. some \in S
    OBVIOUS
  <2> HIDE DEF some, S, L, l
  <2>7. b.level # Unknown => Append(b.settings, <<b.level, Key, v>>) \in S
    BY <2>5, <2>6
  <2>8. c \in Midway(L, S) /\ c.settings = IF b.level = Unknown THEN b.settings ELSE Append(b.settings, <<b.level, Key, v>>)
    <3>1. QuotedDone(L, S, v, comment, b)
      <4>1. k \in Nat /\ comment \in Seq(Token) /\ Len(comment) = k /\ Remarking(comment, k)
        BY <2>1
      <4>2. b \in Midway(L, S)
        BY <1>3
      <4> QED BY <4>1, <4>2, <2>7, QuotedOnce, Zenon
    <3> QED BY <3>1 DEF l, QuotedDone
  <2> QED BY <1>3, <2>3, <2>5, <2>8, LevelsDiffer
<1> HIDE DEF c, l, head, L, S, some
<1> DEFINE three == <<head, level, l>>
<1>6. three \in Seq(Seq(Token)) /\ parseFromText(three) = c
  <2> DEFINE T == Seq(Token)
  <2>1. head \in T /\ level \in T /\ l \in T
    BY <1>2, <1>3, <1>5
  <2> HIDE DEF T
  <2> DEFINE none == <<>>
             one == Append(none, head)
             two == Append(one, level)
  <2>2. none \in Seq(T) /\ one \in Seq(T) /\ two \in Seq(T) /\ three \in Seq(T) /\ three = Append(two, l)
    BY <2>1
  <2>3. parseFromText(none) = Unread
    BY ParseNone
  <2> HIDE DEF one, two, three, none
  <2>4. parseFromText(one) = a
    BY <2>1, <2>2, <2>3, ParseMore DEF a, one
  <2>5. parseFromText(two) = b
    BY <2>1, <2>2, <2>4, ParseMore DEF b, two
  <2>6. parseFromText(three) = c
    BY <2>1, <2>2, <2>5, ParseMore DEF c
  <2> QED BY <2>2, <2>6 DEF T
<1>7. parseFromFile(three, newline).settings = want
  <2> HIDE DEF three
  <2>1. CASE newline
    <3>1. parseFromFile(three, newline) = parseFromText(Append(three, <<>>))
      BY <2>1 DEF parseFromFile
    <3> DEFINE T == Seq(Token)
    <3>2. three \in Seq(T) /\ <<>> \in T
      BY <1>6
    <3> HIDE DEF T
    <3>3. parseFromText(Append(three, <<>>)) = parseLine(<<>>, c)
      BY <1>6, <3>2, ParseMore
    <3> HIDE DEF want
    <3> QED BY <1>5, <3>1, <3>3, NothingIsRead
  <2>2. CASE ~newline
    <3>1. parseFromFile(three, newline) = parseFromText(three)
      BY <2>2 DEF parseFromFile
    <3> QED BY <1>5, <1>6, <3>1
  <2> QED BY <2>1, <2>2
<1> QED BY <1>7 DEF head, l, some

(* The same, in the words of the property. *)
LEMMA ValuesRead ==
  ASSUME NEW v \in Text, Plain(v),
         NEW comment \in {<<>>, <<" ", Comment, Quote, "x", Quote>>},
         NEW level \in {<<LevelMark, "INFO", ":">>, <<LevelMark, " ", "WARN", ":">>},
         NEW newline \in BOOLEAN
  PROVE  parseFromFile(<<<<LevelMark, "GLOBAL", ":">>, level, FormatLine(v, comment)>>, newline).settings
           = IF level[2] = "INFO" THEN <<<<"INFO", "FORMAT", v>>>> ELSE <<>>
<1>1. comment = <<>> \/ comment = Remark
  BY Zenon DEF Remark, Space, Mark
<1>2. level = <<LevelMark, TheLevel, Colon>> \/ level = <<LevelMark, Space, NoLevel, Colon>>
  BY Zenon DEF TheLevel, Colon, Space, NoLevel
<1>3. parseFromFile(<<<<LevelMark, GlobalLevel, Colon>>, level, FormatLine(v, comment)>>, newline).settings
        = IF level[2] = TheLevel THEN <<<<TheLevel, Key, v>>>> ELSE <<>>
  BY <1>1, <1>2, QuotedFile, Zenon
<1> QED BY <1>3, Zenon DEF TheLevel, Key, GlobalLevel, Colon

(* What a text reads as: its digits between spaces, or 0. *)
NumberAs(s) ==
  LET dark == {i \in DOMAIN s : s[i] # " "}
      decimal == dark = Min(dark) .. Max(dark) /\ \A i \in dark : s[i] \in ToSet(Digits0to9)
  IN  IF dark # {} /\ decimal THEN Decimal(SubSeq(s, Min(dark), Max(dark))) ELSE 0

(* A value comes out as it went in, each logger gets what its sections say, *)
(* and a number is read as written: of any texts and any global files.      *)
THEOREM ConfigurationsCorrect == Spec => []ConfigurationsAsWritten
<1>1. Answers => ConfigurationsAsWritten
  <2> SUFFICES ASSUME Answers PROVE ConfigurationsAsWritten
    OBVIOUS
  <2> HIDE DEF Answers
  <2>1. ASSUME call.op = "parse", Plain(call.value)
        PROVE  result.settings = IF call.level[2] = "INFO" THEN <<<<"INFO", "FORMAT", call.value>>>> ELSE <<>>
    <3>1. /\ call.value \in Quoted /\ call.level \in LevelLines
          /\ \E comment \in Comments, newline \in BOOLEAN :
               result = parseFromFile(<<HeadLine, call.level, FormatLine(call.value, comment)>>, newline)
      BY <2>1 DEF Answers
    <3>2. call.value \in Text
      BY <3>1, ConfigurationsAssumption
    <3>3. PICK comment \in Comments, newline \in BOOLEAN :
               result = parseFromFile(<<HeadLine, call.level, FormatLine(call.value, comment)>>, newline)
      BY <3>1
    <3> QED BY <2>1, <3>1, <3>2, <3>3, ValuesRead, Zenon DEF HeadLine, LevelLines, Comments
  <2>2. ASSUME call.op = "configure", ~ShortIds(call.file), NEW l \in Ids \cup {NoLogger}
        PROVE  ConfiguredTo(l) = IF l = NoLogger THEN <<>> ELSE Said(call.file, l)
    <3>1. call.file \in Files /\ result = configureFromGlobal(call.file)
      BY <2>2 DEF Answers
    <3>2. call.file \in Seq(Text) /\ \A i \in DOMAIN call.file : Understood(call.file[i])
      BY <3>1, ConfigurationsAssumption
    <3>3. l \in Loggers
      BY Zenon DEF Loggers
    <3>4. DoneOf(configureFromGlobal(call.file), l) = IF l = NoLogger THEN <<>> ELSE Said(call.file, l)
      BY <2>2, <3>2, <3>3, FilesRead, Zenon
    <3>5. ConfiguredTo(l) = DoneOf(configureFromGlobal(call.file), l)
      BY <3>1, Zenon DEF ConfiguredTo, DoneOf
    <3> QED BY <3>4, <3>5, Zenon
  <2>3. ASSUME call.op = "number"
        PROVE  result = NumberAs(call.text)
    <3>1. call.text \in Numbers /\ result = getULong(call.text)
      BY <2>3 DEF Answers
    <3>2. call.text \in Text
      BY <3>1, ConfigurationsAssumption
    <3> QED BY <3>1, <3>2, NumbersRead, Zenon DEF NumberAs
  <2> QED BY <2>1, <2>2, <2>3, Zenon DEF ConfigurationsAsWritten, NumberAs
<1> QED BY <1>1, Answered, PTL
=============================================================================
