------------------------------- MODULE LogText -------------------------------
(***************************************************************************)
(* Calls into the parts of Easylogging++ that work on texts: a statement   *)
(* is formatted, a value is streamed, a time is written, a configuration   *)
(* is read, a log file's directory is made, a verbose statement asks       *)
(* whether it is allowed.  LogFormats, LogMessages, LogPaths and           *)
(* LogSettings say what is computed; here are the calls, the registries    *)
(* of verbose levels and of custom format specifiers, and what the answers *)
(* should be, said without the algorithms.                                 *)
(***************************************************************************)
EXTENDS LogSettings, LogMessages, LogRequests

CONSTANTS
  Formats, Messages, Names,  \* texts; file names
  CustomSpecifiers,     \* [specifier, value]
  Containers,           \* values that are logged
  FullNames, Sources,   \* paths of log files and of source files
  FileSystems,          \* [there, closed]
  Numbers,              \* texts that are read as numbers
  Times, Stamps,        \* [sec, usec], the second within a word of microseconds
  Statements,           \* log statements: [logger, msg, file, line, func, level, vlevel]
  Clients,              \* [zone, m_utc, m_timeOffset, m_applicationId]
  Durations,            \* amounts of time, in microseconds or milliseconds
  W,                    \* how many values the word of a time difference has
  Quoted,               \* texts that are to be configured
  Files,                \* global configuration files
  Entries,              \* of -vmodule: [name, level]
  CommandLines,         \* sequences of [key, level, entries]
  Levels,               \* verbose levels
  Paths,                \* source files
  MaxEntries,           \* bound: how many modules are set
  MaxCustoms            \* bound: how many custom specifiers are installed

Text == Seq(STRING)

ASSUME TextsAssumption == Names \cup FullNames \cup Sources \cup Paths \subseteq Text

ASSUME LengthAssumption == kSourceFilenameMaxLength \in Nat /\ kSourceFilenameMaxLength >= 3

(* With a place all that it is in is there, and what is closed is there.   *)
ASSUME FileSystemsAssumption ==
  /\ FileSystems \subseteq [there : SUBSET Text, closed : SUBSET Text]
  /\ \A fs \in FileSystems :
       /\ {<<"root">>, <<"here">>} \cup fs.closed \subseteq fs.there
       /\ \A place \in fs.there : \A k \in DOMAIN place : SubSeq(place, 1, k) \in fs.there

(* Times are of January, 31 times 86400 seconds, as far as TimeInfo goes.  *)
Instant == [sec : Nat, usec : Nat]
ASSUME TimesAssumption ==
  /\ Times \cup Stamps \subseteq Instant /\ \A t \in Times \cup Stamps : t.usec < 1000000
  /\ \A t \in Times : t.sec < 31 * 86400
  /\ W \in Nat /\ \A t \in Stamps : 1000000 * t.sec + t.usec < W
  /\ Durations \subseteq Nat

ASSUME StatementsAssumption ==
  /\ Statements \subseteq [logger : Text, msg : Text, file : Text, func : Text,
                           line : Nat, level : Nat, vlevel : Nat]
  /\ Clients \subseteq [zone : [standard : Int, summer : BOOLEAN], m_utc : BOOLEAN,
                        m_timeOffset : Int, m_applicationId : Text]

(* What -vmodule reads as it was meant: a digit, and a name that holds     *)
(* neither of the separators and does not end in a suffix.                 *)
Readable(es) ==
  /\ es \in Seq([name : Text, level : 0 .. 9])
  /\ \A i \in DOMAIN es :
       /\ es[i].name # <<>> /\ \A j \in DOMAIN es[i].name : es[i].name[j] \notin {"=", ","}
       /\ es[i].name[Len(es[i].name)] \notin ToSet(FileExtensions)

(* The name of a source file is not cut, nor a slash its only directory.   *)
ASSUME VerboseAssumption ==
  /\ Levels \subseteq Nat /\ \A es \in Entries : Readable(es)
  /\ \A line \in CommandLines :
       /\ line \in Seq([key : {"-v", "--v", "-vmodule"}, level : 0 .. 9,
                        entries : Seq([name : Text, level : 0 .. 9])])
       /\ \A i \in DOMAIN line : Readable(line[i].entries)
  /\ \A p \in Paths : Slashes(p) # {1} /\ Len(baseOf(p)) < kSourceFilenameMaxLength

(* What stands before a comment. *)
Core(line) ==
  LET mark == find(line, Comment, 1) IN IF mark = 0 THEN line ELSE SubSeq(line, 1, mark - 1)

(* A line of a global file: the id of a logger, a level or a setting,      *)
(* without quotes or spaces, and then a comment or nothing.                *)
Understood(line) ==
  LET core == Core(line)
  IN  /\ line \in Text /\ Quote \notin ToSet(line) /\ " " \notin ToSet(core)
      /\ \/ core = <<>>
         \/ Len(core) = 2 /\ core[1] = LoggerMark
         \/ Len(core) = 3 /\ core[1] = LevelMark /\ core[3] = ":"
         \/ /\ Len(core) = 3 /\ core[2] = "="
            /\ core[1] \notin {LoggerMark, LevelMark, "MILLISECONDS_WIDTH"}

ASSUME ConfigurationsAssumption ==
  /\ Quoted \cup Numbers \subseteq Text
  /\ \A f \in Files : f \in Seq(Text) /\ \A i \in DOMAIN f : Understood(f[i])

VARIABLES
  call, result,
  vRegistry,   \* [level, modules]
  m_customFormatSpecifiers,
  given        \* history: what was asked for, [level, entries, customs]

vars == <<call, result, vRegistry, m_customFormatSpecifiers, given>>

None == [op |-> "none"]
DefaultRegistry == [level |-> 0, modules |-> <<>>]
NothingGiven == [level |-> 0, entries |-> <<>>, customs |-> <<>>]

(* What stands for a specifier: itself, marked. *)
ValueOf(w) == <<"value", w>>
Filled == [w \in ToSet(Specifiers) \cup {DateTime} |-> ValueOf(w)]

Init ==
  /\ call = None /\ result = <<>> /\ vRegistry = DefaultRegistry
  /\ m_customFormatSpecifiers = <<>> /\ given = NothingGiven

Called(c, r) == call = None /\ call' = c /\ result' = r
Answer(c, r) == Called(c, r) /\ UNCHANGED <<vRegistry, m_customFormatSpecifiers, given>>

Return ==
  /\ call # None /\ call' = None /\ result' = <<>>
  /\ UNCHANGED <<vRegistry, m_customFormatSpecifiers, given>>

(* Bound: what does not depend on the registries is asked while they are   *)
(* new, and lines are built while the verbose one is.                      *)
Fresh == call = None /\ given = NothingGiven

Build == \E f \in Formats, msg \in Messages, verbose \in BOOLEAN :
  /\ given.entries = <<>> /\ given.level = 0
  /\ Answer([op |-> "build", format |-> f, msg |-> msg, verbose |-> verbose],
            Line(f, [Filled EXCEPT !["%msg"] = msg], verbose, m_customFormatSpecifiers))

(* Storage::installCustomFormatSpecifier: the first one stays. *)
Installed(w) ==
  {i \in DOMAIN m_customFormatSpecifiers : m_customFormatSpecifiers[i].specifier = w}

InstallCustomFormatSpecifier == \E c \in CustomSpecifiers :
  /\ given.entries = <<>> /\ given.level = 0 /\ Len(m_customFormatSpecifiers) < MaxCustoms
  /\ Called([op |-> "install"], <<>>)
  /\ m_customFormatSpecifiers' =
       IF Installed(c.specifier) # {} THEN m_customFormatSpecifiers
       ELSE Append(m_customFormatSpecifiers, c)
  /\ given' = [given EXCEPT !.customs = Over(@, [w \in {c.specifier} |-> c.value])]
  /\ UNCHANGED vRegistry

UninstallCustomFormatSpecifier == \E i \in DOMAIN m_customFormatSpecifiers :
  LET w == m_customFormatSpecifiers[i].specifier
  IN  /\ Called([op |-> "uninstall"], <<>>)
      /\ m_customFormatSpecifiers' = RemoveAt(m_customFormatSpecifiers, Min(Installed(w)))
      /\ given' = [given EXCEPT !.customs = Restrict(@, DOMAIN @ \ {w})]
      /\ UNCHANGED vRegistry

Stream == Fresh /\ \E v \in Containers, flags \in SUBSET {"AutoSpacing", "NewLineForContainer"} :
  Answer([op |-> "stream", value |-> v, flags |-> flags], Written[v, flags])

Now == <<"now">>
Resolve == Fresh /\ \E f \in Names :
  Answer([op |-> "resolve", name |-> f], resolveFilename(f, Now))

MakePath == Fresh /\ \E f \in FullNames, fs \in FileSystems :
  Answer([op |-> "path", name |-> f, fs |-> fs], PathFor(f, fs))

(* What %file and %fbase stand for. *)
SourceName == Fresh /\ \E f \in Sources :
  Answer([op |-> "source", name |-> f],
         [file |-> buildStrippedFilename(f), fbase |-> buildBaseFilename(f)])

(* A time of the day, as buildTimeInfo takes it apart.  External.          *)
TimeInfo(t) ==
  [usec |-> t.usec, sec |-> t.sec % 60, min |-> (t.sec \div 60) % 60,
   hour |-> (t.sec \div 3600) % 24, day |-> 1 + t.sec \div 86400, weekday |-> 0,
   month |-> 1, year |-> 2018]

DateTimeOf(t, width) == timevalToString(DefaultDateFormat, TimeInfo(t), width)

Dates == Fresh /\ \E s, t \in Times, width \in 0 .. 7 :
  Answer([op |-> "dates", first |-> s, second |-> t, width |-> width],
         <<DateTimeOf(s, width), DateTimeOf(t, width)>>)

Duration == Fresh /\ \E d \in Durations, unit \in {1, 2} :
  Answer([op |-> "duration", time |-> d, unit |-> unit], formatTime(d, unit))

Difference == Fresh /\ \E s, t \in Stamps, unit \in {1, 2} :
  Answer([op |-> "difference", first |-> s, second |-> t, unit |-> unit],
         getTimeDifference(t, s, unit, W))

Request == Fresh /\ \E s \in Statements, t \in Times, r \in Clients :
  Answer([op |-> "request", statement |-> s, time |-> t, client |-> r],
         {requestToJson(request, r) : request \in handle(s, t.sec, r)})

(* A value written as the parser's escapes allow. *)
Escaping(v) == FlattenSeq([i \in DOMAIN v |-> IF v[i] = Quote THEN <<Backslash, Quote>>
                                                              ELSE <<v[i]>>])
FormatLine(v, comment) ==
  <<" ", "FORMAT", " ", "=", " ", Quote>> \o Escaping(v) \o <<Quote>> \o comment

Parse == Fresh /\ \E v \in Quoted, comment \in {<<>>, <<" ", Comment, Quote, "x", Quote>>},
            level \in {<<LevelMark, "INFO", ":">>, <<LevelMark, " ", "WARN", ":">>},
            newline \in BOOLEAN :
  LET lines == <<<<LevelMark, "GLOBAL", ":">>, level, FormatLine(v, comment)>>
  IN  Answer([op |-> "parse", value |-> v, level |-> level], parseFromFile(lines, newline))

Number == Fresh /\ \E text \in Numbers :
  Answer([op |-> "number", text |-> text], getULong(text))

Configure == Fresh /\ \E f \in Files :
  Answer([op |-> "configure", file |-> f], configureFromGlobal(f))

-----------------------------------------------------------------------------
(* The verbose registry, with AllowVerboseIfModuleNotSpecified, which      *)
(* Storage's constructor sets.                                             *)
Flags == {"AllowVerboseIfModuleNotSpecified"}

EntriesText(es) ==
  FlattenSeq([i \in DOMAIN es |-> (IF i = 1 THEN <<>> ELSE <<",">>) \o es[i].name
                                 \o <<"=", Digits0to9[es[i].level + 1]>>])

Verbose(c) == given.customs = <<>> /\ Called(c, <<>>) /\ UNCHANGED m_customFormatSpecifiers

SetVModules == \E es \in Entries :
  /\ Len(given.entries) + Len(es) <= MaxEntries /\ Verbose([op |-> "setVModules"])
  /\ vRegistry' = [vRegistry EXCEPT !.modules = setModules(@, EntriesText(es), TRUE)]
  /\ given' = [given EXCEPT !.entries = @ \o es]

ClearVModules ==
  /\ given.entries # <<>> /\ Verbose([op |-> "clearVModules"])
  /\ vRegistry' = [vRegistry EXCEPT !.modules = <<>>]
  /\ given' = [given EXCEPT !.entries = <<>>]

SetVerboseLevel == \E l \in Levels :
  /\ Verbose([op |-> "setVerboseLevel"])
  /\ vRegistry' = [vRegistry EXCEPT !.level = setLevel(l)]
  /\ given' = [given EXCEPT !.level = l]

Allowed == \E v \in Levels, p \in Paths :
  /\ given.customs = <<>>
  /\ Answer([op |-> "allowed", level |-> v, path |-> p],
            allowed(v, p, vRegistry.level, vRegistry.modules, Flags))

(* An argument without a value, with a level, or with modules.             *)
Argument(a) ==
  [key |-> a.key, value |-> CASE a.key = "-v" -> <<>>
                              [] a.key = "--v" -> <<"=", Digits0to9[a.level + 1]>>
                              [] a.key = "-vmodule" -> <<"=">> \o EntriesText(a.entries)]

(* What a line asks for: everything, else a level, else modules; of two    *)
(* arguments with one key the first.                                       *)
Asked(line, g) ==
  LET With(key) == {i \in DOMAIN line : line[i].key = key}
      First(key) == line[Min(With(key))]
  IN  IF With("-v") # {} THEN [g EXCEPT !.level = 9]
      ELSE IF With("--v") # {} THEN [g EXCEPT !.level = First("--v").level]
      ELSE IF With("-vmodule") # {} THEN [g EXCEPT !.entries = @ \o First("-vmodule").entries]
      ELSE g

SetFromArgs == \E line \in CommandLines :
  /\ Len(Asked(line, given).entries) <= MaxEntries /\ Verbose([op |-> "setFromArgs"])
  /\ vRegistry' = setFromArgs(vRegistry, setArgs([i \in DOMAIN line |-> Argument(line[i])]), Flags)
  /\ given' = Asked(line, given)

Next ==
  \/ Build \/ Stream \/ InstallCustomFormatSpecifier \/ UninstallCustomFormatSpecifier
  \/ Resolve \/ MakePath \/ SourceName
  \/ Dates \/ Duration \/ Difference \/ Request
  \/ Parse \/ Number \/ Configure
  \/ SetVModules \/ ClearVModules \/ SetVerboseLevel \/ Allowed \/ SetFromArgs
  \/ Return

Spec == Init /\ [][Next]_vars

-----------------------------------------------------------------------------
(* What the answers should be.                                             *)

(* Of a specifier, the first place that is not escaped gives way to the    *)
(* value.  Escapes before it go where the specifier has a value, escapes   *)
(* after it always; %datetime keeps those.                                 *)
At(f, w, escaped) == {j \in DOMAIN f : f[j] = w /\ Escaped(f, j) = escaped}
FirstFree(f, w) == IF At(f, w, FALSE) = {} THEN Len(f) + 1 ELSE Min(At(f, w, FALSE))

Customs == DOMAIN given.customs

Valued(f, w, c) ==
  \/ w \in {"%level", "%levshort", "%logger"} \cup Customs
  \/ w \in DOMAIN Filled /\ At(f, w, FALSE) # {} /\ (w = "%vlevel" => c.verbose)

Stripped(f, j, c) ==
  LET w == f[j]
  IN  /\ w \in DOMAIN Filled \cup Customs
      /\ Escaped(f, j)
      /\ IF j > FirstFree(f, w) THEN w \in ToSet(Specifiers) ELSE Valued(f, w, c)

ValueFor(w, c) ==
  IF w = "%msg" THEN c.msg
  ELSE IF w \in DOMAIN Filled THEN Filled[w]
  ELSE given.customs[w]

(* The braces that may follow %datetime, and what is in them. *)
Braced(f) ==
  LET j == FirstFree(f, DateTime)
  IN  {k \in j + 1 .. Len(f) : f[j + 1] = "{" /\ "}" \notin {f[i] : i \in j + 2 .. k - 1}}

Expected(c) ==
  LET f == c.format
      Piece(j) ==
        IF j \in Braced(f) THEN <<>>
        ELSE IF j < Len(f) /\ f[j] = Escape /\ Stripped(f, j + 1, c) THEN <<>>
        ELSE IF j = FirstFree(f, f[j]) /\ Valued(f, f[j], c) THEN ValueFor(f[j], c)
        ELSE <<f[j]>>
  IN  FlattenSeq([j \in DOMAIN f |-> Piece(j)])

ExpectedName(name) ==
  FlattenSeq([j \in DOMAIN name |-> IF j \in Braced(name) THEN <<>>
                                    ELSE IF name[j] = DateTime THEN Now ELSE <<name[j]>>])

(* The depth of each token, and a container's text taken apart: what is    *)
(* between its brackets, between separators of its own.                    *)
Depth(text, i) ==
  Quantify(1 .. i, LAMBDA j : text[j] \in {"[", "("})
  - Quantify(1 .. i - 1, LAMBDA j : text[j] \in {"]", ")"})

Inner(text, sep) ==
  LET close == Max({j \in DOMAIN text : text[j] \in {"]", ")"}})
      cuts == {j \in 2 .. close : j = close \/ (text[j] = sep /\ Depth(text, j) = 1)}
      From(j) == Max({1} \cup {k \in cuts : k < j})
  IN  IF close = 2 THEN <<>>
      ELSE [n \in 1 .. Cardinality(cuts) |->
             LET j == CHOOSE k \in cuts : Cardinality({i \in cuts : i <= k}) = n
             IN  SubSeq(text, From(j) + 1, j - 1)]

(* The elements in the order they are to be seen in. *)
InOrderOf(v) ==
  CASE v.kind = "stack" -> Reverse(v.items)
    [] v.kind = "priority_queue" -> SortSeq(v.items, LAMBDA v1, v2 : Less(v2, v1))
    [] OTHER -> v.items

Adapters == {"queue", "stack", "priority_queue"}
NotContainers == {"text", "qstring", "bitset"}

(* What shows of v: its elements as they show by themselves, as many as    *)
(* the limit, and dots where there are more; of an adapter one less, and   *)
(* no dots.                                                                *)
Shows(v, flags, text) ==
  LET elements == InOrderOf(v)
      own == IF v.kind = "friendly" THEN flags \ {"AutoSpacing"} ELSE flags
      sep == IF "NewLineForContainer" \in flags /\ v.kind # "pair" THEN "\n" ELSE ", "
      limit == IF v.kind \in Adapters THEN kMaxLogPerContainer - 1
               ELSE IF v.kind = "pair" THEN 2 ELSE kMaxLogPerContainer
      shown == [i \in 1 .. Min({Len(elements), limit}) |-> Written[elements[i], own]]
  IN  Inner(text, sep) = IF Len(elements) <= limit \/ v.kind \in Adapters THEN shown
                         ELSE Append(shown, <<"...">>)

(* A line is its format with every specifier's first free place filled in, *)
(* and the message, the values and what was escaped are not looked into,   *)
(* except for custom specifiers: the passes over the line, one for each    *)
(* specifier, do not see each other's output (LogFormat::parseFromFormat,  *)
(* DefaultLogBuilder::build, Storage::installCustomFormatSpecifier).  A    *)
(* container shows its elements, and dots where it has more than the limit *)
(* (MessageBuilder::writeIterator).                                        *)
LineAsSpecified ==
  /\ call.op = "build" /\ (ToSet(call.msg) \cup UNION {ToSet(given.customs[w]) : w \in Customs})
                             \cap Customs = {} =>
       result = Expected(call)
  /\ call.op = "stream" /\ call.value.kind \notin NotContainers => Shows(call.value, call.flags, result)

Prefixed(place) == {SubSeq(place, 1, k) : k \in DOMAIN place}
Missing(place, fs) == Prefixed(place) \ fs.there
Ancestor(place, fs) == SubSeq(place, 1, Max({Len(q) : q \in Prefixed(place) \cap fs.there}))

(* In a log file's name every date is filled in, unless all are escaped.   *)
(* The directories that lead to the file are made, whichever of them exist *)
(* already, unless the last that exists is closed, and nothing else is.    *)
(* The name of a source file is its end, the base of it without a          *)
(* directory, and shorter than the limit unless a dot stands where it was  *)
(* cut (TypedConfigurations::resolveFilename and insertFile,               *)
(* File::createPath, buildStrippedFilename, buildBaseFilename).            *)
FilesAsNamed ==
  /\ call.op = "resolve" /\ (DateTime \in ToSet(call.name) => At(call.name, DateTime, FALSE) # {}) =>
       result = ExpectedName(call.name)
  /\ call.op = "path" =>
       LET directory == Place(extractPathFromFilename(call.name))
           leads == Slashes(call.name) # {} /\ call.name[Len(call.name)] # kFilePathSeparator
           open == Ancestor(directory, call.fs) \notin call.fs.closed
       IN  /\ result.fs.there =
                call.fs.there \cup IF leads /\ open THEN Missing(directory, call.fs) ELSE {}
           /\ leads => (result.ok <=> directory \in result.fs.there)
  /\ call.op = "source" =>
       LET limit == kSourceFilenameMaxLength
           Cut(name) == name[Len(name) - limit + 1] = "." \/ name[Len(name) - limit + 2] = "."
           EndOf(shown, name) ==
             IF Len(name) < limit THEN shown = name
             ELSE LET rest == IF Cut(name) THEN shown ELSE SubSeq(shown, 3, Len(shown))
                  IN  /\ IsSuffix(rest, name)
                      /\ Len(shown) = IF Cut(name) THEN limit ELSE limit - 1
           base == SubSeq(call.name, SelectLastInSeq(call.name, LAMBDA c : c = "/") + 1,
                          Len(call.name))
       IN  EndOf(result.file, call.name) /\ (Slashes(call.name) # {1} => EndOf(result.fbase, base))

Micros(t) == 1000000 * t.sec + t.usec
Before(s, t) == s.sec < t.sec \/ (s.sec = t.sec /\ s.usec < t.usec)

Factor(u, v) == FoldLeft(LAMBDA n, m : n * m, 1, SubSeq(PerNext, u, v - 1))

SortsBefore(a, b) ==
  \E i \in DOMAIN a : a[i] < b[i] /\ \A j \in 1 .. i - 1 : a[j] = b[j]

(* Dates in the default format sort as the times do from three digits of   *)
(* subseconds on; a duration is shown in the largest unit it fills, never  *)
(* rounded up and never as thousands; a difference of times is right to    *)
(* its unit unless the clock went back (DateTime, SubsecondPrecision).     *)
TimesRight ==
  /\ call.op = "dates" /\ call.width \notin {1, 2} =>
       /\ Before(call.first, call.second) =>
            result[1] = result[2] \/ SortsBefore(result[1], result[2])
       /\ result[1] = result[2] =>
            /\ call.first.sec = call.second.sec
            /\ call.width = 6 => call.first = call.second
  /\ call.op = "duration" =>
       /\ result.count = call.time \div Factor(call.unit, result.unit)
       /\ call.time > 0 => result.count > 0
       /\ result.unit < 6 => result.count < <<1900, 1900, 61, 61, 25>>[result.unit]
  /\ call.op = "difference" /\ ~Before(call.second, call.first) =>
       LET exact == Micros(call.second) - Micros(call.first)
       IN  IF call.unit = 1 THEN result = exact
           ELSE result * 1000 \in exact - 999 .. exact + 999

(* A request tells all of its statement, to whom takes a missing field for *)
(* empty or zero, and is dated so that the client's clock shows its own    *)
(* time then, or the universal time where that is asked for, but for an    *)
(* hour in summer (Residue::requestToJson, ResidueDispatcher::handle).     *)
RequestsTellAll == call.op = "request" => \A json \in result :
  LET r == call.client
      dated == json.datetime \div 1000 - r.m_timeOffset
      clock == localtime(dated, r.zone).shows
      hour == clock - call.time.sec = 3600
  IN  /\ \A k \in DOMAIN call.statement :
           call.statement[k] = IF k \in DOMAIN json THEN json[k]
                               ELSE IF k \in {"line", "vlevel"} THEN 0 ELSE <<>>
      /\ IF ~r.m_utc THEN dated = call.time.sec
         ELSE clock = call.time.sec \/ (hour /\ r.zone.summer)

(* The quotes of a value that the parser can tell apart: not the last two  *)
(* characters, and not two of them in a row.                               *)
Plain(v) ==
  /\ v # <<>> /\ \A i \in DOMAIN v : v[i] # Backslash
  /\ \A i \in DOMAIN v : v[i] = Quote => i < Len(v) - 1 /\ v[i + 1] # Quote

Header(line) == startsWith(line, LoggerMark)
Owner(f, i) ==
  LET hs == {h \in 1 .. i : Header(f[h])}
  IN  IF hs = {} THEN NoLogger ELSE getLogger(Tail(Core(f[Max(hs)])))
LevelAt(f, i) ==
  LET starts == {h \in 1 .. i : Header(f[h]) \/ isLevel(f[h])}
  IN  IF starts = {} \/ Header(f[Max(starts)]) THEN Unknown ELSE convertLevel(<<f[Max(starts)][2]>>)

(* What the file says of logger l, line by line. *)
Says(f, i, l) ==
  /\ f[i] # <<>> /\ f[i][1] \in ConfigNames
  /\ Owner(f, i) = l /\ LevelAt(f, i) # Unknown
Said(f, l) ==
  FlattenSeq([i \in DOMAIN f |->
    IF Says(f, i, l) THEN <<<<LevelAt(f, i), f[i][1], <<f[i][3]>>>>>> ELSE <<>>])

ConfiguredTo(l) ==
  FlattenSeq([i \in DOMAIN result |-> IF result[i][1] = l THEN result[i][2] ELSE <<>>])

ShortIds(f) == \E i \in DOMAIN f : Header(f[i]) /\ f[i][2] \in Letters

(* The number that digits stand for, each at its place. *)
Decimal(text) ==
  LET N == Len(text)
      Place10[i \in DOMAIN text] == IF i = N THEN 1 ELSE 10 * Place10[i + 1]
      Sum[i \in DOMAIN text] ==
        DigitOf(text[i]) * Place10[i] + IF i = 1 THEN 0 ELSE Sum[i - 1]
  IN  Sum[N]

(* A quoted value comes out of a configuration file as it went in, for the *)
(* level it stands under and no other; of a global file each logger gets   *)
(* what its sections say and nobody else's, unless an id has one letter.   *)
(* A number between spaces is that number, anything else 0                 *)
(* (Configurations::Parser::parseLine, Loggers::configureFromGlobal,       *)
(* TypedConfigurations::getULong).                                         *)
ConfigurationsAsWritten ==
  /\ call.op = "parse" /\ Plain(call.value) =>
       result.settings = IF call.level[2] = "INFO" THEN <<<<"INFO", "FORMAT", call.value>>>>
                                                   ELSE <<>>
  /\ call.op = "configure" /\ ~ShortIds(call.file) =>
       \A l \in Ids \cup {NoLogger} :
         ConfiguredTo(l) = IF l = NoLogger THEN <<>> ELSE Said(call.file, l)
  /\ call.op = "number" =>
       LET dark == {i \in DOMAIN call.text : call.text[i] # " "}
           decimal == dark = Min(dark) .. Max(dark) /\ \A i \in dark : call.text[i] \in ToSet(Digits0to9)
       IN  result = IF dark # {} /\ decimal THEN Decimal(SubSeq(call.text, Min(dark), Max(dark))) ELSE 0

(* Which positions of s the pattern can have reached. *)
Reached(s, p) ==
  FoldLeft(LAMBDA at, c :
             IF c = "*" THEN UNION {i .. Len(s) : i \in at}
             ELSE {i + 1 : i \in {j \in at : j < Len(s) /\ c \in {"?", s[j + 1]}}},
           {0}, p)

Covers(name, path) ==
  LET base == SelectLastInSeq(path, LAMBDA c : c = "/")
      file == SubSeq(path, base + 1, Len(path))
  IN  \E e \in ToSet(FileExtensions) : Len(file) \in Reached(file, Append(name, e))

(* A verbose statement is allowed as its module was first given a level,   *)
(* or as the level says where no module was given; one that no module      *)
(* covers is allowed.  Where several cover it any of them may decide       *)
(* (VRegistry::setModules, setFromArgs and allowed).                       *)
VerboseAsAsked == call.op = "allowed" =>
  LET es == given.entries
      First(i) == \A j \in 1 .. i - 1 : es[j].name # es[i].name
      deciding == {i \in DOMAIN es : First(i) /\ Covers(es[i].name, call.path)}
  IN  result = IF es = <<>> THEN {call.level <= Min({given.level, 9})}
               ELSE IF deciding = {} THEN {TRUE}
               ELSE {call.level <= es[i].level : i \in deciding}
=============================================================================
