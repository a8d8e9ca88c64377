----------------------------- MODULE LogSettings -----------------------------
(***************************************************************************)
(* What the library reads from configuration files and from the command    *)
(* line (easylogging++.cc, Configurations::Parser, Loggers, VRegistry,     *)
(* CommandLineArgs, Str::wildCardMatch and File).                          *)
(*                                                                         *)
(* A line is a sequence of tokens: a word or a character.  The case of     *)
(* letters, which the parser ignores in names, is left out.                *)
(***************************************************************************)
EXTENDS LogPaths

Quote == "\""
Backslash == "\\"
Comment == "##"
LevelMark == "*"
LoggerMark == "--"
Unknown == "UNKNOWN"

LevelNames == {"GLOBAL", "DEBUG", "INFO", "WARNING", "ERROR", "FATAL", "VERBOSE", "TRACE"}
ConfigNames == {"ENABLED", "TO_FILE", "TO_STANDARD_OUTPUT", "FORMAT", "FILENAME",
                "SUBSECOND_PRECISION", "MILLISECONDS_WIDTH", "PERFORMANCE_TRACKING",
                "MAX_LOG_FILE_SIZE", "LOG_FLUSH_THRESHOLD"}

Named(text, names) == IF Len(text) = 1 /\ text[1] \in names THEN text[1] ELSE Unknown

convertLevel(text) == Named(text, LevelNames)

(* MillisecondsWidth is SubsecondPrecision by its old name. *)
convertConfig(text) ==
  LET name == Named(text, ConfigNames)
  IN  IF name = "MILLISECONDS_WIDTH" THEN "SUBSECOND_PRECISION" ELSE name

trim(s) ==
  LET dark == {i \in DOMAIN s : s[i] # " "}
  IN  IF dark = {} THEN <<>> ELSE SubSeq(s, Min(dark), Max(dark))

startsWith(s, w) == Len(s) > 0 /\ s[1] = w

Digits0to9 == <<"0", "1", "2", "3", "4", "5", "6", "7", "8", "9">>
DigitOf(c) == (CHOOSE i \in DOMAIN Digits0to9 : Digits0to9[i] = c) - 1

(* TypedConfigurations::getULong: a number, or 0.                          *)
getULong(confVal) ==
  LET text == trim(confVal)
  IN  IF text # <<>> /\ ToSet(text) \subseteq ToSet(Digits0to9)
        THEN FoldLeft(LAMBDA n, c : 10 * n + DigitOf(c), 0, text)
        ELSE 0

-----------------------------------------------------------------------------
(* Configurations::Parser.                                                 *)

isComment(line) == startsWith(line, Comment)
isLevel(line) == startsWith(line, LevelMark)
isConfig(line) == Len(line) > 0 /\ line[1] \notin {Quote, "=", " "} /\ find(line, "=", 1) # 0

(* From the quote at q on, the first that no backslash precedes; the       *)
(* character after an escaped one is not looked at.  There are no more     *)
(* rounds than characters.                                                 *)
ClosingQuote(s, q) ==
  FoldLeft(LAMBDA at, c : IF at = 0 \/ s[at - 1] # Backslash THEN at ELSE find(s, Quote, at + 2),
           q, s)

(* A mark before the quotes counts only if they are not closed. *)
ignoreComments(line) ==
  LET open == find(line, Quote, 1)
      close == IF open = 0 THEN 0 ELSE ClosingQuote(line, find(line, Quote, open + 1))
      mark == IF close = 0 \/ find(line, Comment, 1) > close THEN find(line, Comment, 1)
                                                            ELSE find(line, Comment, close + 1)
  IN  IF mark = 0 THEN line ELSE SubSeq(line, 1, mark - 1)

(* Escapes go as the closing quote is looked for, and each takes the two   *)
(* characters after its quote out of the search.                           *)
Unquoting(s, q) ==
  FoldLeft(LAMBDA u, c : IF u.close = 0 \/ u.text[u.close - 1] # Backslash THEN u
                         ELSE LET t == RemoveAt(u.text, u.close - 1)
                              IN  [text |-> t, close |-> find(t, Quote, u.close + 2)],
           [text |-> s, close |-> q], s)

(* The length taken is counted from the start of the text, not from the    *)
(* opening quote.                                                          *)
Value(text) ==
  LET open == find(text, Quote, 1)
      u == IF open = 0 THEN [text |-> text, close |-> 0]
                       ELSE Unquoting(text, find(text, Quote, open + 1))
  IN  IF u.close = 0 \/ u.close = open + 1 THEN u.text
      ELSE SubSeq(u.text, open + 1, Min({Len(u.text), open + u.close - 2}))

(* st is [level, settings, ok]: the level the line belongs to, what the    *)
(* lines have set, and whether this line could be understood.              *)
LevelLine(line, st) ==
  IF Len(line) <= 2 /\ line[Len(line)] \notin LevelNames THEN st
  ELSE [st EXCEPT !.level = convertLevel(trim(SubSeq(line, 2, Len(line) - 1)))]

ConfigLine(line, st) ==
  LET at == find(line, "=", 1)
      config == IF isConfig(line) THEN convertConfig(trim(SubSeq(line, 1, at - 1))) ELSE Unknown
  IN  IF st.level = Unknown \/ config = Unknown THEN [st EXCEPT !.ok = FALSE]
      ELSE [st EXCEPT !.settings =
             Append(@, <<st.level, config, Value(trim(SubSeq(line, at + 1, Len(line))))>>)]

(* Slip: a level that is not known leaves the one before it in force. *)
parseLine_StaysAtLevel(line, before) ==
  LET st == [before EXCEPT !.ok = TRUE]
      text == trim(ignoreComments(trim(line)))
      next == LevelLine(text, st)
  IN  IF isComment(trim(line)) \/ text = <<>> THEN st
      ELSE IF isLevel(text) THEN IF next.level = Unknown THEN st ELSE next
      ELSE ConfigLine(text, st)

parseLine(line, before) ==
  LET st == [before EXCEPT !.ok = TRUE]
      text == trim(ignoreComments(trim(line)))
  IN  IF isComment(trim(line)) \/ text = <<>> THEN st
      ELSE IF isLevel(text) THEN LevelLine(text, st)
      ELSE ConfigLine(text, st)

parseFromText(lines) ==
  FoldLeft(LAMBDA st, line : parseLine(line, st),
           [level |-> Unknown, settings |-> <<>>, ok |-> FALSE], lines)

(* After the newline that ends a file one more line is read, an empty one. *)
parseFromFile(lines, newlineAtEnd) ==
  parseFromText(IF newlineAtEnd THEN Append(lines, <<>>) ELSE lines)

-----------------------------------------------------------------------------
(* Loggers::configureFromGlobal.  Loggers and Letters are what can be an   *)
(* id, the second those of one letter.                                     *)
NoLogger == "nullptr"
Letters == {"a", "b"}
Ids == {"net", "db"} \cup Letters

getLogger(id) == IF Len(id) = 1 /\ id[1] \in Ids THEN id[1] ELSE NoLogger

(* What the section before set is taken out. *)
Section(lines) == <<>>

Configured(st) ==
  IF st.lines = <<>> \/ st.logger = NoLogger THEN st.done
  ELSE Append(st.done, <<st.logger, parseFromText(st.lines).settings>>)

(* The id of one letter is passed over, and the logger stays. *)
GlobalLine(st, line) ==
  LET text == trim(ignoreComments(trim(line)))
      id == trim(Tail(text))
  IN  IF isComment(trim(line)) THEN st
      ELSE IF ~(startsWith(text, LoggerMark) /\ Len(text) > 1)
        THEN [st EXCEPT !.lines = Append(@, text)]
      ELSE [done |-> Configured(st), lines |-> Section(st.lines),
            logger |-> IF Len(id) = 1 /\ id[1] \in Letters THEN st.logger ELSE getLogger(id)]

configureFromGlobal(lines) ==
  Configured(FoldLeft(GlobalLine, [done |-> <<>>, lines |-> <<>>, logger |-> NoLogger],
                      Append(lines, <<>>)))

-----------------------------------------------------------------------------
(* CommandLineArgs.  An argument is [key, value], value <<>> where there   *)
(* is no "=".                                                              *)

(* f, and g where f says nothing. *)
Over(f, g) == [x \in DOMAIN f \cup DOMAIN g |-> IF x \in DOMAIN f THEN f[x] ELSE g[x]]

setArgs(args) ==
  FoldLeft(LAMBDA m, a :
             IF Len(a.value) = 0 THEN [m EXCEPT !.params = @ \cup {a.key}]
             ELSE [m EXCEPT !.values = Over(@, [k \in {a.key} |-> Tail(a.value)])],
           [params |-> {}, values |-> <<>>], args)

hasParam(m, key) == key \in m.params
hasParamWithValue(m, key) == key \in DOMAIN m.values
getParamValue(m, key) == IF hasParamWithValue(m, key) THEN m.values[key] ELSE <<>>

-----------------------------------------------------------------------------
(* VRegistry.  A name is a sequence of characters, a suffix counts as one. *)
kMaxVerboseLevel == 9

setLevel(level) == IF level > 9 THEN kMaxVerboseLevel ELSE level

FileExtensions == <<".h", ".c", ".cpp", ".cc", ".cxx", ".-inl.h", ".hxx", ".hpp", ".hh">>

Without(s, w) == IF Len(s) > 0 /\ s[Len(s)] = w THEN Front(s) ELSE s

addSuffix(s, i) ==
  Append(Without(IF i = 1 THEN s ELSE Without(s, FileExtensions[i - 1]), FileExtensions[i]), FileExtensions[i])

(* What a module stands for: it with each suffix in turn. *)
Extended(s) ==
  LET ss == FoldLeft(LAMBDA t, i : Append(t, addSuffix(t[Len(t)], i)), <<s>>,
                     [i \in DOMAIN FileExtensions |-> i])
  IN  {ss[i] : i \in 2 .. Len(ss)}

(* The first level that was given for a module stays. *)
insert(modules, s, level, extensions) ==
  Over(modules, [e \in IF extensions THEN Extended(s) ELSE {s} |-> level])

(* A name without a level is not taken out: the next goes on from it. *)
EndOfEntry(st, extensions) ==
  IF st.name = <<>> \/ st.level = -1 THEN st
  ELSE [st EXCEPT !.modules = insert(@, st.name, st.level, extensions),
                  !.name = <<>>, !.level = -1]

(* One digit makes a level, and the last one counts. *)
ModuleChar(st, c, extensions) ==
  CASE c = "=" -> [st EXCEPT !.isLevel = TRUE]
    [] c = "," -> [EndOfEntry(st, extensions) EXCEPT !.isLevel = FALSE]
    [] OTHER -> IF ~st.isLevel THEN [st EXCEPT !.name = Append(@, c)]
                ELSE IF c \in ToSet(Digits0to9) THEN [st EXCEPT !.level = DigitOf(c)]
                ELSE st

setModules(modules, text, extensions) ==
  EndOfEntry(FoldLeft(LAMBDA st, c : ModuleChar(st, c, extensions),
                      [modules |-> modules, name |-> <<>>, level |-> -1, isLevel |-> FALSE], text),
             extensions).modules

(* What is left of the text from i on and of the pattern from j on match. *)
wildCardMatch(s, p) ==
  LET Match[at \in (1 .. Len(s) + 1) \X (1 .. Len(p) + 1)] ==
        LET i == at[1]
            j == at[2]
        IN  IF j > Len(p) THEN i > Len(s)
            ELSE IF p[j] = "*" THEN Match[<<i, j + 1>>] \/ (i <= Len(s) /\ Match[<<i + 1, j>>])
            ELSE i <= Len(s) /\ p[j] \in {"?", s[i]} /\ Match[<<i + 1, j + 1>>]
  IN  Match[<<1, 1>>]

(* Where several modules match, the order of a hash table decides. *)
allowed(vlevel, path, level, modules, flags) ==
  LET matches == {m \in DOMAIN modules : wildCardMatch(buildBaseFilename(path), m)}
  IN  IF DOMAIN modules = {} THEN {vlevel <= level}
      ELSE IF matches # {} THEN {vlevel <= modules[m] : m \in matches}
      ELSE {"AllowVerboseIfModuleNotSpecified" \in flags}

(* Slip: the level of a command line does not keep modules from being set. *)
setFromArgs_Both(registry, m, flags) ==
  [level |-> IF hasParamWithValue(m, "--v") THEN setLevel(DigitOf(getParamValue(m, "--v")[1]))
                                            ELSE registry.level,
   modules |-> setModules(registry.modules, getParamValue(m, "-vmodule"), TRUE)]

(* Only the first wish of a command line is granted. *)
setFromArgs(registry, m, flags) ==
  LET Wish(key) == hasParamWithValue(m, key)
      Level(key) == [registry EXCEPT !.level = setLevel(DigitOf(getParamValue(m, key)[1]))]
      Modules(key) == [registry EXCEPT !.modules =
        setModules(@, getParamValue(m, key), "DisableVModulesExtensions" \notin flags)]
  IN  IF \E k \in {"-v", "--verbose", "-V", "--VERBOSE"} : hasParam(m, k)
        THEN [registry EXCEPT !.level = setLevel(kMaxVerboseLevel)]
      ELSE IF Wish("--v") THEN Level("--v")
      ELSE IF Wish("--V") THEN Level("--V")
      ELSE IF "DisableVModules" \in flags THEN registry
      ELSE IF Wish("-vmodule") THEN Modules("-vmodule")
      ELSE Modules("-VMODULE")
=============================================================================
