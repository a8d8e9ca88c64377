--------------------------- MODULE Configurations ---------------------------
(***************************************************************************)
(* The configurations of Easylogging++ and what loggers make of them       *)
(* (easylogging++.cc, Configurations, TypedConfigurations, Logger and      *)
(* Loggers).  A repository lists values by level in the order in which     *)
(* they were first set; one repository is copied into another by setting   *)
(* its entries one after the other, and a logger's typed configurations    *)
(* are built from its repository likewise, with Level::Global standing for *)
(* every level that has no value of its own.                               *)
(*                                                                         *)
(* One thread configures.  Its own repository is conf, next to that of     *)
(* the registry's defaults and that of one logger.  The entries of         *)
(* different types never meet, so every type has a list of its own.        *)
(***************************************************************************)
EXTENDS Integers, Sequences, FiniteSets, SequencesExt

CONSTANTS
  Global, Explicit,  \* Level::Global and the other levels
  OwnTypes,          \* types with a value for every level: Enabled, Format, ...
  SharedTypes,       \* SubsecondPrecision, PerformanceTracking
  Values,            \* of each type
  Factory,           \* setToDefault's values, by type and level
  Remaining,         \* setRemainingToDefault's, for the types and levels it names
  None, Null,        \* no value; a stream that could not be opened
  MaxCalls           \* bound: calls of the program

Level == {Global} \cup Explicit
Types == OwnTypes \cup SharedTypes \cup {"ToFile", "Filename"}
Files == Values["Filename"]

ASSUME ConfigurationsAssumption ==
  /\ Global \notin Explicit /\ IsFiniteSet(Explicit)
  /\ {"ToFile", "Filename"} \cap (OwnTypes \cup SharedTypes) = {}
  /\ OwnTypes \cap SharedTypes = {}
  /\ DOMAIN Values = Types /\ "false" \in Values["ToFile"]
  /\ \A t \in Types : None \notin Values[t]
  /\ Null \notin Files /\ Null # None
  /\ DOMAIN Factory = Types /\ DOMAIN Remaining = Types
  /\ \A t \in Types : Factory[t] \in [Level -> Values[t]]
  /\ \A t \in Types : \E S \in SUBSET Level : Remaining[t] \in [S -> Values[t]]
  /\ MaxCalls \in Nat

VARIABLES
  conf,        \* the program's Configurations
  defaults,    \* m_defaultConfigurations
  repo,        \* the logger's m_configurations
  registered,  \* whether there is a logger
  typed,       \* its TypedConfigurations: a map for each type, None where empty
  files,       \* its m_fileStreamMap: the file that a level's stream writes
  streams,     \* m_logStreamsReference: the file that a name's stream writes
  writable,    \* the files that can be opened
  pc,          \* "idle", or the loop that is running: "replay", "build", "files"
  at,          \* its position
  job,         \* what is or was replayed: [from, into, also]
  calls

vars == <<conf, defaults, repo, registered, typed, files, streams, writable, pc,
          at, job, calls>>

Goto(l) == pc' = l /\ at' = 1

NoJob == [from |-> "none", into |-> "none", also |-> FALSE]

-----------------------------------------------------------------------------
(* Lists.                                                                  *)
Entry(l, v) == [level |-> l, value |-> v]

LevelsOf(list) == {list[i].level : i \in DOMAIN list}

ValueOf(list, l) ==
  IF l \in LevelsOf(list)
    THEN list[CHOOSE i \in DOMAIN list : list[i].level = l].value ELSE None

(* New entries for the levels in S; their order among themselves is        *)
(* forEachLevel's in the code, and nothing depends on it.                  *)
Appended(list, S, val) ==
  list \o [i \in 1 .. Cardinality(S) |-> Entry(SetToSeq(S)[i], val[SetToSeq(S)[i]])]

unsafeSet(list, l, v) ==
  IF l \in LevelsOf(list)
    THEN [i \in DOMAIN list |-> IF list[i].level = l THEN Entry(l, v) ELSE list[i]]
    ELSE Append(list, Entry(l, v))

unsafeSetGlobally(list, v) ==
  LET present == [i \in DOMAIN list |->
                    IF list[i].level \in Explicit THEN Entry(list[i].level, v)
                                                  ELSE list[i]]
  IN  Appended(present, Explicit \ LevelsOf(list), [l \in Explicit |-> v])

set(list, l, v) ==
  IF l = Global THEN unsafeSetGlobally(unsafeSet(list, Global, v), v)
                ELSE unsafeSet(list, l, v)

setToDefault(list, t) ==
  LET all == set(list, Global, Factory[t][Global])
  IN  [i \in DOMAIN all |-> Entry(all[i].level, Factory[t][all[i].level])]

(* Slip: only the missing Global is set, and no level with it. *)
setRemainingToDefault_GlobalOnly(list, t) ==
  Appended(list, DOMAIN Remaining[t] \ LevelsOf(list), Remaining[t])

setRemainingToDefault(list, t) ==
  LET r   == Remaining[t]
      all == IF Global \in DOMAIN r \ LevelsOf(list) THEN set(list, Global, r[Global])
                                                    ELSE list
  IN  Appended(all, DOMAIN r \ LevelsOf(all), r)

-----------------------------------------------------------------------------
Unset == [t \in Types |-> [l \in Level |-> None]]
NoFiles == [l \in Level |-> None]
Empty == [t \in Types |-> <<>>]

Init ==
  /\ conf = Empty /\ repo = Empty
  /\ defaults = [t \in Types |-> setToDefault(<<>>, t)]
  /\ registered = FALSE /\ typed = Unset /\ files = NoFiles
  /\ streams = [f \in Files |-> None] /\ writable \in SUBSET Files
  /\ pc = "idle" /\ at = 1 /\ job = NoJob /\ calls = 0

Call == pc = "idle" /\ calls < MaxCalls /\ calls' = calls + 1

(* The program fills its own repository, by calls or by parsing a file.    *)
Edit(new) ==
  /\ Call /\ conf' = new /\ job' = NoJob
  /\ UNCHANGED <<defaults, repo, registered, typed, files, streams, writable, pc, at>>

Set ==
  \E t \in Types, l \in Level : \E v \in Values[t] :
    Edit([conf EXCEPT ![t] = set(conf[t], l, v)])

SetGlobally ==
  \E t \in Types : \E v \in Values[t] :
    Edit([conf EXCEPT ![t] = unsafeSetGlobally(conf[t], v)])

SetToDefault == Edit([t \in Types |-> setToDefault(conf[t], t)])

SetRemainingToDefault == Edit([t \in Types |-> setRemainingToDefault(conf[t], t)])

Clear == Edit(Empty)

-----------------------------------------------------------------------------
(* Copying: setFromBase locks the source and sets entry by entry.          *)
Start(from, into, also) ==
  /\ Call /\ Goto("replay")
  /\ job' = [from |-> from, into |-> into, also |-> also]

SetFromBase ==
  /\ Start("defaults", "conf", FALSE)
  /\ UNCHANGED <<conf, defaults, repo, registered, typed, files, streams, writable>>

SetDefaultConfigurations ==
  /\ \E also \in BOOLEAN : Start("conf", "defaults", also /\ registered)
  /\ UNCHANGED <<conf, defaults, repo, registered, typed, files, streams, writable>>

(* A new logger is configured with the defaults. *)
GetLogger ==
  /\ ~registered /\ registered' = TRUE
  /\ Start("defaults", "logger", FALSE)
  /\ UNCHANGED <<conf, defaults, repo, typed, files, streams, writable>>

ReconfigureLogger ==
  /\ registered
  /\ Start("conf", "logger", FALSE)
  /\ UNCHANGED <<conf, defaults, repo, registered, typed, files, streams, writable>>

(* The streams stay in m_logStreamsReference. *)
UnregisterLogger ==
  /\ Call /\ registered /\ registered' = FALSE
  /\ repo' = Empty /\ typed' = Unset /\ files' = NoFiles /\ job' = NoJob
  /\ UNCHANGED <<conf, defaults, streams, writable, pc, at>>

(* Slip: what is copied is always the program's. *)
source_Conf == conf

source == IF job.from = "conf" THEN conf ELSE defaults

(* Slip: the loop ends one entry early. *)
Has_Short(list) == at < Len(list)

Has(list) == at <= Len(list)

Replayed(list, t) ==
  IF Has(source[t]) THEN set(list, source[t][at].level, source[t][at].value) ELSE list

Replay ==
  /\ pc = "replay" /\ \E t \in Types : Has(source[t])
  /\ at' = at + 1
  /\ CASE job.into = "conf" -> /\ conf' = [t \in Types |-> Replayed(conf[t], t)]
                               /\ UNCHANGED <<defaults, repo>>
       [] job.into = "defaults" ->
                               /\ defaults' = [t \in Types |-> Replayed(defaults[t], t)]
                               /\ UNCHANGED <<conf, repo>>
       [] job.into = "logger" -> /\ repo' = [t \in Types |-> Replayed(repo[t], t)]
                                 /\ UNCHANGED <<conf, defaults>>
  /\ UNCHANGED <<registered, typed, files, streams, writable, pc, job, calls>>

(* Slip: the typed configurations are built on top of the former ones. *)
Discarded_Not == typed

Discarded == Unset

EndReplay ==
  /\ pc = "replay" /\ ~\E t \in Types : Has(source[t])
  /\ IF job.into = "logger"
       THEN /\ Goto("build") /\ typed' = Discarded /\ files' = NoFiles
            /\ UNCHANGED job
       ELSE /\ Goto(IF job.also THEN "replay" ELSE "idle")
            /\ job' = IF job.also THEN [job EXCEPT !.into = "logger", !.also = FALSE]
                                  ELSE NoJob
            /\ UNCHANGED <<typed, files>>
  /\ UNCHANGED <<conf, defaults, repo, registered, streams, writable, calls>>

(* reconfigureLogger(id, type, value) for Global, reconfigureAllLoggers    *)
(* for any level: the logger's own repository is changed and built anew.   *)
Reconfigure ==
  /\ Call /\ registered
  /\ \E t \in Types, l \in Level : \E v \in Values[t] :
       repo' = [repo EXCEPT ![t] = set(repo[t], l, v)]
  /\ Goto("build") /\ typed' = Discarded /\ files' = NoFiles /\ job' = NoJob
  /\ UNCHANGED <<conf, defaults, registered, streams, writable>>

-----------------------------------------------------------------------------
(* Building the typed configurations.                                      *)
setValue(map, l, v) ==
  IF map = [k \in Level |-> None] THEN [map EXCEPT ![Global] = v]
  ELSE IF map[Global] = v THEN map
  ELSE [map EXCEPT ![l] = v]

TypedLevel(t, l) == IF t \in SharedTypes THEN Global ELSE l

Build ==
  /\ pc = "build" /\ \E t \in Types : Has(repo[t])
  /\ at' = at + 1
  /\ typed' = [t \in Types |->
       IF t # "Filename" /\ Has(repo[t])
         THEN setValue(typed[t], TypedLevel(t, repo[t][at].level), repo[t][at].value)
         ELSE typed[t]]
  /\ UNCHANGED <<conf, defaults, repo, registered, files, streams, writable, pc, job, calls>>

EndBuild ==
  /\ pc = "build" /\ ~\E t \in Types : Has(repo[t])
  /\ Goto("files")
  /\ UNCHANGED <<conf, defaults, repo, registered, typed, files, streams, writable, job, calls>>

(* insert() keeps what a map has. *)
Inserted(map, l, v) == IF map[l] = None THEN [map EXCEPT ![l] = v] ELSE map

(* Slip: a stream that is shared and could not be opened goes unnoticed. *)
ForcedOff_NewOnly(fs, f) == streams[f] = None /\ fs = Null

ForcedOff(fs, f) == fs = Null

insertFile ==
  /\ pc = "files" /\ Has(repo["Filename"])
  /\ at' = at + 1
  /\ LET f      == repo["Filename"][at].value
         l      == IF typed["Filename"] = NoFiles THEN Global ELSE repo["Filename"][at].level
         opened == IF f \in writable THEN f ELSE Null
         fs     == IF streams[f] = None THEN opened ELSE streams[f]
     IN  /\ files' = Inserted(files, l, fs)
         /\ streams' = IF streams[f] = None THEN [streams EXCEPT ![f] = files'[l]]
                                            ELSE streams
         /\ typed' = [typed EXCEPT
              !["Filename"] = Inserted(@, l, f),
              !["ToFile"] = IF ForcedOff(fs, f) THEN setValue(@, l, "false") ELSE @]
  /\ UNCHANGED <<conf, defaults, repo, registered, writable, pc, job, calls>>

EndFiles ==
  /\ pc = "files" /\ ~Has(repo["Filename"])
  /\ Goto("idle")
  /\ UNCHANGED <<conf, defaults, repo, registered, typed, files, streams, writable, job, calls>>

(* Permissions and disks change. *)
Disk ==
  /\ pc = "idle"
  /\ \E f \in Files : writable' = IF f \in writable THEN writable \ {f} ELSE writable \cup {f}
  /\ UNCHANGED <<conf, defaults, repo, registered, typed, files, streams, pc, at, job, calls>>

Next == \/ Set \/ SetGlobally \/ SetToDefault \/ SetRemainingToDefault \/ Clear
        \/ SetFromBase \/ SetDefaultConfigurations \/ GetLogger \/ ReconfigureLogger
        \/ UnregisterLogger \/ Reconfigure
        \/ Replay \/ EndReplay \/ Build \/ EndBuild \/ insertFile \/ EndFiles \/ Disk

Spec == Init /\ [][Next]_vars

-----------------------------------------------------------------------------
(* Looking up a value (getConfigByVal, getConfigByRef). *)
Lookup(map, l) == IF map[l] = None THEN map[Global] ELSE map[l]

(* A level is listed once. *)
IsList(list, t) ==
  /\ list \in Seq([level : Level, value : Values[t]])
  /\ \A i, j \in DOMAIN list : list[i].level = list[j].level => i = j

IsRepository(r) == DOMAIN r = Types /\ \A t \in Types : IsList(r[t], t)

(* Types, and that repositories list a level once in each type.            *)
TypeOK ==
  /\ IsRepository(conf) /\ IsRepository(defaults) /\ IsRepository(repo)
  /\ registered \in BOOLEAN
  /\ DOMAIN typed = Types
  /\ \A t \in Types : typed[t] \in [Level -> Values[t] \cup {None}]
  /\ files \in [Level -> Files \cup {None, Null}]
  /\ streams \in [Files -> Files \cup {None, Null}]
  /\ writable \in SUBSET Files
  /\ pc \in {"idle", "replay", "build", "files"}
  /\ at \in Nat \ {0} /\ calls \in Nat
  /\ job \in [from : {"none", "conf", "defaults"},
              into : {"none", "conf", "defaults", "logger"}, also : BOOLEAN]

Leads(list) == list[1].level = Global

(* A logger's repository and the defaults begin with Level::Global in      *)
(* every type, whatever is copied into them and in whatever order:         *)
(* setValue and insertFile, which put the first entry in Global's place    *)
(* (the latter would even enter another file's stream for Global's name),  *)
(* depend on it.  Where Global has a value every level has one (set): no   *)
(* repository leaves a level behind.                                       *)
GlobalLeads ==
  \A t \in Types :
    /\ defaults[t] # <<>> /\ Leads(defaults[t])
    /\ repo[t] # <<>> => Leads(repo[t])
    /\ \A r \in {conf, defaults, repo} : Global \in LevelsOf(r[t]) => LevelsOf(r[t]) = Level

(* A configured logger answers for every level what its repository says,   *)
(* though values equal to Global's are dropped from the typed maps.        *)
LookupAgrees ==
  pc = "idle" /\ registered =>
    \A t \in OwnTypes \cup {"Filename"}, l \in Level :
      Lookup(typed[t], l) = ValueOf(repo[t], l)

(* A logger configured with the program's repository answers what that     *)
(* says, for the types in which it has Global first or not at all; else    *)
(* replaying Global late undoes the entries before it.                     *)
CopyFaithful ==
  pc = "idle" /\ job.into = "logger" /\ job.from = "conf" =>
    \A t \in OwnTypes \cup {"Filename"} : \A i \in DOMAIN conf[t] :
      Leads(conf[t]) \/ Global \notin LevelsOf(conf[t]) =>
        Lookup(typed[t], conf[t][i].level) = conf[t][i].value

(* Where Global's file is open and Global writes to it, a level writes to  *)
(* a file exactly if it is told to and its file is open (build(), the      *)
(* second loop).                                                           *)
WritesWhereItCan ==
  pc = "idle" /\ registered /\ files[Global] # Null
    /\ ValueOf(repo["ToFile"], Global) # "false" =>
    \A l \in Level :
      Lookup(typed["ToFile"], l) =
        IF Lookup(files, l) = Null THEN "false" ELSE ValueOf(repo["ToFile"], l)

=============================================================================
