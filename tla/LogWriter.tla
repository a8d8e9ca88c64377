------------------------------ MODULE LogWriter ------------------------------
(***************************************************************************)
(* How Easylogging++ writes a log statement (easylogging++.h, Writer and   *)
(* Logger::log; easylogging++.cc, Writer, LogDispatcher,                   *)
(* DefaultLogDispatchCallback, Logger::flush and PerformanceTracker).      *)
(*                                                                         *)
(* A thread has a stack of statements: one may be logged while another's   *)
(* message is evaluated or while a performance checkpoint is reported.     *)
(* All locks are recursive.  A statement streams its text, which is its    *)
(* name, in two pieces around what its message evaluates.                  *)
(*                                                                         *)
(* The locks of the registry, of the hit counters and of a callback's file *)
(* are left out: they are held for one step, or under Storage's lock only. *)
(***************************************************************************)
EXTENDS Integers, Sequences, FiniteSets, SequencesExt, FiniteSetsExt

CONSTANTS
  Threads,
  Loggers,       \* the ids of valid loggers
  Default,       \* kDefaultLoggerId
  Disabled,      \* loggers that are not enabled for any level
  Files,
  FileOf,        \* the file of each logger
  Trackers,      \* performance trackers
  TrackerOf,     \* the tracker that reports to a logger
  Programs,      \* LoggingFlags, what a thread may execute and bound: how much of it:
                 \* [flags, statements, most]
  NoStmt,
  Occasions,     \* locations of occasional statements: [how, n]
  kMaxLogPerCounter,
  Threshold,     \* logFlushThreshold
  MaxSize        \* maxLogFileSize, in lines; 0 for no limit

Level == {"info", "fatal"}
Locks == Loggers \cup Trackers \cup {"storage"}
Free == "free"

(* What a program may state: "log" is Logger::log, the rest but "write"    *)
(* calls of other members.  A message evaluates at most one statement.     *)
Operations == {"write", "log", "flush", "flushAll", "configure", "remove",
               "checkpoint", "complete"}
StatementsWith(ops, inner) ==
  [op : ops, loggers : Seq(Loggers) \ {<<>>}, level : Level,
   when : {"always", "if"} \cup DOMAIN Occasions, on : BOOLEAN, inner : inner,
   ends : {"well", "early", "throws"}]
Plain == StatementsWith(Operations, {NoStmt})
Statements == StatementsWith(Operations, {NoStmt} \cup Plain)

ASSUME LogWriterAssumption ==
  /\ Default \in Loggers \ Disabled /\ Disabled \subseteq Loggers
  /\ Loggers \cap Trackers = {} /\ "storage" \notin Loggers \cup Trackers
  /\ Free \notin Threads
  /\ FileOf \in [Loggers -> Files] /\ TrackerOf \in [Loggers -> Trackers]
  /\ kMaxLogPerCounter \in Nat \ {0}
  /\ \A p \in Programs : p.most \in Nat /\ p.statements \subseteq Statements
  /\ Threshold \in Nat /\ MaxSize \in Nat
  /\ \A o \in DOMAIN Occasions :
       Occasions[o].how \in {"every", "after", "times"} /\ Occasions[o].n \in Nat

VARIABLES
  stack,       \* of each thread: the statements it is executing
  started,     \* of each thread: how many it has started
  lock,        \* of each lock: [owner, depth]
  stream,      \* of each logger: the text in its stream
  file,        \* of each file: [text, kept, open, fail, past]
  unflushed,   \* of each logger and level
  hits,        \* of each location: [count, total, passed], the last two history
  registered,  \* loggers
  tracker,     \* of each tracker: [enabled, last], last its last checkpoint
  m_data,      \* what the performance callback was last given
  reports,     \* every performance report: [at, on, from, of]
  mixed,       \* history: reports that met another tracker's in the callback
  lost,        \* history: lines that a file's stream refused
  spoiled,     \* history: loggers a statement ended without a Writer on
  removed,     \* history: loggers that were removed
  program,
  aborted

performance == <<tracker, m_data, reports, mixed>>
vars == <<stack, started, lock, stream, file, unflushed, hits, registered, performance,
          lost, spoiled, removed, program, aborted>>

Has(flag) == flag \in program.flags

-----------------------------------------------------------------------------
(* Statements and their frames.                                            *)
Frame(id, stmt) ==
  [id |-> id, stmt |-> stmt, at |-> 1, pc |-> "gate", proceed |-> FALSE,
   first |-> FALSE, msg |-> <<>>, evaluated |-> stmt.inner = NoStmt, calls |-> 0]

(* The name of a statement: its thread's n-th, or the n-th within another. *)
Within(fr) == [fr.id EXCEPT !.path = Append(@, fr.calls + 1)]

(* A statement of the library's own, at level Debug or Warning. *)
Internal(l) ==
  [op |-> "write", loggers |-> <<l>>, level |-> "info", when |-> "always",
   on |-> TRUE, inner |-> NoStmt, ends |-> "well"]

(* CCHECK: a fatal statement where the condition does not hold. *)
Check(l) == [Internal(l) EXCEPT !.level = "fatal", !.when = "if"]

Running(t) == stack[t] # <<>> /\ ~aborted
Crashing(t) == \E i \in DOMAIN stack[t] : stack[t][i].stmt.op = "crash"
Top(t) == Last(stack[t])
Logger(t) == Top(t).stmt.loggers[Top(t).at]
At(t, op, pc) == Running(t) /\ Top(t).stmt.op \in op /\ Top(t).pc = pc

Become(t, fr) == stack' = [stack EXCEPT ![t] = Append(Front(@), fr)]
Go(t, pc) == Become(t, [Top(t) EXCEPT !.pc = pc])
Pop(t) == stack' = [stack EXCEPT ![t] = Front(@)]
Execute(t, fr, stmt) ==
  stack' = [stack EXCEPT ![t] = Front(@) \o
              <<[fr EXCEPT !.calls = @ + 1], Frame(Within(fr), stmt)>>]
Call(t, pc, stmt) == Execute(t, [Top(t) EXCEPT !.pc = pc], stmt)

(* Slip: nobody waits. *)
CanTake_Always(t, k) == k \in Locks

CanTake(t, k) == lock[k].owner \in {t, Free}
Taken(t, k) == [lock EXCEPT ![k] = [owner |-> t, depth |-> @.depth + 1]]

(* Slip: one release frees what was taken twice. *)
Released_Whole(t, k) == [lock EXCEPT ![k] = [owner |-> Free, depth |-> 0]]

(* Slip: the owner stays. *)
Released_Owned(t, k) == [lock EXCEPT ![k].depth = @ - 1]

Released(t, k) ==
  [lock EXCEPT ![k] = IF @.depth = 1 THEN [owner |-> Free, depth |-> 0]
                                     ELSE [owner |-> @.owner, depth |-> @.depth - 1]]

(* Slip: a statement keeps its loggers until the last one is written. *)
LoggerReleased_Last(t) ==
  IF Top(t).at < Len(Top(t).stmt.loggers) THEN lock ELSE Released(t, Logger(t))

LoggerReleased(t) == Released(t, Logger(t))

(* Logger::initUnflushedCount *)
initUnflushedCount == [v \in Level |-> 0]

(* A call on a Logger that the program has got a pointer to. *)
ByPointer(s) == s.op \in {"log", "flush", "configure"}

(* Nobody uses a tracker whose scope ends. *)
EndsFor(s, r) ==
  /\ {s.op, r.op} \subseteq {"checkpoint", "complete"} /\ "complete" \in {s.op, r.op}
  /\ TrackerOf[s.loggers[1]] = TrackerOf[r.loggers[1]]

Begin(t) ==
  /\ stack[t] = <<>> /\ ~aborted /\ started[t] < program.most
  /\ started' = [started EXCEPT ![t] = @ + 1]
  /\ \E s \in program.statements :
       /\ ByPointer(s) => s.loggers[1] \in registered
       /\ \A u \in Threads : stack[u] # <<>> => ~EndsFor(s, stack[u][1].stmt)
       /\ stack' = [stack EXCEPT ![t] = <<Frame([by |-> t, no |-> started'[t], path |-> <<>>], s)>>]
  /\ UNCHANGED <<lock, stream, file, unflushed, hits, registered, performance,
                 lost, spoiled, removed, program, aborted>>

-----------------------------------------------------------------------------
(* Occasional logging: the location's counter.                             *)
(* Slip: starting over at zero loses the position within the period. *)
validateHitCounts_ToZero(c, n) == (IF c >= kMaxLogPerCounter THEN 0 ELSE c) + 1

validateHitCounts(c, n) ==
  (IF c < kMaxLogPerCounter THEN c ELSE IF n >= 1 THEN kMaxLogPerCounter % n ELSE 0) + 1

(* The counter of a location, and whether the statement is let through. *)
validateEveryN(h, n) ==
  LET c == validateHitCounts(h.count, n)
  IN  [count |-> c, passes |-> n >= 1 /\ c % n = 0]

validateAfterN(h, n) ==
  [count |-> IF h.count >= n THEN h.count ELSE h.count + 1, passes |-> h.count >= n]

validateNTimes(h, n) == [count |-> h.count + 1, passes |-> h.count + 1 <= n]

(* Through the statement's macro, or past it. *)
Gate(t, through) ==
  /\ At(t, {"write"}, "gate") /\ IF through THEN Go(t, "init") ELSE Pop(t)
  /\ UNCHANGED <<started, lock, stream, file, unflushed, registered, performance, lost,
                 spoiled, removed, program, aborted>>

(* CINFO and the like; CVERBOSE where its level is not on. *)
Normal(t) ==
  /\ Running(t) /\ (Top(t).stmt.when = "always" \/ ~Top(t).stmt.on)
  /\ Gate(t, Top(t).stmt.on) /\ UNCHANGED hits

(* CINFO_IF: the condition is the application's. *)
Conditional(t) ==
  /\ Running(t) /\ Top(t).stmt.when = "if" /\ Top(t).stmt.on
  /\ \E condition \in BOOLEAN : Gate(t, condition) /\ UNCHANGED hits

Hits(t) == hits[Top(t).stmt.when]
Number(t) == Occasions[Top(t).stmt.when].n

(* Only a verbose statement whose level is on counts as a hit. *)
Occasional(t, how, v) ==
  /\ Running(t) /\ Top(t).stmt.when \in DOMAIN Occasions /\ Top(t).stmt.on
  /\ Occasions[Top(t).stmt.when].how = how /\ Gate(t, v.passes)
  /\ hits' = [hits EXCEPT ![Top(t).stmt.when] =
       [count |-> v.count, total |-> @.total + 1,
        passed |-> @.passed + (IF v.passes THEN 1 ELSE 0)]]

EveryN(t) == Occasional(t, "every", validateEveryN(Hits(t), Number(t)))
AfterN(t) == Occasional(t, "after", validateAfterN(Hits(t), Number(t)))
NTimes(t) == Occasional(t, "times", validateNTimes(Hits(t), Number(t)))

-----------------------------------------------------------------------------
(* Writer::construct, and Writer::initializeLogger: look the logger up,     *)
(* create it, lock it.                                                     *)
LoggerIds(s) == IF Has("MultiLoggerSupport") THEN s.loggers ELSE <<s.loggers[1]>>

Enabled(l) == l \notin Disabled

InitializeLogger(t) ==
  /\ At(t, {"write"}, "init")
  /\ Logger(t) \in registered \/ Has("CreateLoggerAutomatically")
  /\ registered' = registered \cup {Logger(t)}
  /\ CanTake(t, Logger(t)) /\ lock' = Taken(t, Logger(t))
  /\ Become(t, [Top(t) EXCEPT !.proceed = Enabled(Logger(t)),
                  !.pc = IF Top(t).at = 1 THEN "head" ELSE "dispatch"])
  /\ UNCHANGED <<started, stream, file, unflushed, hits, performance, lost, spoiled, removed, program, aborted>>

(* No such logger: a statement of its own says so to the default logger.   *)
LoggerMissing(t) ==
  /\ At(t, {"write"}, "init")
  /\ Logger(t) \notin registered /\ ~Has("CreateLoggerAutomatically")
  /\ Call(t, "missed", Internal(Default))
  /\ UNCHANGED <<started, lock, stream, file, unflushed, hits, registered, performance,
                 lost, spoiled, removed, program, aborted>>

(* The message's expression logs, too: in C++14 before the Writer is       *)
(* made, or between the pieces of its text.                                *)
Evaluate(t) ==
  /\ Running(t) /\ ~Top(t).evaluated /\ Top(t).at = 1
  /\ Top(t).pc \in {"init", "tail", "missed"}
  /\ Execute(t, [Top(t) EXCEPT !.evaluated = TRUE], Top(t).stmt.inner)
  /\ UNCHANGED <<started, lock, stream, file, unflushed, hits, registered, performance,
                 lost, spoiled, removed, program, aborted>>

(* Writer::operator<<, twice. *)
Stream(t, pc, next) ==
  /\ At(t, {"write"}, pc)
  /\ stream' = IF Top(t).proceed THEN [stream EXCEPT ![Logger(t)] = Append(@, Top(t).id)]
                                 ELSE stream
  /\ Go(t, next)
  /\ UNCHANGED <<started, lock, file, unflushed, hits, registered, performance, lost,
                 spoiled, removed, program, aborted>>

StreamHead(t) == Stream(t, "head", "tail")
StreamTail(t) == Running(t) /\ Top(t).evaluated /\ Stream(t, "tail", "dispatch")

(* Logger::log: the logger's lock is taken and the arguments are streamed  *)
(* before there is a Writer, enabled or not.  With more arguments than     *)
(* specifiers log_ returns there.                                          *)
LogArguments(t) ==
  /\ At(t, {"log"}, "gate") /\ CanTake(t, Logger(t)) /\ lock' = Taken(t, Logger(t))
  /\ stream' = [stream EXCEPT ![Logger(t)] = Append(@, Top(t).id)]
  /\ IF Top(t).stmt.ends = "early"
       THEN Pop(t) /\ spoiled' = spoiled \cup {Logger(t)}
       ELSE /\ Become(t, [Top(t) EXCEPT !.proceed = Enabled(Logger(t)),
                            !.stmt.op = "write", !.pc = "tail"])
            /\ UNCHANGED spoiled
  /\ UNCHANGED <<started, file, unflushed, hits, registered, performance, lost, removed, program, aborted>>

-----------------------------------------------------------------------------
(* Writer::processDispatch.  The text of the first logger that proceeds is *)
(* written to the others.                                                  *)
AfterLogger(t) ==
  LET fr == Top(t) IN
  IF fr.at < Len(LoggerIds(fr.stmt))
    THEN Become(t, [fr EXCEPT !.at = @ + 1, !.pc = "init", !.proceed = FALSE])
    ELSE Pop(t)

(* The logger is disabled. *)
Skip(t) ==
  /\ At(t, {"write"}, "dispatch") /\ ~Top(t).proceed
  /\ stream' = [stream EXCEPT ![Logger(t)] = <<>>]
  /\ lock' = LoggerReleased(t) /\ AfterLogger(t)
  /\ UNCHANGED <<started, file, unflushed, hits, registered, performance, lost,
                 spoiled, removed, program, aborted>>

Missed(t) ==
  /\ At(t, {"write"}, "missed") /\ Top(t).evaluated /\ AfterLogger(t)
  /\ UNCHANGED <<started, lock, stream, file, unflushed, hits, registered, performance,
                 lost, spoiled, removed, program, aborted>>

-----------------------------------------------------------------------------
(* Files.  A closed or failing stream reports a size beyond any limit.     *)
Writes(f) == file[f].open /\ ~file[f].fail

TooLarge(f) == MaxSize # 0 /\ (Writes(f) => Len(file[f].text) >= MaxSize)

Flushed(fl) == IF fl.open /\ ~fl.fail THEN [fl EXCEPT !.kept = Len(fl.text)] ELSE fl

Closed(fl) == IF fl.open THEN [fl EXCEPT !.open = FALSE, !.kept = Len(fl.text)]
                         ELSE [fl EXCEPT !.fail = TRUE]

(* Slip: the callback is not called, nobody keeps the text. *)
Reopened_Forgets(fl) ==
  IF fl.open THEN [fl EXCEPT !.fail = TRUE]
             ELSE [fl EXCEPT !.text = <<>>, !.kept = 0, !.open = TRUE, !.fail = FALSE]

(* Opening truncates, what the callback was given to keep is past; opening *)
(* an open stream fails.                                                   *)
Reopened(fl) ==
  IF fl.open THEN [fl EXCEPT !.fail = TRUE]
             ELSE [text |-> <<>>, kept |-> 0, open |-> TRUE, fail |-> FALSE,
                   past |-> fl.past \o fl.text]

(* LogDispatcher::dispatch and the strict check of the size.               *)
Dispatch(t) ==
  /\ At(t, {"write"}, "dispatch") /\ Top(t).proceed
  /\ CanTake(t, "storage") /\ lock' = Taken(t, "storage")
  /\ LET fr == Top(t)  l == Logger(t)  f == FileOf[l]
         roll == Has("StrictLogFileSizeCheck") /\ TooLarge(f)
     IN  /\ Become(t, [fr EXCEPT !.first = TRUE, !.msg = IF fr.first THEN @ ELSE stream[l],
                         !.pc = IF roll THEN "rollfirst" ELSE "callback"])
         /\ stream' = IF fr.first THEN [stream EXCEPT ![l] = @ \o fr.msg] ELSE stream
         /\ file' = IF roll THEN [file EXCEPT ![f] = Closed(@)] ELSE file
  /\ UNCHANGED <<started, unflushed, hits, registered, performance, lost, spoiled, removed, program, aborted>>

Reopen(t, op, pc, next) ==
  /\ At(t, op, pc) /\ Go(t, next)
  /\ file' = [file EXCEPT ![FileOf[Logger(t)]] = Reopened(@)]
  /\ UNCHANGED <<started, lock, stream, unflushed, hits, registered, performance,
                 lost, spoiled, removed, program, aborted>>

RollFirst(t) == Reopen(t, {"write"}, "rollfirst", "callback")

(* DefaultLogDispatchCallback: the line, and the file flushed and checked  *)
(* when Logger::isFlushNeeded.                                             *)
Line(t) == [by |-> Top(t).id, stmt |-> Top(t).stmt, at |-> Top(t).at, top |-> stack[t][1].stmt,
            crashed |-> Crashing(t), to |-> Logger(t), text |-> stream[Logger(t)]]

(* Slip: the count is compared before it is incremented. *)
FlushNeeded_Late(l, lv) == Has("ImmediateFlush") \/ unflushed[l][lv] >= Threshold

FlushNeeded(l, lv) == Has("ImmediateFlush") \/ unflushed[l][lv] + 1 >= Threshold

Callback(t) ==
  /\ At(t, {"write"}, "callback")
  /\ LET l == Logger(t)  f == FileOf[l]  lv == Top(t).stmt.level
         written == [file[f] EXCEPT !.text = Append(@, Line(t))]
         large == MaxSize # 0 /\ Len(written.text) >= MaxSize
     IN  IF ~Writes(f)
           THEN /\ lost' = lost \cup {Line(t)} /\ Go(t, "written")
                /\ UNCHANGED <<file, unflushed>>
         ELSE IF FlushNeeded(l, lv)
           THEN /\ unflushed' = [unflushed EXCEPT ![l][lv] = 0]
                /\ file' = [file EXCEPT ![f] = IF large THEN Closed(Flushed(written))
                                                        ELSE Flushed(written)]
                /\ Go(t, IF large THEN "roll" ELSE "written") /\ UNCHANGED lost
           ELSE /\ unflushed' = [unflushed EXCEPT ![l][lv] = @ + 1]
                /\ file' = [file EXCEPT ![f] = written]
                /\ Go(t, "written") /\ UNCHANGED lost
  /\ UNCHANGED <<started, lock, stream, hits, registered, performance, spoiled, removed, program, aborted>>

Roll(t) == Reopen(t, {"write"}, "roll", "written")

(* Another callback throws, before this one or after it: Storage's lock is *)
(* scoped, what follows the dispatch is skipped.                           *)
CallbackThrows(t) ==
  /\ Running(t) /\ Top(t).pc \in {"callback", "written"} /\ Top(t).stmt.ends = "throws"
  /\ lock' = Released(t, "storage") /\ AfterLogger(t)
  /\ spoiled' = spoiled \cup {Logger(t)}
  /\ UNCHANGED <<started, stream, file, unflushed, hits, registered, performance,
                 lost, removed, program, aborted>>

Undispatch(t) ==
  /\ At(t, {"write"}, "written") /\ Top(t).stmt.ends # "throws"
  /\ Go(t, "release") /\ lock' = Released(t, "storage")
  /\ UNCHANGED <<started, stream, file, unflushed, hits, registered, performance,
                 lost, spoiled, removed, program, aborted>>

(* The rest of Writer::triggerDispatch. *)
Release(t) ==
  /\ At(t, {"write"}, "release")
  /\ stream' = [stream EXCEPT ![Logger(t)] = <<>>] /\ lock' = LoggerReleased(t)
  /\ IF Top(t).stmt.level = "fatal" /\ ~Has("DisableApplicationAbortOnFatalLog")
       THEN Call(t, "abort", Internal(Default))
       ELSE AfterLogger(t)
  /\ UNCHANGED <<started, file, unflushed, hits, registered, performance, lost,
                 spoiled, removed, program, aborted>>

Abort(t) ==
  /\ At(t, {"write", "crash"}, "abort") /\ aborted' = TRUE
  /\ UNCHANGED <<stack, started, lock, stream, file, unflushed, hits, registered,
                 performance, lost, spoiled, removed, program>>

-----------------------------------------------------------------------------
(* Logger::flush: under the logger's own lock only.                        *)
Flushing == {<<"flush", "gate">>, <<"configure", "reset">>}

FlushLogger(t) ==
  /\ Running(t) /\ <<Top(t).stmt.op, Top(t).pc>> \in Flushing
  /\ CanTake(t, Logger(t)) /\ lock' = Taken(t, Logger(t))
  /\ LET f == FileOf[Logger(t)]  fl == Flushed(file[f]) IN
       /\ file' = [file EXCEPT ![f] = IF TooLarge(f) THEN Closed(fl) ELSE fl]
       /\ Go(t, IF TooLarge(f) THEN "roll" ELSE "flushed")
  /\ unflushed' = [unflushed EXCEPT ![Logger(t)] = initUnflushedCount]
  /\ UNCHANGED <<started, stream, hits, registered, performance, lost, spoiled, removed, program, aborted>>

FlushRoll(t) == Reopen(t, {"flush", "configure"}, "roll", "flushed")

FlushEnds(t) ==
  /\ At(t, {"flush", "configure"}, "flushed") /\ lock' = Released(t, Logger(t))
  /\ IF Top(t).stmt.op = "flush" THEN Pop(t) ELSE Go(t, "apply")
  /\ UNCHANGED <<started, stream, file, unflushed, hits, registered, performance,
                 lost, spoiled, removed, program, aborted>>

(* Logger::configure: the counts go before the flush and without a lock;   *)
(* what the configurations become is the subject of Configurations.        *)
Configure(t) ==
  /\ At(t, {"configure"}, "gate") /\ Go(t, "reset")
  /\ unflushed' = [unflushed EXCEPT ![Logger(t)] = initUnflushedCount]
  /\ UNCHANGED <<started, lock, stream, file, hits, registered, performance, lost,
                 spoiled, removed, program, aborted>>

Apply(t) ==
  /\ At(t, {"configure"}, "apply") /\ CanTake(t, Logger(t)) /\ Pop(t)
  /\ UNCHANGED <<started, lock, stream, file, unflushed, hits, registered, performance,
                 lost, spoiled, removed, program, aborted>>

(* RegisteredLoggers::flushAll resets no count and checks no size.         *)
FlushAll(t) ==
  /\ At(t, {"flushAll"}, "gate") /\ Pop(t)
  /\ file' = [f \in Files |-> Flushed(file[f])]
  /\ UNCHANGED <<started, lock, stream, unflushed, hits, registered, performance, lost,
                 spoiled, removed, program, aborted>>

(* RegisteredLoggers::remove deletes the Logger, which nobody may be using. *)
RemoveLogger(t) ==
  /\ At(t, {"remove"}, "gate") /\ Pop(t)
  /\ Logger(t) # Default /\ lock[Logger(t)].owner = Free
  /\ \A u \in Threads : Running(u) /\ ByPointer(Top(u).stmt) => Logger(u) # Logger(t)
  /\ registered' = registered \ {Logger(t)} /\ removed' = removed \cup {Logger(t)}
  /\ unflushed' = [unflushed EXCEPT ![Logger(t)] = initUnflushedCount]
  /\ UNCHANGED <<started, lock, stream, file, hits, performance, lost, spoiled, program, aborted>>

-----------------------------------------------------------------------------
(* PerformanceTracker: a checkpoint, or the end of its scope.  One         *)
(* callback reports for all trackers, in two steps: it takes the data,     *)
(* which nothing locks, and logs them.                                     *)
Tracker(t) == TrackerOf[Logger(t)]
Tracking(t, pc) == At(t, {"checkpoint", "complete"}, pc)

(* The tracker was made where its logger was not registered. *)
Untracked(t) ==
  /\ Tracking(t, "gate") /\ ~tracker[Tracker(t)].enabled /\ Pop(t)
  /\ UNCHANGED <<started, lock, stream, file, unflushed, hits, registered, performance,
                 lost, spoiled, removed, program, aborted>>

Checkpoint(t) ==
  /\ Tracking(t, "gate") /\ tracker[Tracker(t)].enabled
  /\ CanTake(t, Tracker(t)) /\ lock' = Taken(t, Tracker(t))
  /\ m_data' = Top(t).id /\ Go(t, "handle")
  /\ LET others == {Top(u).id : u \in {u \in Threads \ {t} : Tracking(u, "handle")}}
     IN  mixed' = IF others = {} THEN mixed ELSE mixed \cup others \cup {Top(t).id}
  /\ UNCHANGED <<started, stream, file, unflushed, hits, registered, tracker, reports,
                 lost, spoiled, removed, program, aborted>>

Report(t) ==
  /\ Tracking(t, "handle")
  /\ reports' = Append(reports, [at |-> Top(t).id, on |-> Tracker(t), of |-> m_data,
       from |-> IF Top(t).stmt.op = "complete" THEN <<>> ELSE tracker[Tracker(t)].last])
  /\ Call(t, "checked", Internal(Logger(t)))
  /\ UNCHANGED <<started, lock, stream, file, unflushed, hits, registered, tracker, m_data,
                 mixed, lost, spoiled, removed, program, aborted>>

Checked(t) ==
  /\ Tracking(t, "checked") /\ Pop(t) /\ lock' = Released(t, Tracker(t))
  /\ tracker' = [tracker EXCEPT ![Tracker(t)] =
       IF Top(t).stmt.op = "checkpoint" THEN [@ EXCEPT !.last = Top(t).id]
       ELSE [enabled |-> Logger(t) \in registered, last |-> <<>>]]
  /\ UNCHANGED <<started, stream, file, unflushed, hits, registered, m_data, reports,
                 mixed, lost, spoiled, removed, program, aborted>>

-----------------------------------------------------------------------------
(* CrashHandler: a signal interrupts a thread between two steps.  The      *)
(* default handler reports to the default logger, Residue's says a word    *)
(* before, and disconnects after (which is ResidueClient's subject).       *)
CrashReports ==
  LET fatal == [Internal(Default) EXCEPT !.level = "fatal"]
  IN  IF Has("enableCrashHandler") THEN <<Internal(Default), fatal>> ELSE <<fatal>>

Crash(t) ==
  /\ Has("crash") /\ Running(t) /\ \A u \in Threads : ~Crashing(u)
  /\ stack' = [stack EXCEPT ![t] = Append(@, Frame(Within(Top(t)),
                                     [Internal(Default) EXCEPT !.op = "crash"]))]
  /\ UNCHANGED <<started, lock, stream, file, unflushed, hits, registered, performance,
                 lost, spoiled, removed, program, aborted>>

logCrashReason(t) ==
  /\ At(t, {"crash"}, "gate")
  /\ LET fr == Top(t)  n == Len(CrashReports) IN
       Execute(t, [fr EXCEPT !.first = TRUE, !.pc = IF fr.first \/ n = 1 THEN "abort" ELSE "gate"],
               CrashReports[IF fr.first THEN n ELSE 1])
  /\ UNCHANGED <<started, lock, stream, file, unflushed, hits, registered, performance,
                 lost, spoiled, removed, program, aborted>>

-----------------------------------------------------------------------------
Init ==
  /\ stack = [t \in Threads |-> <<>>] /\ started = [t \in Threads |-> 0]
  /\ lock = [k \in Locks |-> [owner |-> Free, depth |-> 0]]
  /\ stream = [l \in Loggers |-> <<>>]
  /\ file = [f \in Files |-> [text |-> <<>>, kept |-> 0, open |-> TRUE, fail |-> FALSE,
                              past |-> <<>>]]
  /\ unflushed = [l \in Loggers |-> initUnflushedCount]
  /\ hits = [o \in DOMAIN Occasions |-> [count |-> 0, total |-> 0, passed |-> 0]]
  /\ registered \in {R \in SUBSET Loggers : Default \in R}
  /\ tracker = [k \in Trackers |-> [enabled |-> TRUE, last |-> <<>>]]
  /\ m_data = <<>> /\ reports = <<>> /\ mixed = {} /\ lost = {} /\ spoiled = {}
  /\ removed = {} /\ program \in Programs /\ aborted = FALSE

Step(t) ==
  \/ Normal(t) \/ Conditional(t) \/ EveryN(t) \/ AfterN(t) \/ NTimes(t)
  \/ InitializeLogger(t) \/ LoggerMissing(t) \/ Evaluate(t) \/ StreamHead(t)
  \/ StreamTail(t) \/ LogArguments(t) \/ Skip(t) \/ Missed(t) \/ Dispatch(t) \/ RollFirst(t)
  \/ Callback(t) \/ Roll(t) \/ CallbackThrows(t) \/ Undispatch(t) \/ Release(t)
  \/ Abort(t) \/ FlushLogger(t) \/ FlushRoll(t) \/ FlushEnds(t) \/ FlushAll(t)
  \/ Configure(t) \/ Apply(t) \/ RemoveLogger(t)
  \/ Untracked(t) \/ Checkpoint(t) \/ Report(t) \/ Checked(t) \/ logCrashReason(t)

Next == \E t \in Threads : Begin(t) \/ Step(t) \/ Crash(t)

(* A thread that can go on does; nothing makes it begin a statement.  *)
Spec == Init /\ [][Next]_vars /\ \A t \in Threads : WF_vars(Step(t))

-----------------------------------------------------------------------------
(* Lines of a file, the ones that were rolled out included. *)
Lines(f) == file[f].past \o file[f].text

(* A statement whose message logs to the statement's first logger: itself, *)
(* or by what the library says to the default logger of a logger that is   *)
(* missing, or before it aborts.                                           *)
LogsToItself(s) ==
  /\ s.inner # NoStmt
  /\ \/ s.loggers[1] \in Range(s.inner.loggers)
     \/ /\ s.loggers[1] = Default
        /\ \/ ~Has("CreateLoggerAutomatically") /\ ~(Range(s.inner.loggers) \subseteq registered)
           \/ ~Has("DisableApplicationAbortOnFatalLog") /\ s.inner.level = "fatal"

(* A line is the text of the statement that wrote it, the whole of it and  *)
(* nothing else, however threads interleave; except where a statement's    *)
(* message logs to the same logger, where the first of several loggers is  *)
(* disabled or missing (the others get an empty line), where a logger was  *)
(* left locked with text in its stream, and in a crash, whose line follows *)
(* what it interrupted (Writer, Logger::m_stream).                         *)
Intact(e) ==
  \/ LogsToItself(e.top) \/ Range(e.stmt.loggers) \cap spoiled # {} \/ e.crashed
  \/ IF e.text = <<>> THEN e.stmt.loggers[1] # e.to ELSE e.text = <<e.by, e.by>>

LinesIntact == \A f \in Files : \A i \in DOMAIN Lines(f) : Intact(Lines(f)[i])

(* A statement that has been dispatched to a logger is in the logger's     *)
(* file exactly once, or the stream refused it; and only where another     *)
(* logger shares the file, which Logger::flush rolls under a lock that     *)
(* does not stop the other's writers, or where a crash interrupted a roll. *)
WrittenOnce ==
  /\ \A t \in Threads : At(t, {"write"}, "release") =>
       LET e == Line(t)  f == FileOf[Logger(t)]
           copies == {i \in DOMAIN Lines(f) : Lines(f)[i].by = e.by /\ Lines(f)[i].at = e.at}
       IN  IF e \in lost THEN copies = {} ELSE \E i \in copies : copies = {i} /\ Lines(f)[i] = e
  /\ \A e \in lost : e.crashed \/ \E l \in Loggers \ {e.to} : FileOf[l] = FileOf[e.to]

(* The lines of a logger and a level that the file's stream buffers. *)
Buffered(l, v) ==
  LET fl == file[FileOf[l]]
  IN  {i \in fl.kept + 1 .. Len(fl.text) : fl.text[i].to = l /\ fl.text[i].stmt.level = v}

(* Between the two steps in which configure resets and flushes a logger. *)
Resetting(fr, l) ==
  fr.stmt.op = "configure" /\ fr.pc = "reset" /\ fr.stmt.loggers[fr.at] = l

BeingConfigured(l) ==
  \E t \in Threads : \E i \in DOMAIN stack[t] : Resetting(stack[t][i], l)

(* A file's buffer and a file's size are bounded.  No more of a logger's   *)
(* lines of a level are buffered, for a crash to take, than their count    *)
(* says, which stays below the threshold; unless the logger was removed or *)
(* is being configured (for ever where the program crashes or is aborted   *)
(* then), which resets its counts before it flushes, or the stream fails   *)
(* (Logger::isFlushNeeded, flush, configure).  With StrictLogFileSizeCheck *)
(* a file never exceeds its limit, whoever else rolls or writes it.        *)
FilesBounded ==
  /\ \A l \in Loggers, v \in Level :
       /\ l \notin removed /\ ~file[FileOf[l]].fail /\ ~BeingConfigured(l) =>
            Cardinality(Buffered(l, v)) <= unflushed[l][v]
       /\ unflushed[l][v] < Threshold \/ unflushed[l][v] = 0
  /\ Has("StrictLogFileSizeCheck") /\ MaxSize # 0 =>
       \A f \in Files : Len(file[f].text) <= MaxSize

(* Locks that a frame holds. *)
Holds(fr) ==
  LET l == fr.stmt.loggers[fr.at] IN
  CASE fr.stmt.op = "write" /\ fr.pc \in {"head", "tail", "dispatch", "release"} -> {l}
    [] fr.stmt.op = "write" /\ fr.pc \in {"rollfirst", "callback", "roll", "written"} ->
         {l, "storage"}
    [] fr.stmt.op \in {"flush", "configure"} /\ fr.pc \in {"roll", "flushed"} -> {l}
    [] fr.stmt.op \in {"checkpoint", "complete"} /\ fr.pc \in {"handle", "checked"} ->
         {TrackerOf[l]}
    [] OTHER -> {}

Holding(t, k) == {i \in DOMAIN stack[t] : k \in Holds(stack[t][i])}

(* A lock is held as often as its owner's statements need it, and by no    *)
(* other thread, except for loggers that a statement ended without a       *)
(* Writer on.  So checkpoints of one tracker are reported one after the    *)
(* other, each from the one before, and each report is its own, unless     *)
(* another tracker's met it in the callback (PerformanceTracker,           *)
(* DefaultPerformanceTrackingCallback::m_data).                            *)
Exclusive ==
  /\ \A k \in Locks \ spoiled, t \in Threads :
       Cardinality(Holding(t, k)) = IF lock[k].owner = t THEN lock[k].depth ELSE 0
  /\ \A i \in DOMAIN reports :
       LET e == reports[i]
           before == {j \in 1 .. i - 1 : reports[j].on = e.on}
       IN  /\ e.from = <<>> \/ (before # {} /\ e.from = reports[Max(before)].at)
           /\ e.of = e.at \/ e.at \in mixed

(* The lock a thread waits for. *)
Wants(t) ==
  IF ~Running(t) THEN {} ELSE
  CASE Top(t).pc = "init" /\ (Logger(t) \in registered \/ Has("CreateLoggerAutomatically"))
         -> {Logger(t)}
    [] Top(t).pc = "gate" /\ Top(t).stmt.op \in {"log", "flush", "remove"} -> {Logger(t)}
    [] Top(t).pc \in {"reset", "apply"} -> {Logger(t)}
    [] Tracking(t, "gate") -> {Tracker(t)}
    [] Top(t).pc = "dispatch" /\ Top(t).proceed -> {"storage"}
    [] OTHER -> {}

Deadlocked(S) ==
  S # {} /\ \A t \in S : \E k \in Wants(t) : lock[k].owner \in S \ {t}

(* They wait for each other and none of them for others only. *)
Circle(S) == Deadlocked(S) /\ \A R \in SUBSET S : R # S => ~Deadlocked(R)

(* Threads wait for each other in a circle only where each of them logs    *)
(* from within a statement or a performance report, or one of them has     *)
(* crashed, whose report takes its logger's lock after Storage's: else a   *)
(* statement on several loggers releases one before it takes the next, and *)
(* Storage's lock is the last to be taken.                                 *)
DeadlockNeedsNesting ==
  spoiled = {} =>
    \A S \in SUBSET Threads :
      Circle(S) => (\A t \in S : Len(stack[t]) > 1) \/ \E t \in S : Crashing(t)

(* An occasional statement is written on exactly the hits its macro names: *)
(* every n-th, all but the first n, the first n; for every n, although the *)
(* counter starts over at kMaxLogPerCounter.  For a period beyond that the *)
(* counter never gets further than kMaxLogPerCounter + 1.                  *)
Expected(o, total) ==
  CASE o.how = "times" -> IF total < o.n THEN total ELSE o.n
    [] o.how = "after" -> IF total < o.n THEN 0 ELSE total - o.n
    [] OTHER -> IF o.n = 0 THEN 0
                ELSE IF o.n <= kMaxLogPerCounter THEN total \div o.n
                ELSE IF o.n = kMaxLogPerCounter + 1 /\ total > kMaxLogPerCounter
                  THEN total - kMaxLogPerCounter ELSE 0

OccasionExact ==
  \A o \in DOMAIN Occasions : hits[o].passed = Expected(Occasions[o], hits[o].total)

(* Every statement ends, and a crash with it, unless its thread is in a    *)
(* deadlock, a logger was left locked, or the program was aborted by a     *)
(* fatal statement or after a crash.                                       *)
StatementsEnd ==
  \A t \in Threads :
    stack[t] # <<>> ~> \/ stack[t] = <<>> \/ aborted \/ spoiled # {}
                      \/ Deadlocked(Threads)
=============================================================================
