----------------------------- MODULE MCLogWriter -----------------------------
(* Three loggers, of which net and off share a file and off is disabled,   *)
(* and programs of two threads that each exercise some statements together. *)
EXTENDS LogWriter

CONSTANTS t1, t2

Write(loggers) == [op |-> "write", loggers |-> loggers, level |-> "info",
                   when |-> "always", on |-> TRUE, inner |-> NoStmt, ends |-> "well"]
Op(op, l) == [Write(<<l>>) EXCEPT !.op = op]
Nest(outer, inner) == [Write(<<outer>>) EXCEPT !.inner = inner]
When(o) == [Write(<<"default">>) EXCEPT !.when = o]
Fatal(l) == [Write(<<l>>) EXCEPT !.level = "fatal"]

Program(flags, most, statements) ==
  [flags |-> flags, most |-> most, statements |-> statements]

MCPrograms == {
  Program({"MultiLoggerSupport"}, 1,
    {Write(<<"net", "default">>), Write(<<"default", "net">>), Write(<<"off", "default">>),
     Write(<<"net", "off", "net">>), Fatal("default")}),
  Program({"CreateLoggerAutomatically", "ImmediateFlush"}, 1,
    {Nest("default", Write(<<"net">>)), Nest("net", Op("checkpoint", "default")),
     Nest("default", Write(<<"default">>)), Op("checkpoint", "net")}),
  Program({}, 1, {Nest("default", Write(<<"net">>)), Nest("default", Fatal("net"))}),
  Program({}, 2, {Write(<<"net">>), Op("flush", "off"), Op("flushAll", "net")}),
  Program({"StrictLogFileSizeCheck", "DisableApplicationAbortOnFatalLog"}, 2,
    {Fatal("default"), Op("log", "default"), Op("flush", "default")}),
  Program({}, 2, {When("every"), When("after"), When("times"),
                  [When("every") EXCEPT !.on = FALSE]}),
  Program({"CreateLoggerAutomatically"}, 2,
    {[Op("log", "net") EXCEPT !.ends = "early"], [Write(<<"net">>) EXCEPT !.ends = "throws"],
     Op("remove", "net"), Op("checkpoint", "net")}),
  Program({}, 2, {Op("configure", "default"), Write(<<"default">>)}),
  Program({}, 2, {Op("configure", "default"), Fatal("default")}),
  Program({"ImmediateFlush"}, 1,
    {Op("checkpoint", "net"), Op("complete", "net"), Op("complete", "default")}),
  Program({"crash"}, 1, {Write(<<"net">>), Write(<<"default">>), Op("flush", "default"),
                         Op("configure", "default")}),
  Program({"crash", "enableCrashHandler", "DisableApplicationAbortOnFatalLog"}, 1,
    {Check("net")}) }

MCOccasions == [every |-> [how |-> "every", n |-> 2], after |-> [how |-> "after", n |-> 1],
                times |-> [how |-> "times", n |-> 2]]
MCTrackerOf == [l \in {"default", "net", "off"} |-> IF l = "net" THEN "timed" ELSE "other timed"]
MCFileOf == [l \in {"default", "net", "off"} |-> IF l = "default" THEN "main" ELSE "other"]
=============================================================================
