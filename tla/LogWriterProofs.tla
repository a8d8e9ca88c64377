--------------------------- MODULE LogWriterProofs ---------------------------
(***************************************************************************)
(* What is proved of how Easylogging++ writes a statement, for any number  *)
(* of threads, loggers, files, trackers, locations and programs.           *)
(***************************************************************************)
EXTENDS LogWriter, SequenceTheorems, FiniteSetTheorems, TLAPS

(* Remainders and quotients of neighbours.                                 *)
LEMMA Division ==
  ASSUME NEW a \in Nat, NEW n \in Nat \ {0}
  PROVE  /\ a \div n \in Nat /\ a % n \in 0 .. n - 1
         /\ a = n * (a \div n) + (a % n)
OBVIOUS

(* A number that is so many times n and less than n more.                  *)
LEMMA Quotient ==
  ASSUME NEW a \in Nat, NEW n \in Nat \ {0}, NEW q \in Nat, NEW r \in Nat,
         r < n, a = n * q + r
  PROVE  a \div n = q /\ a % n = r
OBVIOUS

(* The remainder starts over where the quotient goes up.                   *)
LEMMA Neighbour ==
  ASSUME NEW a \in Nat, NEW n \in Nat \ {0}
  PROVE  /\ (a + 1) % n = IF a % n = n - 1 THEN 0 ELSE (a % n) + 1
         /\ (a + 1) \div n = (a \div n) + IF (a + 1) % n = 0 THEN 1 ELSE 0
<1> DEFINE q == a \div n  r == a % n
<1>1. q \in Nat /\ r \in 0 .. n - 1 /\ a = n * q + r BY Division
<1> HIDE DEF q, r
<1>2. CASE r = n - 1
  <2>1. a + 1 = n * (q + 1) + 0 BY <1>1, <1>2
  <2>2. (a + 1) \div n = q + 1 /\ (a + 1) % n = 0 BY <1>1, <2>1, Quotient
  <2> QED BY <1>1, <1>2, <2>2 DEF q, r
<1>3. CASE r # n - 1
  <2>1. a + 1 = n * q + (r + 1) /\ r + 1 < n /\ r + 1 \in Nat BY <1>1, <1>3
  <2>2. (a + 1) \div n = q /\ (a + 1) % n = r + 1 BY <1>1, <2>1, Quotient
  <2> QED BY <1>1, <1>3, <2>2 DEF q, r
<1> QED BY <1>2, <1>3

(* A number less than n is its own remainder.                              *)
LEMMA Smaller == ASSUME NEW a \in Nat, NEW n \in Nat, a < n PROVE a % n = a
OBVIOUS

(* Numbers with the same remainder are followed by such numbers.           *)
LEMMA Alike ==
  ASSUME NEW a \in Nat, NEW b \in Nat, NEW n \in Nat \ {0}, a % n = b % n
  PROVE  (a + 1) % n = (b + 1) % n
BY Neighbour

-----------------------------------------------------------------------------
(* Counters of occasional statements.                                      *)
Hit == [count : Nat, total : Nat, passed : Nat]

(* The counter keeps the position within the period, or stays behind it.   *)
Position(o, h) ==
  /\ o.how = "times" => h.count = h.total
  /\ o.how = "after" => h.count = IF h.total < o.n THEN h.total ELSE o.n
  /\ o.how = "every" /\ o.n \in 1 .. kMaxLogPerCounter =>
       h.count <= kMaxLogPerCounter /\ h.count % o.n = h.total % o.n
  /\ o.how = "every" /\ o.n > kMaxLogPerCounter =>
       h.count = IF h.total <= kMaxLogPerCounter THEN h.total ELSE kMaxLogPerCounter + 1

Counted(o, h) == h \in Hit /\ Position(o, h) /\ h.passed = Expected(o, h.total)

HitsInv ==
  /\ DOMAIN hits = DOMAIN Occasions
  /\ \A o \in DOMAIN Occasions : Counted(Occasions[o], hits[o])

(* The location's counter after one more hit.                              *)
Once(h, v) ==
  [count |-> v.count, total |-> h.total + 1,
   passed |-> h.passed + (IF v.passes THEN 1 ELSE 0)]

(* A hit of CINFO_N_TIMES (validateNTimes).                                *)
LEMMA NTimesCounted ==
  ASSUME NEW o, o.how = "times", o.n \in Nat, NEW h, Counted(o, h)
  PROVE  Counted(o, Once(h, validateNTimes(h, o.n)))
<1> DEFINE g == Once(h, validateNTimes(h, o.n))
<1>1. /\ h.count \in Nat /\ h.total \in Nat /\ h.passed \in Nat /\ h.count = h.total
      /\ h.passed = IF h.total < o.n THEN h.total ELSE o.n
  BY DEF Counted, Hit, Position, Expected
<1>2. /\ g.count = h.count + 1 /\ g.total = h.total + 1
      /\ g.passed = h.passed + IF h.count + 1 <= o.n THEN 1 ELSE 0
      /\ g = [count |-> g.count, total |-> g.total, passed |-> g.passed]
  BY DEF Once, validateNTimes
<1> HIDE DEF g
<1>3. g \in Hit BY <1>1, <1>2 DEF Hit
<1>4. Position(o, g) BY <1>1, <1>2 DEF Position
<1>5. g.passed = Expected(o, g.total) BY <1>1, <1>2 DEF Expected
<1> QED BY <1>3, <1>4, <1>5 DEF Counted, g

(* A hit of CINFO_AFTER_N (validateAfterN).                                *)
LEMMA AfterNCounted ==
  ASSUME NEW o, o.how = "after", o.n \in Nat, NEW h, Counted(o, h)
  PROVE  Counted(o, Once(h, validateAfterN(h, o.n)))
<1> DEFINE g == Once(h, validateAfterN(h, o.n))
<1>1. /\ h.count \in Nat /\ h.total \in Nat /\ h.passed \in Nat
      /\ h.count = IF h.total < o.n THEN h.total ELSE o.n
      /\ h.passed = IF h.total < o.n THEN 0 ELSE h.total - o.n
  BY DEF Counted, Hit, Position, Expected
<1>2. /\ g.count = (IF h.count >= o.n THEN h.count ELSE h.count + 1) /\ g.total = h.total + 1
      /\ g.passed = h.passed + IF h.count >= o.n THEN 1 ELSE 0
      /\ g = [count |-> g.count, total |-> g.total, passed |-> g.passed]
  BY DEF Once, validateAfterN
<1> HIDE DEF g
<1>3. g \in Hit BY <1>1, <1>2 DEF Hit
<1>4. Position(o, g) BY <1>1, <1>2 DEF Position
<1>5. g.passed = Expected(o, g.total) BY <1>1, <1>2 DEF Expected
<1> QED BY <1>3, <1>4, <1>5 DEF Counted, g

(* The counter starts over where the period left it.                       *)
LEMMA EveryNCounted ==
  ASSUME NEW o, o.how = "every", o.n \in Nat, NEW h, Counted(o, h)
  PROVE  Counted(o, Once(h, validateEveryN(h, o.n)))
<1> DEFINE n == o.n  K == kMaxLogPerCounter  c == validateHitCounts(h.count, n)
           g == Once(h, validateEveryN(h, n))
<1>1. K \in Nat \ {0} /\ n \in Nat BY LogWriterAssumption
<1>2. h.count \in Nat /\ h.total \in Nat /\ h.passed \in Nat /\ h.passed = Expected(o, h.total)
  BY DEF Counted, Hit
<1>3. c = (IF h.count < K THEN h.count ELSE IF n >= 1 THEN K % n ELSE 0) + 1
  BY DEF validateHitCounts
<1>4. n >= 1 => K % n \in 0 .. n - 1 BY <1>1, Division
<1>5. c \in Nat BY <1>1, <1>2, <1>3, <1>4
<1>6. /\ g.count = c /\ g.total = h.total + 1
      /\ g.passed = h.passed + IF n >= 1 /\ c % n = 0 THEN 1 ELSE 0
      /\ g = [count |-> g.count, total |-> g.total, passed |-> g.passed]
  BY DEF Once, validateEveryN
<1> HIDE DEF c, g
<1>7. g \in Hit BY <1>2, <1>5, <1>6 DEF Hit
<1>8. CASE n = 0
  <2>1. Expected(o, h.total) = 0 /\ Expected(o, g.total) = 0 BY <1>8 DEF Expected
  <2> QED BY <1>1, <1>2, <1>6, <1>7, <1>8, <2>1 DEF Counted, Position, g
<1>9. CASE n \in 1 .. K
  <2>1. h.count <= K /\ h.count % n = h.total % n BY <1>9 DEF Counted, Position
  <2>2. c <= K /\ c % n = (h.count + 1) % n
    <3>1. CASE h.count < K BY <3>1, <1>1, <1>2, <1>3
    <3>2. CASE h.count >= K
      <4>1. h.count = K /\ c = (K % n) + 1 BY <3>2, <2>1, <1>1, <1>2, <1>3, <1>9
      <4>2. (K % n) % n = K % n BY <1>4, <1>9, Smaller
      <4>3. K % n \in Nat /\ n \in Nat \ {0} BY <1>4, <1>9
      <4>4. ((K % n) + 1) % n = (K + 1) % n BY <4>2, <4>3, <1>1, Alike
      <4>5. K % n <= n - 1 /\ n <= K BY <1>4, <1>9
      <4> HIDE DEF K, n
      <4> QED BY <4>1, <4>3, <4>4, <4>5, <1>1
    <3> QED BY <3>1, <3>2, <1>1, <1>2
  <2>3. n \in Nat \ {0} BY <1>9
  <2>4. (h.count + 1) % n = (h.total + 1) % n BY <2>1, <2>3, <1>2, Alike
  <2>5. Expected(o, h.total) = h.total \div n /\ Expected(o, g.total) = (h.total + 1) \div n
    BY <1>9, <1>6 DEF Expected
  <2>6. (h.total + 1) \div n = (h.total \div n) + IF (h.total + 1) % n = 0 THEN 1 ELSE 0
    BY <2>3, <1>2, Neighbour
  <2>7. g.passed = Expected(o, g.total) BY <2>2, <2>3, <2>4, <2>5, <2>6, <1>2, <1>6, <1>9
  <2>8. g.count <= K /\ g.count % n = g.total % n BY <2>2, <2>4, <1>6
  <2>9. Position(o, g)
    <3>1. ~(o.n > kMaxLogPerCounter) BY <1>1, <1>9
    <3>2. o.how # "times" /\ o.how # "after" OBVIOUS
    <3> HIDE DEF n, K
    <3> QED BY <3>1, <3>2, <2>8, Zenon DEF Position, n, K
  <2> QED BY <1>7, <2>7, <2>9 DEF Counted, g
<1>10. CASE n > K
  <2>1. h.count = IF h.total <= K THEN h.total ELSE K + 1 BY <1>10 DEF Counted, Position
  <2>2. K % n = K BY <1>1, <1>10, Smaller
  <2>3. c = IF h.total < K THEN h.total + 1 ELSE K + 1
    BY <2>1, <2>2, <1>1, <1>2, <1>3, <1>10
  <2>4. Position(o, g) BY <2>3, <1>1, <1>2, <1>6, <1>10 DEF Position
  <2>5. c % n = 0 <=> n = K + 1 /\ h.total >= K
    <3>1. CASE c < n BY <3>1, <2>3, <1>1, <1>2, <1>5, <1>10, Smaller
    <3>2. CASE c >= n
      <4>1. c = n /\ n = K + 1 /\ h.total >= K BY <3>2, <2>3, <1>1, <1>2, <1>10
      <4>2. n % n = 0 BY <1>1, <1>10, Quotient, n = n * 1 + 0
      <4> QED BY <4>1, <4>2
    <3> QED BY <3>1, <3>2, <1>1, <1>5
  <2>6. g.passed = Expected(o, g.total)
    BY <2>5, <1>1, <1>2, <1>6, <1>10 DEF Expected
  <2> QED BY <1>7, <2>4, <2>6 DEF Counted, g
<1> QED BY <1>1, <1>8, <1>9, <1>10

(* Nothing else touches a counter.                                         *)
LEMMA HitsKept ==
  ASSUME [Next]_vars
  PROVE  \/ UNCHANGED hits
         \/ \E t \in Threads : EveryN(t) \/ AfterN(t) \/ NTimes(t)
<1>1. CASE UNCHANGED vars BY <1>1 DEF vars
<1>2. ASSUME NEW t \in Threads, Begin(t) \/ Crash(t) PROVE UNCHANGED hits
  BY <1>2 DEF Begin, Crash
<1>3. ASSUME NEW t \in Threads, Step(t), ~(EveryN(t) \/ AfterN(t) \/ NTimes(t))
      PROVE  UNCHANGED hits
  <2>1. CASE \/ Normal(t) \/ Conditional(t) \/ InitializeLogger(t) \/ LoggerMissing(t)
             \/ Evaluate(t) \/ StreamHead(t) \/ StreamTail(t) \/ LogArguments(t)
    BY <2>1 DEF Normal, Conditional, InitializeLogger, LoggerMissing, Evaluate,
                StreamHead, StreamTail, Stream, LogArguments
  <2>2. CASE \/ Skip(t) \/ Missed(t) \/ Dispatch(t) \/ RollFirst(t) \/ Callback(t) \/ Roll(t)
             \/ CallbackThrows(t) \/ Undispatch(t) \/ Release(t) \/ Abort(t)
    BY <2>2 DEF Skip, Missed, Dispatch, RollFirst, Callback, Roll, Reopen,
                CallbackThrows, Undispatch, Release, Abort
  <2>3. CASE \/ FlushLogger(t) \/ FlushRoll(t) \/ FlushEnds(t) \/ FlushAll(t)
             \/ Configure(t) \/ Apply(t) \/ RemoveLogger(t)
             \/ Untracked(t) \/ Checkpoint(t) \/ Report(t) \/ Checked(t) \/ logCrashReason(t)
    BY <2>3 DEF FlushLogger, FlushRoll, Reopen, FlushEnds, FlushAll, Configure, Apply,
                RemoveLogger, Untracked, Checkpoint, Report, Checked, logCrashReason
  <2> QED BY <1>3, <2>1, <2>2, <2>3 DEF Step
<1> QED BY <1>1, <1>2, <1>3 DEF Next

(* An occasional statement passes on exactly the hits its macro names, for *)
(* any period and any kMaxLogPerCounter, also where the counter starts     *)
(* over (RegisteredHitCounters, easylogging++.h).                          *)
THEOREM OccasionsExact == Spec => []OccasionExact
<1>1. Init => HitsInv
  <2> SUFFICES ASSUME Init, NEW o \in DOMAIN Occasions PROVE Counted(Occasions[o], hits[o])
    BY DEF HitsInv, Init
  <2> DEFINE w == Occasions[o]
  <2>1. hits[o] = [count |-> 0, total |-> 0, passed |-> 0] BY DEF Init
  <2>2. /\ w.n \in Nat /\ w.how \in {"every", "after", "times"}
        /\ kMaxLogPerCounter \in Nat \ {0}
    BY LogWriterAssumption
  <2>3. w.n # 0 => 0 \div w.n = 0
    <3> DEFINE n == w.n
    <3>1. n \in Nat BY <2>2
    <3> HIDE DEF n
    <3>2. 0 = n * 0 + 0 BY <3>1
    <3>3. n # 0 => 0 \div n = 0 BY <3>1, <3>2, Quotient
    <3> QED BY <3>3 DEF n
  <2> HIDE DEF w
  <2>4. Position(w, hits[o]) BY <2>1, <2>2 DEF Position
  <2>5. Expected(w, 0) = 0 BY <2>2, <2>3 DEF Expected
  <2> QED BY <2>1, <2>4, <2>5 DEF Counted, Hit, w
<1>2. HitsInv /\ [Next]_vars => HitsInv'
  <2> SUFFICES ASSUME HitsInv, [Next]_vars PROVE HitsInv' OBVIOUS
  <2>1. CASE UNCHANGED hits BY <2>1 DEF HitsInv
  <2>2. ASSUME NEW o \in DOMAIN Occasions, NEW v,
               hits' = [hits EXCEPT ![o] = Once(hits[o], v)],
               Counted(Occasions[o], Once(hits[o], v))
        PROVE  HitsInv'
    BY <2>2 DEF HitsInv
  <2>3. ASSUME NEW t \in Threads, EveryN(t) \/ AfterN(t) \/ NTimes(t) PROVE HitsInv'
    <3> DEFINE o == Top(t).stmt.when
    <3>1. o \in DOMAIN Occasions BY <2>3 DEF EveryN, AfterN, NTimes, Occasional
    <3>2. Counted(Occasions[o], hits[o]) /\ Occasions[o].n \in Nat
      BY <3>1, LogWriterAssumption DEF HitsInv
    <3>3. CASE EveryN(t)
      <4> DEFINE v == validateEveryN(hits[o], Occasions[o].n)
      <4>1. Occasions[o].how = "every" /\ hits' = [hits EXCEPT ![o] = Once(hits[o], v)]
        BY <3>3 DEF EveryN, Occasional, Hits, Number, Once
      <4>2. Counted(Occasions[o], Once(hits[o], v)) BY <4>1, <3>2, EveryNCounted
      <4> HIDE DEF o, v
      <4> QED BY <4>1, <4>2, <3>1, <2>2
    <3>4. CASE AfterN(t)
      <4> DEFINE v == validateAfterN(hits[o], Occasions[o].n)
      <4>1. Occasions[o].how = "after" /\ hits' = [hits EXCEPT ![o] = Once(hits[o], v)]
        BY <3>4 DEF AfterN, Occasional, Hits, Number, Once
      <4>2. Counted(Occasions[o], Once(hits[o], v)) BY <4>1, <3>2, AfterNCounted
      <4> HIDE DEF o, v
      <4> QED BY <4>1, <4>2, <3>1, <2>2
    <3>5. CASE NTimes(t)
      <4> DEFINE v == validateNTimes(hits[o], Occasions[o].n)
      <4>1. Occasions[o].how = "times" /\ hits' = [hits EXCEPT ![o] = Once(hits[o], v)]
        BY <3>5 DEF NTimes, Occasional, Hits, Number, Once
      <4>2. Counted(Occasions[o], Once(hits[o], v)) BY <4>1, <3>2, NTimesCounted
      <4> HIDE DEF o, v
      <4> QED BY <4>1, <4>2, <3>1, <2>2
    <3> QED BY <2>3, <3>3, <3>4, <3>5
  <2> QED BY <2>1, <2>3, HitsKept
<1>3. HitsInv => OccasionExact BY DEF HitsInv, Counted, OccasionExact
<1> QED BY <1>1, <1>2, <1>3, PTL DEF Spec

-----------------------------------------------------------------------------
(* Stacks.  What a frame may be, and what may lie beneath another.         *)
Ids == [by : Threads, no : Nat, path : Seq(Nat)]
Pcs == {"gate", "init", "head", "tail", "missed", "dispatch", "rollfirst", "callback",
        "roll", "written", "release", "abort", "reset", "flushed", "apply", "handle",
        "checked"}
Framed == StatementsWith(Operations \cup {"crash"}, {NoStmt} \cup Plain)
Frames == [id : Ids, stmt : Framed, at : Nat \ {0}, pc : Pcs, proceed : BOOLEAN,
           first : BOOLEAN, msg : Seq(Ids), evaluated : BOOLEAN, calls : Nat]

Tracks(fr) == fr.stmt.op \in {"checkpoint", "complete"}
Crashes(fr) == fr.stmt.op = "crash"

(* Where a statement of each kind can be. *)
Allowed(op, pc) ==
  /\ op = "write" => pc \notin {"reset", "flushed", "apply", "handle", "checked"}
  /\ op \in {"log", "flushAll", "remove"} => pc = "gate"
  /\ op = "flush" => pc \in {"gate", "roll", "flushed"}
  /\ op = "configure" => pc \in {"gate", "reset", "roll", "flushed", "apply"}
  /\ op \in {"checkpoint", "complete"} => pc \in {"gate", "handle", "checked"}
  /\ op = "crash" => pc \in {"gate", "abort"}

Shape(fr) ==
  /\ fr.at <= Len(fr.stmt.loggers)
  /\ ~fr.evaluated => fr.stmt.inner # NoStmt
  /\ Allowed(fr.stmt.op, fr.pc)

(* Where a statement can be while another is executed from it.             *)
Waiting == {"gate", "init", "tail", "missed", "abort", "checked"}

StackOk(st) ==
  /\ \A i \in 1 .. Len(st) : Shape(st[i])
  /\ \A i \in 2 .. Len(st) : st[i].stmt.inner = NoStmt
  /\ \A i \in 1 .. Len(st) - 1 : Crashes(st[i + 1]) \/ st[i].pc \in Waiting
  /\ \A i, j \in 1 .. Len(st) : Tracks(st[i]) /\ Tracks(st[j]) => i = j

StacksInv ==
  /\ program \in Programs
  /\ stack \in [Threads -> Seq(Frames)] /\ \A t \in Threads : StackOk(stack[t])
  /\ started \in [Threads -> Nat]
  /\ stream \in [Loggers -> Seq(Ids)]

(* Sequences whose last element is replaced, taken off or covered.         *)
LEMMA PopSeq ==
  ASSUME NEW F, NEW st \in Seq(F), st # <<>>
  PROVE  LET n == Front(st)
         IN  /\ n \in Seq(F) /\ Len(n) = Len(st) - 1
             /\ \A i \in 1 .. Len(st) - 1 : n[i] = st[i]
<1> DEFINE n == SubSeq(st, 1, Len(st) - 1)
<1>1. Len(st) \in Nat \ {0} OBVIOUS
<1>2. 1 \in Int /\ Len(st) - 1 \in Int /\ \A i \in 1 .. Len(st) - 1 : st[i] \in F BY <1>1
<1>3. /\ n \in Seq(F) /\ Len(n) = IF 1 <= Len(st) - 1 THEN (Len(st) - 1) - 1 + 1 ELSE 0
      /\ \A i \in 1 .. (Len(st) - 1) - 1 + 1 : n[i] = st[1 + i - 1]
  BY <1>2, SubSeqProperties
<1>4. Front(st) = n BY DEF Front
<1> HIDE DEF n
<1>5. Len(n) = Len(st) - 1
  <2> DEFINE k == Len(st)
  <2>1. k \in Nat /\ k >= 1 BY <1>1
  <2>2. Len(n) = IF 1 <= k - 1 THEN (k - 1) - 1 + 1 ELSE 0 BY <1>3
  <2> HIDE DEF k
  <2>3. Len(n) = k - 1 BY <2>1, <2>2
  <2> QED BY <2>3 DEF k
<1>6. ASSUME NEW i \in 1 .. Len(st) - 1 PROVE n[i] = st[i]
  <2>1. i \in 1 .. (Len(st) - 1) - 1 + 1 /\ 1 + i - 1 = i BY <1>1
  <2> QED BY <2>1, <1>3
<1> QED BY <1>3, <1>4, <1>5, <1>6

(* The last element is replaced.                                           *)
LEMMA BecomeSeq ==
  ASSUME NEW F, NEW st \in Seq(F), st # <<>>, NEW f \in F
  PROVE  LET n == Append(Front(st), f)
         IN  /\ n \in Seq(F) /\ Len(n) = Len(st) /\ n[Len(st)] = f
             /\ \A i \in 1 .. Len(st) - 1 : n[i] = st[i]
<1> DEFINE u == Front(st)
<1>1. u \in Seq(F) /\ Len(u) = Len(st) - 1 /\ \A i \in 1 .. Len(st) - 1 : u[i] = st[i]
  BY PopSeq
<1> HIDE DEF u
<1>2. Len(st) \in Nat \ {0} OBVIOUS
<1> QED BY <1>1, <1>2 DEF u

(* It is replaced and another comes on top.                                *)
LEMMA CoverSeq ==
  ASSUME NEW F, NEW st \in Seq(F), st # <<>>, NEW f \in F, NEW g \in F
  PROVE  LET n == Front(st) \o <<f, g>>
         IN  /\ n \in Seq(F) /\ Len(n) = Len(st) + 1
             /\ n[Len(st)] = f /\ n[Len(st) + 1] = g
             /\ \A i \in 1 .. Len(st) - 1 : n[i] = st[i]
<1> DEFINE u == Front(st)  v == <<f, g>>
<1>1. u \in Seq(F) /\ Len(u) = Len(st) - 1 /\ \A i \in 1 .. Len(st) - 1 : u[i] = st[i]
  BY PopSeq
<1>2. v \in Seq(F) /\ Len(v) = 2 /\ v[1] = f /\ v[2] = g OBVIOUS
<1> HIDE DEF u, v
<1>3. Len(st) \in Nat \ {0} OBVIOUS
<1> QED BY <1>1, <1>2, <1>3 DEF u, v

(* Another comes on top.                                                   *)
LEMMA PushSeq ==
  ASSUME NEW F, NEW st \in Seq(F), NEW g \in F
  PROVE  LET n == Append(st, g)
         IN  /\ n \in Seq(F) /\ Len(n) = Len(st) + 1 /\ n[Len(st) + 1] = g
             /\ \A i \in 1 .. Len(st) : n[i] = st[i]
OBVIOUS

(* What a statement may become.                                            *)
Fits(top, f) ==
  /\ f \in Frames /\ Shape(f) /\ f.stmt.inner = top.stmt.inner
  /\ Tracks(f) <=> Tracks(top)
  /\ Crashes(f) <=> Crashes(top)

(* What may be executed from it.                                           *)
Fresher(g) ==
  /\ g \in Frames /\ Shape(g) /\ g.stmt.inner = NoStmt /\ g.pc = "gate"

(* A statement that changes within what fits leaves a stack in order.      *)
LEMMA BecomeOk ==
  ASSUME NEW st \in Seq(Frames), st # <<>>, StackOk(st), NEW f, Fits(Last(st), f)
  PROVE  StackOk(Append(Front(st), f))
<1> DEFINE n == Append(Front(st), f)
<1>1. f \in Frames BY DEF Fits
<1>2. /\ n \in Seq(Frames) /\ Len(n) = Len(st) /\ n[Len(st)] = f
      /\ \A i \in 1 .. Len(st) - 1 : n[i] = st[i]
  BY <1>1, BecomeSeq
<1>3. Last(st) = st[Len(st)] /\ Len(st) \in Nat \ {0} BY DEF Last
<1> HIDE DEF n
<1>4. \A i \in 1 .. Len(n) : Shape(n[i]) BY <1>2, <1>3 DEF StackOk, Fits
<1>5. \A i \in 2 .. Len(n) : n[i].stmt.inner = NoStmt BY <1>2, <1>3 DEF StackOk, Fits
<1>6. \A i \in 1 .. Len(n) : (Crashes(n[i]) <=> Crashes(st[i])) /\ (Tracks(n[i]) <=> Tracks(st[i]))
  BY <1>2, <1>3 DEF Fits
<1>7. \A i \in 1 .. Len(n) - 1 : Crashes(n[i + 1]) \/ n[i].pc \in Waiting
  BY <1>2, <1>3, <1>6 DEF StackOk
<1>8. \A i, j \in 1 .. Len(n) : Tracks(n[i]) /\ Tracks(n[j]) => i = j
  BY <1>2, <1>6 DEF StackOk
<1> QED BY <1>4, <1>5, <1>7, <1>8 DEF StackOk, n

(* So does one that ends,                                                  *)
LEMMA PopOk ==
  ASSUME NEW st \in Seq(Frames), st # <<>>, StackOk(st)
  PROVE  StackOk(Front(st))
<1> DEFINE n == Front(st)
<1>1. Len(n) = Len(st) - 1 /\ \A i \in 1 .. Len(st) - 1 : n[i] = st[i] BY PopSeq
<1>2. Len(st) \in Nat \ {0} OBVIOUS
<1> HIDE DEF n
<1> QED BY <1>1, <1>2 DEF StackOk, n

(* one that executes another,                                              *)
LEMMA CoverOk ==
  ASSUME NEW st \in Seq(Frames), st # <<>>, StackOk(st), NEW f, Fits(Last(st), f),
         f.pc \in Waiting, NEW g, Fresher(g),
         Tracks(g) => Len(st) = 1 /\ ~Tracks(f)
  PROVE  StackOk(Front(st) \o <<f, g>>)
<1> DEFINE m == Append(Front(st), f)  n == Front(st) \o <<f, g>>
<1>1. f \in Frames /\ g \in Frames BY DEF Fits, Fresher
<1>2. /\ Len(m) = Len(st) /\ m[Len(st)] = f
      /\ \A i \in 1 .. Len(st) - 1 : m[i] = st[i]
  BY <1>1, BecomeSeq
<1>3. /\ Len(n) = Len(st) + 1 /\ n[Len(st)] = f /\ n[Len(st) + 1] = g
      /\ \A i \in 1 .. Len(st) - 1 : n[i] = st[i]
  BY <1>1, CoverSeq
<1>4. StackOk(m) BY BecomeOk
<1>5. Len(st) \in Nat \ {0} OBVIOUS
<1>6. Tracks(g) => \A i \in 1 .. Len(m) : ~Tracks(m[i]) BY <1>2, <1>5
<1>a. ~Tracks(g) \/ Len(st) = 1 OBVIOUS
<1> HIDE DEF m, n
<1>7. \A i \in 1 .. Len(m) : n[i] = m[i] BY <1>2, <1>3, <1>5
<1>8. \A i \in 1 .. Len(n) : Shape(n[i]) BY <1>2, <1>3, <1>4, <1>5, <1>7 DEF StackOk, Fresher
<1>9. \A i \in 2 .. Len(n) : n[i].stmt.inner = NoStmt
  BY <1>2, <1>3, <1>4, <1>5, <1>7 DEF StackOk, Fresher
<1>10. \A i \in 1 .. Len(n) - 1 : Crashes(n[i + 1]) \/ n[i].pc \in Waiting
  BY <1>2, <1>3, <1>4, <1>5, <1>7 DEF StackOk
<1>11. \A i, j \in 1 .. Len(n) : Tracks(n[i]) /\ Tracks(n[j]) => i = j
  BY <1>2, <1>3, <1>4, <1>5, <1>6, <1>7 DEF StackOk
<1> QED BY <1>8, <1>9, <1>10, <1>11 DEF StackOk, n

(* and a crash.                                                            *)
LEMMA PushOk ==
  ASSUME NEW st \in Seq(Frames), StackOk(st), NEW g, Fresher(g), ~Tracks(g),
         Crashes(g)
  PROVE  StackOk(Append(st, g))
<1> DEFINE n == Append(st, g)
<1>1. /\ Len(n) = Len(st) + 1 /\ n[Len(st) + 1] = g /\ \A i \in 1 .. Len(st) : n[i] = st[i]
  BY PushSeq DEF Fresher
<1>2. Len(st) \in Nat OBVIOUS
<1> HIDE DEF n
<1>4. \A i \in 1 .. Len(n) : Shape(n[i]) BY <1>1, <1>2 DEF StackOk, Fresher
<1>5. \A i \in 2 .. Len(n) : n[i].stmt.inner = NoStmt BY <1>1, <1>2 DEF StackOk, Fresher
<1>6. \A i \in 1 .. Len(n) - 1 : Crashes(n[i + 1]) \/ n[i].pc \in Waiting
  BY <1>1, <1>2 DEF StackOk
<1>7. \A i, j \in 1 .. Len(n) : Tracks(n[i]) /\ Tracks(n[j]) => i = j
  BY <1>1, <1>2 DEF StackOk
<1> QED BY <1>4, <1>5, <1>6, <1>7 DEF StackOk, n

-----------------------------------------------------------------------------
(* Steps of a thread.                                                      *)

(* The thread's uppermost statement, if it stays, holds the locks of H     *)
(* after it; nothing beneath changes, and what is new holds none.          *)
Turned(st, n, H) ==
  /\ \A i \in 1 .. Len(st) - 1 : i \in 1 .. Len(n) /\ n[i] = st[i]
  /\ \A i \in 1 .. Len(n) : i > Len(st) => Holds(n[i]) = {}
  /\ H = IF Len(st) \in 1 .. Len(n) THEN Holds(n[Len(st)]) ELSE {}

Turn(t, H) ==
  /\ stack' \in [Threads -> Seq(Frames)]
  /\ \A u \in Threads \ {t} : stack'[u] = stack[u]
  /\ StackOk(stack'[t]) /\ Turned(stack[t], stack'[t], H)

(* No checkpoint goes on, and none is taken up where a crash came.         *)
Quiet(st, n) ==
  \A i \in 1 .. Len(n) : Tracks(n[i]) =>
    /\ n[i].pc \in {"handle", "checked"} => i < Len(st)
    /\ n[i].pc = "handle" => i < Len(n)

(* What is known of the uppermost statement.                               *)
LEMMA TopFacts ==
  ASSUME StacksInv, NEW t \in Threads, stack[t] # <<>>
  PROVE  /\ stack[t] \in Seq(Frames) /\ StackOk(stack[t]) /\ Len(stack[t]) \in Nat \ {0}
         /\ Top(t) = Last(stack[t]) /\ Top(t) = stack[t][Len(stack[t])]
         /\ Top(t) \in Frames /\ Shape(Top(t)) /\ Logger(t) \in Loggers
<1>1. stack[t] \in Seq(Frames) /\ StackOk(stack[t]) BY DEF StacksInv
<1>2. Len(stack[t]) \in Nat \ {0} BY <1>1
<1>3. Top(t) = Last(stack[t]) /\ Top(t) = stack[t][Len(stack[t])] BY DEF Top, Last
<1>4. Top(t) \in Frames /\ Shape(Top(t)) BY <1>1, <1>2, <1>3 DEF StackOk
<1>5. Top(t).stmt.loggers \in Seq(Loggers) /\ Top(t).at \in 1 .. Len(Top(t).stmt.loggers)
  BY <1>4 DEF Frames, Framed, StatementsWith, Shape
<1> QED BY <1>1, <1>2, <1>3, <1>4, <1>5 DEF Logger

(* The steps Become,                                                       *)
LEMMA BecomeTurn ==
  ASSUME StacksInv, NEW t \in Threads, stack[t] # <<>>, NEW f, Fits(Top(t), f), Become(t, f)
  PROVE  /\ Turn(t, Holds(f))
         /\ f.pc \notin {"handle", "checked"} \/ ~Tracks(f) => Quiet(stack[t], stack'[t])
<1> DEFINE st == stack[t]  n == Append(Front(st), f)
<1>1. /\ st \in Seq(Frames) /\ StackOk(st) /\ Len(st) \in Nat \ {0} /\ Top(t) = Last(st)
  BY TopFacts
<1>2. /\ n \in Seq(Frames) /\ Len(n) = Len(st) /\ n[Len(st)] = f
      /\ \A i \in 1 .. Len(st) - 1 : n[i] = st[i]
  BY <1>1, BecomeSeq DEF Fits
<1>3. StackOk(n) BY <1>1, BecomeOk
<1>4. stack' = [stack EXCEPT ![t] = n] /\ stack \in [Threads -> Seq(Frames)]
  BY DEF Become, StacksInv
<1> HIDE DEF n
<1>5. stack'[t] = n /\ stack' \in [Threads -> Seq(Frames)]
      /\ \A u \in Threads \ {t} : stack'[u] = stack[u]
  BY <1>2, <1>4
<1>6. Turned(st, n, Holds(f)) BY <1>1, <1>2 DEF Turned
<1>7. f.pc \notin {"handle", "checked"} \/ ~Tracks(f) => Quiet(st, n)
  BY <1>1, <1>2 DEF Quiet
<1> QED BY <1>3, <1>5, <1>6, <1>7 DEF Turn

(* Pop: a checkpoint that is being reported is not taken up again,         *)
LEMMA PopTurn ==
  ASSUME StacksInv, NEW t \in Threads, stack[t] # <<>>, ~Crashes(Top(t)), Pop(t)
  PROVE  Turn(t, {}) /\ Quiet(stack[t], stack'[t])
<1> DEFINE st == stack[t]  n == Front(st)
<1>1. /\ st \in Seq(Frames) /\ StackOk(st) /\ Len(st) \in Nat \ {0} /\ Top(t) = st[Len(st)]
  BY TopFacts
<1>2. /\ n \in Seq(Frames) /\ Len(n) = Len(st) - 1
      /\ \A i \in 1 .. Len(st) - 1 : n[i] = st[i]
  BY <1>1, PopSeq
<1>3. StackOk(n) BY <1>1, PopOk
<1>4. stack' = [stack EXCEPT ![t] = n] /\ stack \in [Threads -> Seq(Frames)]
  BY DEF Pop, StacksInv
<1> HIDE DEF n
<1>5. stack'[t] = n /\ stack' \in [Threads -> Seq(Frames)]
      /\ \A u \in Threads \ {t} : stack'[u] = stack[u]
  BY <1>2, <1>4
<1>6. Turned(st, n, {}) BY <1>1, <1>2 DEF Turned
<1>7. Quiet(st, n)
  <2> SUFFICES ASSUME NEW i \in 1 .. Len(n), n[i].pc = "handle", i = Len(n) PROVE FALSE
    BY <1>1, <1>2 DEF Quiet
  <2>1. i \in 1 .. Len(st) - 1 /\ i + 1 = Len(st) /\ n[i] = st[i] BY <1>1, <1>2
  <2>2. Crashes(st[i + 1]) \/ st[i].pc \in Waiting BY <1>1, <2>1 DEF StackOk
  <2> QED BY <1>1, <2>1, <2>2 DEF Waiting
<1> QED BY <1>3, <1>5, <1>6, <1>7 DEF Turn

(* and the execution of another statement.                                 *)
LEMMA CoverTurn ==
  ASSUME StacksInv, NEW t \in Threads, stack[t] # <<>>, NEW f, Fits(Top(t), f),
         f.pc \in Waiting, NEW g, Fresher(g),
         Tracks(g) => Len(stack[t]) = 1 /\ ~Tracks(f),
         stack' = [stack EXCEPT ![t] = Front(@) \o <<f, g>>]
  PROVE  /\ Turn(t, Holds(f))
         /\ ~Tracks(f) => Quiet(stack[t], stack'[t])
<1> DEFINE st == stack[t]  n == Front(st) \o <<f, g>>
<1>1. /\ st \in Seq(Frames) /\ StackOk(st) /\ Len(st) \in Nat \ {0} /\ Top(t) = Last(st)
  BY TopFacts
<1>2. /\ n \in Seq(Frames) /\ Len(n) = Len(st) + 1 /\ n[Len(st)] = f /\ n[Len(st) + 1] = g
      /\ \A i \in 1 .. Len(st) - 1 : n[i] = st[i]
  <2>1. f \in Frames /\ g \in Frames /\ st # <<>> BY DEF Fits, Fresher
  <2> HIDE DEF st
  <2> QED BY <1>1, <2>1, CoverSeq
<1>3. StackOk(n) BY <1>1, CoverOk
<1>4. stack' = [stack EXCEPT ![t] = n] /\ stack \in [Threads -> Seq(Frames)]
  BY DEF StacksInv
<1> HIDE DEF n
<1>5. stack'[t] = n /\ stack' \in [Threads -> Seq(Frames)]
      /\ \A u \in Threads \ {t} : stack'[u] = stack[u]
  BY <1>2, <1>4
<1>6. g.pc = "gate" /\ Holds(g) = {} BY DEF Fresher, Holds
<1>7. Turned(st, n, Holds(f)) BY <1>1, <1>2, <1>6 DEF Turned
<1>8. ~Tracks(f) => Quiet(st, n) BY <1>1, <1>2, <1>6 DEF Quiet
<1> QED BY <1>3, <1>5, <1>7, <1>8 DEF Turn

(* The statement goes on to pc.                                            *)
LEMMA GoFits ==
  ASSUME NEW top \in Frames, Shape(top), NEW pc \in Pcs, Allowed(top.stmt.op, pc)
  PROVE  LET f == [top EXCEPT !.pc = pc]
         IN  /\ Fits(top, f) /\ f.pc = pc /\ f.id = top.id /\ f.stmt = top.stmt
             /\ f.at = top.at
<1> DEFINE f == [top EXCEPT !.pc = pc]
<1>1. /\ f \in Frames /\ f.pc = pc /\ f.id = top.id /\ f.stmt = top.stmt
      /\ f.at = top.at /\ f.evaluated = top.evaluated
  BY DEF Frames
<1> HIDE DEF f
<1> QED BY <1>1 DEF Fits, Shape, Tracks, Crashes, f

(* As a step of the thread.                                                *)
LEMMA GoTurn ==
  ASSUME StacksInv, NEW t \in Threads, stack[t] # <<>>, NEW pc \in Pcs,
         Allowed(Top(t).stmt.op, pc), Go(t, pc)
  PROVE  /\ Turn(t, Holds([Top(t) EXCEPT !.pc = pc]))
         /\ pc \notin {"handle", "checked"} => Quiet(stack[t], stack'[t])
<1> DEFINE f == [Top(t) EXCEPT !.pc = pc]
<1>1. Fits(Top(t), f) /\ f.pc = pc BY TopFacts, GoFits
<1>2. Become(t, f) BY DEF Go
<1> HIDE DEF f
<1> QED BY <1>1, <1>2, BecomeTurn DEF f

(* It goes on with its next logger, or ends.                               *)
LEMMA AfterTurn ==
  ASSUME StacksInv, NEW t \in Threads, stack[t] # <<>>, Top(t).stmt.op = "write",
         AfterLogger(t)
  PROVE  Turn(t, {}) /\ Quiet(stack[t], stack'[t])
<1> DEFINE fr == Top(t)  f == [fr EXCEPT !.at = @ + 1, !.pc = "init", !.proceed = FALSE]
<1>1. fr \in Frames /\ Shape(fr) BY TopFacts
<1>2. CASE Pop(t) BY <1>2, PopTurn DEF Crashes
<1>3. CASE fr.at < Len(LoggerIds(fr.stmt)) /\ Become(t, f)
  <2>1. fr.stmt.loggers \in Seq(Loggers) /\ fr.stmt.loggers # <<>> /\ fr.at \in Nat
    BY <1>1 DEF Frames, Framed, StatementsWith
  <2>2. Len(LoggerIds(fr.stmt)) <= Len(fr.stmt.loggers) /\ Len(LoggerIds(fr.stmt)) \in Nat
    BY <2>1 DEF LoggerIds
  <2>3. /\ f \in Frames /\ f.pc = "init" /\ f.stmt = fr.stmt /\ f.at = fr.at + 1
        /\ f.evaluated = fr.evaluated
    <3>1. fr.at + 1 \in Nat \ {0} /\ "init" \in Pcs /\ FALSE \in BOOLEAN BY <2>1 DEF Pcs
    <3> HIDE DEF fr
    <3> QED BY <1>1, <3>1 DEF Frames
  <2> HIDE DEF f, fr
  <2>4. f.at <= Len(f.stmt.loggers) BY <1>3, <2>1, <2>2, <2>3
  <2>5. Fits(fr, f) BY <1>1, <2>3, <2>4 DEF Fits, Shape, Allowed, Tracks, Crashes, fr
  <2>6. Holds(f) = {} BY <2>3 DEF Holds
  <2> QED BY <1>3, <2>3, <2>5, <2>6, BecomeTurn DEF fr
<1> QED BY <1>2, <1>3 DEF AfterLogger

(* What the library logs itself.                                           *)
LEMMA InternalPlain == ASSUME NEW l \in Loggers PROVE Internal(l) \in Plain
BY DEF Internal, Plain, StatementsWith, Operations, Level

(* A name within a statement's is a name.                                  *)
LEMMA WithinIds ==
  ASSUME NEW fr \in Frames PROVE Within(fr) \in Ids
<1>1. fr.id \in Ids /\ fr.calls \in Nat BY DEF Frames
<1>2. Append(fr.id.path, fr.calls + 1) \in Seq(Nat) BY <1>1 DEF Ids
<1> QED BY <1>1, <1>2 DEF Within, Ids

(* A statement without another in it starts at its gate.                   *)
LEMMA FrameFresher ==
  ASSUME NEW fr \in Frames, NEW s \in Plain
  PROVE  LET g == Frame(Within(fr), s)
         IN  Fresher(g) /\ g.stmt = s /\ g.id \in Ids /\ g.at = 1
<1> DEFINE g == Frame(Within(fr), s)  w == Within(fr)
<1>1. w \in Ids BY WithinIds
<1>2. s \in Framed /\ s.inner = NoStmt /\ s.loggers \in Seq(Loggers) \ {<<>>}
  BY DEF Plain, Framed, StatementsWith
<1> HIDE DEF w
<1>3. g = [id |-> w, stmt |-> s, at |-> 1, pc |-> "gate", proceed |-> FALSE,
           first |-> FALSE, msg |-> <<>>, evaluated |-> TRUE, calls |-> 0]
  BY <1>2 DEF Frame, w
<1> HIDE DEF g
<1>4. g \in Frames BY <1>1, <1>2, <1>3 DEF Frames, Pcs
<1>5. 1 <= Len(s.loggers) BY <1>2
<1>6. Shape(g) BY <1>2, <1>3, <1>5 DEF Shape, Allowed
<1> QED BY <1>1, <1>2, <1>3, <1>4, <1>6 DEF Fresher, g

(* One more is executed from it.                                           *)
LEMMA CoveredFits ==
  ASSUME NEW top, NEW fr, Fits(top, fr)
  PROVE  LET f == [fr EXCEPT !.calls = @ + 1]
         IN  /\ Fits(top, f) /\ f.pc = fr.pc /\ f.id = fr.id /\ f.stmt = fr.stmt
             /\ f.at = fr.at /\ Holds(f) = Holds(fr)
<1> DEFINE f == [fr EXCEPT !.calls = @ + 1]
<1>1. fr \in Frames BY DEF Fits
<1>2. /\ f \in Frames /\ f.pc = fr.pc /\ f.id = fr.id /\ f.stmt = fr.stmt
      /\ f.at = fr.at /\ f.evaluated = fr.evaluated
  <2>1. fr.calls + 1 \in Nat BY <1>1 DEF Frames
  <2> QED BY <1>1, <2>1 DEF Frames
<1> HIDE DEF f
<1>3. Fits(top, f) BY <1>2 DEF Fits, Shape, Tracks, Crashes
<1>4. Holds(f) = Holds(fr) BY <1>2 DEF Holds
<1> QED BY <1>2, <1>3, <1>4 DEF f

(* A statement is executed from the uppermost one, as it then stands.      *)
LEMMA ExecuteTurn ==
  ASSUME StacksInv, NEW t \in Threads, stack[t] # <<>>, NEW fr, Fits(Top(t), fr),
         fr.pc \in Waiting, NEW s \in Plain,
         s.op \in {"checkpoint", "complete"} => Len(stack[t]) = 1 /\ ~Tracks(fr),
         Execute(t, fr, s)
  PROVE  /\ Turn(t, Holds(fr))
         /\ ~Tracks(fr) => Quiet(stack[t], stack'[t])
<1> DEFINE f == [fr EXCEPT !.calls = @ + 1]  g == Frame(Within(fr), s)
<1>1. Fits(Top(t), f) /\ f.pc = fr.pc /\ f.stmt = fr.stmt /\ Holds(f) = Holds(fr)
  BY CoveredFits
<1>2. Fresher(g) /\ g.stmt = s BY FrameFresher DEF Fits
<1>3. stack' = [stack EXCEPT ![t] = Front(@) \o <<f, g>>] BY DEF Execute
<1> HIDE DEF f, g
<1>4. Tracks(f) <=> Tracks(fr) BY <1>1 DEF Tracks
<1>5. Tracks(g) => Len(stack[t]) = 1 /\ ~Tracks(f) BY <1>2, <1>4 DEF Tracks
<1> QED BY <1>1, <1>2, <1>3, <1>4, <1>5, CoverTurn

(* The library logs from within a statement.                               *)
LEMMA CallTurn ==
  ASSUME StacksInv, NEW t \in Threads, stack[t] # <<>>, NEW pc \in Pcs \cap Waiting,
         Allowed(Top(t).stmt.op, pc), NEW l \in Loggers, Call(t, pc, Internal(l))
  PROVE  /\ Turn(t, Holds([Top(t) EXCEPT !.pc = pc]))
         /\ ~Tracks(Top(t)) => Quiet(stack[t], stack'[t])
<1> DEFINE fr == [Top(t) EXCEPT !.pc = pc]  s == Internal(l)
<1>1. Fits(Top(t), fr) /\ fr.pc = pc /\ fr.stmt = Top(t).stmt BY TopFacts, GoFits
<1>2. s \in Plain /\ s.op = "write" BY InternalPlain DEF Internal
<1>3. Execute(t, fr, s) BY DEF Call
<1> HIDE DEF fr, s
<1>4. Tracks(fr) <=> Tracks(Top(t)) BY <1>1 DEF Tracks
<1> QED BY <1>1, <1>2, <1>3, <1>4, ExecuteTurn DEF fr

-----------------------------------------------------------------------------
(* Locks.                                                                  *)
Count(st, k) == Cardinality({i \in 1 .. Len(st) : k \in Holds(st[i])})

LockOk(k) ==
  /\ lock[k].owner = Free <=> lock[k].depth = 0
  /\ \A t \in Threads :
       LET held == IF lock[k].owner = t THEN lock[k].depth ELSE 0
       IN  /\ Count(stack[t], k) <= held
           /\ k \notin spoiled => Count(stack[t], k) = held

LockInv ==
  /\ lock \in [Locks -> [owner : Threads \cup {Free}, depth : Nat]]
  /\ spoiled \subseteq Loggers
  /\ \A k \in Locks : LockOk(k)

(* A step takes what it then needs and releases what it needed, or leaves  *)
(* a logger locked.                                                        *)
LockMoves(t, H) ==
  /\ lock' \in [Locks -> [owner : Threads \cup {Free}, depth : Nat]]
  /\ spoiled \subseteq spoiled' /\ spoiled' \subseteq Loggers
  /\ \A k \in Locks :
       \/ /\ lock'[k] = lock[k]
          /\ (k \in H <=> k \in Holds(Top(t))) \/ (k \notin H /\ k \in spoiled')
       \/ /\ CanTake(t, k) /\ lock'[k] = [owner |-> t, depth |-> lock[k].depth + 1]
          /\ k \notin Holds(Top(t)) /\ (k \in H \/ k \in spoiled')
       \/ /\ k \in Holds(Top(t)) /\ k \notin H
          /\ lock'[k] = IF lock[k].depth = 1 THEN [owner |-> Free, depth |-> 0]
                        ELSE [owner |-> lock[k].owner, depth |-> lock[k].depth - 1]

(* What a step of the uppermost statement does to the count of a lock.     *)
LEMMA CountMoves ==
  ASSUME NEW st \in Seq(Frames), st # <<>>, NEW n \in Seq(Frames), NEW H, Turned(st, n, H), NEW k
  PROVE  /\ Count(st, k) \in Nat /\ Count(n, k) \in Nat
         /\ k \in Holds(st[Len(st)]) => Count(st, k) >= 1
         /\ (k \in H <=> k \in Holds(st[Len(st)])) => Count(n, k) = Count(st, k)
         /\ k \in H /\ k \notin Holds(st[Len(st)]) => Count(n, k) = Count(st, k) + 1
         /\ k \notin H /\ k \in Holds(st[Len(st)]) => Count(st, k) = Count(n, k) + 1
<1> DEFINE A == {i \in 1 .. Len(st) : k \in Holds(st[i])}
           B == {i \in 1 .. Len(n) : k \in Holds(n[i])}
           T == Len(st)
           C == A \ {T}
<1>1. T \in Nat \ {0} /\ Len(n) \in Nat OBVIOUS
<1>2. IsFiniteSet(A) /\ IsFiniteSet(B) /\ IsFiniteSet(C)
  <2>1. IsFiniteSet(1 .. T) /\ IsFiniteSet(1 .. Len(n)) BY <1>1, FS_Interval
  <2>2. A \subseteq 1 .. T /\ B \subseteq 1 .. Len(n) /\ C \subseteq 1 .. T OBVIOUS
  <2> QED BY <2>1, <2>2, FS_Subset
<1>3. T \in A <=> k \in Holds(st[Len(st)]) BY <1>1
<1>4. T \in B <=> k \in H BY <1>1 DEF Turned
<1>5. B \ {T} = C
  <2>1. ASSUME NEW i \in B \ {T} PROVE i \in C
    <3>1. i \in 1 .. Len(n) /\ i # T /\ k \in Holds(n[i]) BY <2>1
    <3>2. i <= T
      <4>1. i > Len(st) => Holds(n[i]) = {} BY <3>1 DEF Turned
      <4>2. Holds(n[i]) # {} BY <3>1
      <4> HIDE DEF B, C
      <4> QED BY <4>1, <4>2, <3>1, <1>1
    <3>3. i \in 1 .. T - 1 BY <3>1, <3>2, <1>1
    <3>4. n[i] = st[i] BY <3>3 DEF Turned
    <3> QED BY <3>1, <3>3, <3>4, <1>1
  <2>2. ASSUME NEW i \in C PROVE i \in B \ {T}
    BY <1>1, <2>2 DEF Turned
  <2> QED BY <2>1, <2>2
<1> HIDE DEF A, B, C
<1>6. T \notin C BY DEF C
<1>7. Cardinality(C) \in Nat /\ Cardinality(C \cup {T}) = Cardinality(C) + 1
  BY <1>2, <1>6, FS_CardinalityType, FS_AddElement
<1>8. A = IF T \in A THEN C \cup {T} ELSE C BY DEF C
<1>9. B = IF T \in B THEN C \cup {T} ELSE C BY <1>5
<1>10. Count(st, k) = Cardinality(A) /\ Count(n, k) = Cardinality(B) BY DEF Count, A, B
<1>11. /\ T \in A => Count(st, k) = Cardinality(C) + 1
       /\ T \notin A => Count(st, k) = Cardinality(C)
  BY <1>7, <1>8, <1>10
<1>12. /\ T \in B => Count(n, k) = Cardinality(C) + 1
       /\ T \notin B => Count(n, k) = Cardinality(C)
  BY <1>7, <1>9, <1>10
<1> QED BY <1>3, <1>4, <1>7, <1>11, <1>12

(* A step that moves the locks with its stack keeps them in order.         *)
LEMMA LocksMoved ==
  ASSUME StacksInv, LockInv, NEW t \in Threads, stack[t] # <<>>, NEW H,
         Turn(t, H), LockMoves(t, H)
  PROVE  LockInv'
<1> SUFFICES ASSUME NEW k \in Locks PROVE LockOk(k)' BY DEF LockInv, LockMoves
<1> DEFINE st == stack[t]  n == stack'[t]  top == Holds(Top(t))
           a == Count(st, k)  b == Count(n, k)
<1>1. /\ st \in Seq(Frames) /\ n \in Seq(Frames) /\ Top(t) = st[Len(st)] /\ Turned(st, n, H)
  BY TopFacts DEF Turn
<1>2. /\ a \in Nat /\ b \in Nat
      /\ k \in top => a >= 1
      /\ (k \in H <=> k \in top) => b = a
      /\ k \in H /\ k \notin top => b = a + 1
      /\ k \notin H /\ k \in top => a = b + 1
  BY <1>1, CountMoves
<1>3. /\ lock[k] \in [owner : Threads \cup {Free}, depth : Nat]
      /\ lock'[k] \in [owner : Threads \cup {Free}, depth : Nat]
  BY DEF LockInv, LockMoves
<1>4. LockOk(k) /\ Free \notin Threads BY LogWriterAssumption DEF LockInv
<1>5. /\ a <= IF lock[k].owner = t THEN lock[k].depth ELSE 0
      /\ k \notin spoiled => a = IF lock[k].owner = t THEN lock[k].depth ELSE 0
  BY <1>4 DEF LockOk
<1>6. ASSUME NEW u \in Threads \ {t}
      PROVE  /\ stack'[u] = stack[u] /\ Count(stack[u], k) \in Nat
             /\ Count(stack[u], k) <= IF lock[k].owner = u THEN lock[k].depth ELSE 0
             /\ k \notin spoiled => Count(stack[u], k) = IF lock[k].owner = u THEN lock[k].depth ELSE 0
  <2>1. stack'[u] = stack[u] BY DEF Turn
  <2>2. stack[u] \in Seq(Frames) BY DEF StacksInv
  <2>3. IsFiniteSet({i \in 1 .. Len(stack[u]) : k \in Holds(stack[u][i])})
    <3>1. Len(stack[u]) \in Nat BY <2>2
    <3>2. {i \in 1 .. Len(stack[u]) : k \in Holds(stack[u][i])} \subseteq 1 .. Len(stack[u])
      OBVIOUS
    <3>3. IsFiniteSet(1 .. Len(stack[u])) BY <3>1, FS_Interval
    <3> QED BY <3>2, <3>3, FS_Subset
  <2>4. Count(stack[u], k) \in Nat BY <2>3, FS_CardinalityType DEF Count
  <2> QED BY <2>1, <2>4, <1>4 DEF LockOk
<1>7. k \notin spoiled' => k \notin spoiled BY DEF LockMoves
<1> HIDE DEF a, b, top
<1> SUFFICES /\ lock'[k].owner = Free <=> lock'[k].depth = 0
             /\ b <= IF lock'[k].owner = t THEN lock'[k].depth ELSE 0
             /\ k \notin spoiled' => b = IF lock'[k].owner = t THEN lock'[k].depth ELSE 0
             /\ \A u \in Threads \ {t} :
                  /\ Count(stack[u], k) <= IF lock'[k].owner = u THEN lock'[k].depth ELSE 0
                  /\ k \notin spoiled' =>
                       Count(stack[u], k) = IF lock'[k].owner = u THEN lock'[k].depth ELSE 0
  BY <1>6 DEF LockOk, b
<1>8. CASE lock'[k] = lock[k] /\ (k \in H <=> k \in top)
  BY <1>2, <1>4, <1>5, <1>6, <1>7, <1>8 DEF LockOk
<1>9. CASE lock'[k] = lock[k] /\ k \in top /\ k \notin H /\ k \in spoiled'
  BY <1>2, <1>3, <1>4, <1>5, <1>6, <1>9 DEF LockOk
<1>10. CASE /\ CanTake(t, k) /\ lock'[k] = [owner |-> t, depth |-> lock[k].depth + 1]
            /\ k \notin top /\ (k \in H \/ k \in spoiled')
  <2>1. lock'[k].owner = t /\ lock'[k].depth = lock[k].depth + 1 /\ lock[k].depth \in Nat
    BY <1>3, <1>10
  <2>2. lock[k].owner \in {t, Free} BY <1>10 DEF CanTake
  <2>3. lock[k].owner = Free => lock[k].depth = 0 BY <1>4 DEF LockOk
  <2>4. \A u \in Threads \ {t} : Count(stack[u], k) = 0 BY <2>2, <1>4, <1>6
  <2> QED BY <2>1, <2>2, <2>3, <2>4, <1>2, <1>4, <1>5, <1>7, <1>10
<1>11. CASE /\ k \in top /\ k \notin H
            /\ lock'[k] = IF lock[k].depth = 1 THEN [owner |-> Free, depth |-> 0]
                          ELSE [owner |-> lock[k].owner, depth |-> lock[k].depth - 1]
  <2>1. a >= 1 /\ a = b + 1 BY <1>2, <1>11
  <2>2. lock[k].owner = t /\ lock[k].depth \in Nat /\ lock[k].depth >= a BY <2>1, <1>2, <1>3, <1>5
  <2>3. \A u \in Threads \ {t} : Count(stack[u], k) = 0 BY <2>2, <1>6
  <2>4. CASE lock[k].depth = 1
    <3>1. lock'[k].owner = Free /\ lock'[k].depth = 0 BY <1>11, <2>4
    <3>2. b = 0 BY <2>1, <2>2, <2>4, <1>2
    <3> QED BY <3>1, <3>2, <2>3, <1>4
  <2>5. CASE lock[k].depth # 1
    <3>1. lock'[k].owner = t /\ lock'[k].depth = lock[k].depth - 1
      BY <1>3, <1>11, <2>2, <2>5
    <3> QED BY <3>1, <2>1, <2>2, <2>3, <2>5, <1>2, <1>4, <1>5, <1>7
  <2> QED BY <2>4, <2>5
<1> QED BY <1>8, <1>9, <1>10, <1>11 DEF LockMoves, top

-----------------------------------------------------------------------------
(* What every step but an abort does.                                      *)
Moves(t) == \E H : Turn(t, H) /\ LockMoves(t, H)

(* It leaves performance tracking alone.                                   *)
Calm(t) == Quiet(stack[t], stack'[t]) /\ UNCHANGED performance

Effect(t) ==
  /\ stack[t] # <<>> /\ Moves(t) /\ UNCHANGED <<started, program>>
  /\ stream' \in [Loggers -> Seq(Ids)]

(* The locks H of a statement op that is at pc and whose logger is l.      *)
HeldAt(H, op, pc, l) ==
  /\ op = "write" /\ pc \in {"gate", "init", "missed", "abort"} => H = {}
  /\ op = "write" /\ pc \in {"head", "tail", "dispatch", "release"} => H = {l}
  /\ op = "write" /\ pc \in {"rollfirst", "callback", "roll", "written"} => H = {l, "storage"}
  /\ op \in {"flush", "configure"} /\ pc \in {"gate", "reset", "apply"} => H = {}
  /\ op \in {"flush", "configure"} /\ pc \in {"roll", "flushed"} => H = {l}
  /\ op \in {"checkpoint", "complete"} /\ pc = "gate" => H = {}
  /\ op \in {"checkpoint", "complete"} /\ pc \in {"handle", "checked"} => H = {TrackerOf[l]}
  /\ op \in {"log", "flushAll", "remove", "crash"} => H = {}

(* What a frame holds.                                                     *)
LEMMA HoldsFacts ==
  ASSUME NEW fr PROVE HeldAt(Holds(fr), fr.stmt.op, fr.pc, fr.stmt.loggers[fr.at])
BY DEF Holds, HeldAt

(* What it holds when it has gone on.                                      *)
LEMMA GoHolds ==
  ASSUME NEW fr \in Frames, Shape(fr), NEW pc \in Pcs, Allowed(fr.stmt.op, pc)
  PROVE  HeldAt(Holds([fr EXCEPT !.pc = pc]), fr.stmt.op, pc, fr.stmt.loggers[fr.at])
<1> DEFINE f == [fr EXCEPT !.pc = pc]
<1>1. f.pc = pc /\ f.stmt = fr.stmt /\ f.at = fr.at BY GoFits
<1>2. HeldAt(Holds(f), f.stmt.op, f.pc, f.stmt.loggers[f.at]) BY HoldsFacts
<1> HIDE DEF f
<1> QED BY <1>1, <1>2 DEF f

(* Locks stay,                                                             *)
LEMMA KeepMoves ==
  ASSUME LockInv, NEW t \in Threads, UNCHANGED <<lock, spoiled>>
  PROVE  LockMoves(t, Holds(Top(t)))
BY DEF LockInv, LockMoves

(* one is taken,                                                           *)
LEMMA TakeMoves ==
  ASSUME LockInv, NEW t \in Threads, NEW k \in Locks, CanTake(t, k), lock' = Taken(t, k),
         UNCHANGED spoiled, k \notin Holds(Top(t))
  PROVE  LockMoves(t, Holds(Top(t)) \cup {k})
<1>1. lock \in [Locks -> [owner : Threads \cup {Free}, depth : Nat]] BY DEF LockInv
<1>2. lock' = [lock EXCEPT ![k] = [owner |-> t, depth |-> lock[k].depth + 1]] BY DEF Taken
<1>3. lock' \in [Locks -> [owner : Threads \cup {Free}, depth : Nat]] BY <1>1, <1>2
<1>4. lock'[k] = [owner |-> t, depth |-> lock[k].depth + 1] BY <1>1, <1>2
<1>5. \A j \in Locks \ {k} : lock'[j] = lock[j] BY <1>1, <1>2
<1>6. spoiled \subseteq Loggers BY DEF LockInv
<1> QED BY <1>3, <1>4, <1>5, <1>6 DEF LockMoves

(* A lock the uppermost statement needs is its thread's.                   *)
LEMMA Owner ==
  ASSUME StacksInv, LockInv, NEW t \in Threads, stack[t] # <<>>, NEW k \in Locks,
         k \in Holds(Top(t))
  PROVE  lock[k].owner = t /\ lock[k].depth \in Nat \ {0}
<1>1. stack[t] \in Seq(Frames) /\ Top(t) = stack[t][Len(stack[t])] BY TopFacts
<1>2. Turned(stack[t], stack[t], Holds(Top(t))) BY <1>1 DEF Turned
<1>3. Count(stack[t], k) >= 1 /\ Count(stack[t], k) \in Nat BY <1>1, <1>2, CountMoves
<1>4. /\ Count(stack[t], k) <= IF lock[k].owner = t THEN lock[k].depth ELSE 0
      /\ lock[k].depth \in Nat
  BY DEF LockInv, LockOk
<1> QED BY <1>3, <1>4

(* and one is released.                                                    *)
LEMMA FreeMoves ==
  ASSUME StacksInv, LockInv, NEW t \in Threads, stack[t] # <<>>, NEW k \in Locks,
         k \in Holds(Top(t)), lock' = Released(t, k), UNCHANGED spoiled
  PROVE  LockMoves(t, Holds(Top(t)) \ {k})
<1>1. lock \in [Locks -> [owner : Threads \cup {Free}, depth : Nat]] BY DEF LockInv
<1> DEFINE e == IF lock[k].depth = 1 THEN [owner |-> Free, depth |-> 0]
                ELSE [owner |-> lock[k].owner, depth |-> lock[k].depth - 1]
<1>2. lock' = [lock EXCEPT ![k] = e] BY DEF Released
<1>3. lock[k].depth \in Nat \ {0} BY Owner
<1>4. e \in [owner : Threads \cup {Free}, depth : Nat] BY <1>1, <1>3
<1> HIDE DEF e
<1>5. lock' \in [Locks -> [owner : Threads \cup {Free}, depth : Nat]] BY <1>1, <1>2, <1>4
<1>6. lock'[k] = e BY <1>1, <1>2
<1>7. \A j \in Locks \ {k} : lock'[j] = lock[j] BY <1>1, <1>2
<1>8. spoiled \subseteq Loggers BY DEF LockInv
<1> QED BY <1>5, <1>6, <1>7, <1>8 DEF LockMoves, e

(* A statement that goes on with the locks it has.                         *)
LEMMA GoKeeps ==
  ASSUME StacksInv, LockInv, NEW t \in Threads, stack[t] # <<>>, NEW pc \in Pcs,
         Allowed(Top(t).stmt.op, pc), Go(t, pc), UNCHANGED <<lock, spoiled>>,
         Holds([Top(t) EXCEPT !.pc = pc]) = Holds(Top(t))
  PROVE  Moves(t) /\ (pc \notin {"handle", "checked"} => Quiet(stack[t], stack'[t]))
BY GoTurn, KeepMoves DEF Moves

(* A statement that ends with no lock.                                     *)
LEMMA PopKeeps ==
  ASSUME StacksInv, LockInv, NEW t \in Threads, stack[t] # <<>>, ~Crashes(Top(t)), Pop(t),
         UNCHANGED <<lock, spoiled>>, Holds(Top(t)) = {}
  PROVE  Moves(t) /\ Quiet(stack[t], stack'[t])
BY PopTurn, KeepMoves DEF Moves

-----------------------------------------------------------------------------
(* Each step.  Those that take or release no lock first.                   *)
LEMMA GateEffect ==
  ASSUME StacksInv, LockInv, NEW t \in Threads, NEW through \in BOOLEAN, Gate(t, through)
  PROVE  Effect(t) /\ Calm(t)
<1>1. /\ stack[t] # <<>> /\ Top(t).stmt.op = "write" /\ Top(t).pc = "gate"
      /\ UNCHANGED <<lock, spoiled, stream, performance, started, program>>
  BY DEF Gate, At, Running
<1>2. stream' \in [Loggers -> Seq(Ids)] BY <1>1 DEF StacksInv
<1>3. Top(t) \in Frames /\ Shape(Top(t)) BY <1>1, TopFacts
<1>4. Holds(Top(t)) = {} BY <1>1, HoldsFacts DEF HeldAt
<1>5. CASE Go(t, "init")
  <2>1. "init" \in Pcs /\ Allowed("write", "init") BY DEF Pcs, Allowed
  <2>2. Holds([Top(t) EXCEPT !.pc = "init"]) = {} BY <1>1, <1>3, <2>1, GoHolds DEF HeldAt
  <2>3. Moves(t) /\ Quiet(stack[t], stack'[t]) BY <1>1, <1>4, <1>5, <2>1, <2>2, GoKeeps
  <2> QED BY <1>1, <1>2, <2>3 DEF Effect, Calm
<1>6. CASE Pop(t)
  <2>1. Moves(t) /\ Quiet(stack[t], stack'[t]) BY <1>1, <1>4, <1>6, PopKeeps DEF Crashes
  <2> QED BY <1>1, <1>2, <2>1 DEF Effect, Calm
<1> QED BY <1>5, <1>6 DEF Gate

(* The macros' gates.                                                      *)
LEMMA OccasionalEffect ==
  ASSUME StacksInv, LockInv, NEW t \in Threads,
         Normal(t) \/ Conditional(t) \/ EveryN(t) \/ AfterN(t) \/ NTimes(t)
  PROVE  Effect(t) /\ Calm(t)
<1>1. ASSUME NEW b, Gate(t, b) PROVE Effect(t) /\ Calm(t)
  <2>1. CASE b
    <3>1. Gate(t, TRUE) BY <1>1, <2>1 DEF Gate
    <3> QED BY <3>1, GateEffect
  <2>2. CASE ~b
    <3>1. Gate(t, FALSE) BY <1>1, <2>2 DEF Gate
    <3> QED BY <3>1, GateEffect
  <2> QED BY <2>1, <2>2
<1>2. CASE Normal(t) BY <1>1, <1>2 DEF Normal
<1>3. CASE Conditional(t) BY <1>1, <1>3 DEF Conditional
<1>4. CASE EveryN(t) BY <1>1, <1>4 DEF EveryN, Occasional
<1>5. CASE AfterN(t) BY <1>1, <1>5 DEF AfterN, Occasional
<1>6. CASE NTimes(t) BY <1>1, <1>6 DEF NTimes, Occasional
<1> QED BY <1>2, <1>3, <1>4, <1>5, <1>6

(* Steps that end a statement.                                             *)
LEMMA PopEffect ==
  ASSUME StacksInv, LockInv, NEW t \in Threads,
         Apply(t) \/ FlushAll(t) \/ RemoveLogger(t) \/ Untracked(t)
  PROVE  Effect(t) /\ Calm(t)
<1>1. /\ stack[t] # <<>> /\ Pop(t)
      /\ UNCHANGED <<lock, spoiled, stream, performance, started, program>>
      /\ \/ Top(t).stmt.op = "configure" /\ Top(t).pc = "apply"
         \/ Top(t).stmt.op \in {"flushAll", "remove"}
         \/ Tracks(Top(t)) /\ Top(t).pc = "gate"
  BY DEF Apply, FlushAll, RemoveLogger, Untracked, Tracking, At, Running, Tracks
<1>2. stream' \in [Loggers -> Seq(Ids)] BY <1>1 DEF StacksInv
<1>3. Holds(Top(t)) = {} /\ ~Crashes(Top(t))
  BY <1>1, HoldsFacts DEF HeldAt, Tracks, Crashes
<1>4. Moves(t) /\ Quiet(stack[t], stack'[t]) BY <1>1, <1>3, PopKeeps
<1> QED BY <1>1, <1>2, <1>4 DEF Effect, Calm

(* Files are rolled, lines written and configurations begun.               *)
LEMMA GoEffect ==
  ASSUME StacksInv, LockInv, NEW t \in Threads,
         RollFirst(t) \/ Callback(t) \/ Roll(t) \/ FlushRoll(t) \/ Configure(t)
  PROVE  Effect(t) /\ Calm(t)
<1>1. /\ stack[t] # <<>>
      /\ UNCHANGED <<lock, spoiled, stream, performance, started, program>>
      /\ \/ /\ Top(t).stmt.op = "write" /\ Top(t).pc \in {"rollfirst", "callback", "roll"}
            /\ \E pc \in {"callback", "roll", "written"} : Go(t, pc)
         \/ /\ Top(t).stmt.op \in {"flush", "configure"} /\ Top(t).pc = "roll"
            /\ Go(t, "flushed")
         \/ Top(t).stmt.op = "configure" /\ Top(t).pc = "gate" /\ Go(t, "reset")
  BY DEF RollFirst, Callback, Roll, FlushRoll, Reopen, Configure, At, Running
<1>2. stream' \in [Loggers -> Seq(Ids)] BY <1>1 DEF StacksInv
<1>3. Top(t) \in Frames /\ Shape(Top(t)) BY <1>1, TopFacts
<1> DEFINE op == Top(t).stmt.op
<1>4. PICK pc \in Pcs \ {"handle", "checked"} :
        /\ Go(t, pc) /\ Allowed(op, pc)
        /\ \/ op = "write" /\ Top(t).pc \in {"rollfirst", "callback", "roll"}
                           /\ pc \in {"callback", "roll", "written"}
           \/ op \in {"flush", "configure"} /\ Top(t).pc = "roll" /\ pc = "flushed"
           \/ op = "configure" /\ Top(t).pc = "gate" /\ pc = "reset"
  BY <1>1 DEF Pcs, Allowed
<1>5. Holds([Top(t) EXCEPT !.pc = pc]) = Holds(Top(t))
  <2>1. HeldAt(Holds([Top(t) EXCEPT !.pc = pc]), op, pc, Logger(t))
    BY <1>3, <1>4, GoHolds DEF Logger
  <2>2. HeldAt(Holds(Top(t)), op, Top(t).pc, Logger(t)) BY HoldsFacts DEF Logger
  <2> HIDE DEF op
  <2> QED BY <1>4, <2>1, <2>2 DEF HeldAt
<1>6. Moves(t) /\ Quiet(stack[t], stack'[t]) BY <1>1, <1>4, <1>5, GoKeeps
<1> QED BY <1>1, <1>2, <1>6 DEF Effect, Calm

(* A piece of the text is streamed.                                        *)
LEMMA StreamEffect ==
  ASSUME StacksInv, LockInv, NEW t \in Threads, StreamHead(t) \/ StreamTail(t)
  PROVE  Effect(t) /\ Calm(t)
<1>1. PICK pc \in {"tail", "dispatch"} :
        /\ stack[t] # <<>> /\ Top(t).stmt.op = "write" /\ Top(t).pc \in {"head", "tail"}
        /\ Go(t, pc)
        /\ UNCHANGED <<lock, spoiled, performance, started, program>>
        /\ stream' = IF Top(t).proceed THEN [stream EXCEPT ![Logger(t)] = Append(@, Top(t).id)]
                     ELSE stream
  BY DEF StreamHead, StreamTail, Stream, At, Running
<1>2. Top(t) \in Frames /\ Shape(Top(t)) /\ Logger(t) \in Loggers BY <1>1, TopFacts
<1>3. stream' \in [Loggers -> Seq(Ids)]
  <2>1. Top(t).id \in Ids BY <1>2 DEF Frames
  <2>2. stream \in [Loggers -> Seq(Ids)] BY DEF StacksInv
  <2>3. Append(stream[Logger(t)], Top(t).id) \in Seq(Ids) BY <2>1, <2>2, <1>2
  <2> QED BY <1>1, <2>2, <2>3
<1>4. pc \in Pcs /\ Allowed("write", pc) BY DEF Pcs, Allowed
<1>5. Holds([Top(t) EXCEPT !.pc = pc]) = Holds(Top(t))
  <2>1. HeldAt(Holds([Top(t) EXCEPT !.pc = pc]), "write", pc, Logger(t))
    BY <1>1, <1>2, <1>4, GoHolds DEF Logger
  <2>2. HeldAt(Holds(Top(t)), "write", Top(t).pc, Logger(t)) BY <1>1, HoldsFacts DEF Logger
  <2> QED BY <1>1, <2>1, <2>2 DEF HeldAt
<1>6. Moves(t) /\ Quiet(stack[t], stack'[t]) BY <1>1, <1>4, <1>5, GoKeeps
<1> QED BY <1>1, <1>3, <1>6 DEF Effect, Calm

(* The logger was not there.                                               *)
LEMMA MissedEffect ==
  ASSUME StacksInv, LockInv, NEW t \in Threads, Missed(t)
  PROVE  Effect(t) /\ Calm(t)
<1>1. /\ stack[t] # <<>> /\ Top(t).stmt.op = "write" /\ Top(t).pc = "missed" /\ AfterLogger(t)
      /\ UNCHANGED <<lock, spoiled, stream, performance, started, program>>
  BY DEF Missed, At, Running
<1>2. Holds(Top(t)) = {} BY <1>1, HoldsFacts DEF HeldAt
<1>3. Turn(t, {}) /\ Quiet(stack[t], stack'[t]) BY <1>1, AfterTurn
<1>4. Moves(t) BY <1>1, <1>2, <1>3, KeepMoves DEF Moves
<1> QED BY <1>1, <1>3, <1>4 DEF Effect, Calm, StacksInv

(* Statements that are executed from another.                              *)
LEMMA LoggerMissingEffect ==
  ASSUME StacksInv, LockInv, NEW t \in Threads, LoggerMissing(t)
  PROVE  Effect(t) /\ Calm(t)
<1>1. /\ stack[t] # <<>> /\ Top(t).stmt.op = "write" /\ Top(t).pc = "init"
      /\ Call(t, "missed", Internal(Default))
      /\ UNCHANGED <<lock, spoiled, stream, performance, started, program>>
  BY DEF LoggerMissing, At, Running
<1>2. Top(t) \in Frames /\ Shape(Top(t)) /\ Default \in Loggers
  BY <1>1, TopFacts, LogWriterAssumption
<1>3. "missed" \in Pcs \cap Waiting /\ Allowed("write", "missed")
  BY DEF Pcs, Waiting, Allowed
<1>4. Holds(Top(t)) = {} BY <1>1, HoldsFacts DEF HeldAt
<1>5. Holds([Top(t) EXCEPT !.pc = "missed"]) = {} BY <1>1, <1>2, <1>3, GoHolds DEF HeldAt
<1>6. Turn(t, {}) /\ Quiet(stack[t], stack'[t])
  BY <1>1, <1>2, <1>3, <1>5, CallTurn DEF Tracks
<1>7. Moves(t) BY <1>1, <1>4, <1>6, KeepMoves DEF Moves
<1> QED BY <1>1, <1>6, <1>7 DEF Effect, Calm, StacksInv

(* The message's own statement, which has none in turn.                    *)
LEMMA EvaluateEffect ==
  ASSUME StacksInv, LockInv, NEW t \in Threads, Evaluate(t)
  PROVE  Effect(t) /\ Calm(t)
<1> DEFINE fr == Top(t)  f == [fr EXCEPT !.evaluated = TRUE]
           s == fr.stmt.inner
<1>1. /\ stack[t] # <<>> /\ ~fr.evaluated /\ fr.pc \in {"init", "tail", "missed"}
      /\ Execute(t, f, s)
      /\ UNCHANGED <<lock, spoiled, stream, performance, started, program>>
  BY DEF Evaluate, Running
<1>2. fr \in Frames /\ Shape(fr) BY <1>1, TopFacts
<1>3. s \in Plain
  <2>1. s # NoStmt BY <1>1, <1>2 DEF Shape
  <2> QED BY <2>1, <1>2 DEF Frames, Framed, StatementsWith
<1>4. Len(stack[t]) = 1
  <2>1. Len(stack[t]) \in Nat \ {0} BY <1>1, TopFacts
  <2>2. Len(stack[t]) >= 2 => s = NoStmt
    <3>1. \A i \in 2 .. Len(stack[t]) : stack[t][i].stmt.inner = NoStmt
      BY <1>1, TopFacts DEF StackOk
    <3>2. Top(t) = stack[t][Len(stack[t])] BY <1>1, TopFacts
    <3> QED BY <2>1, <3>1, <3>2
  <2>3. s # NoStmt BY <1>1, <1>2 DEF Shape
  <2> DEFINE k == Len(stack[t])
  <2>4. k \in Nat \ {0} /\ ~(k >= 2) BY <2>1, <2>2, <2>3
  <2> HIDE DEF k
  <2>5. k = 1 BY <2>4
  <2> QED BY <2>5 DEF k
<1>5. fr.stmt.op = "write"
  <2>1. fr.stmt.op \in Operations \cup {"crash"} BY <1>2 DEF Frames, Framed, StatementsWith
  <2> QED BY <2>1, <1>1, <1>2 DEF Shape, Allowed, Operations
<1>6. /\ f \in Frames /\ f.pc = fr.pc /\ f.stmt = fr.stmt /\ f.at = fr.at /\ f.id = fr.id
      /\ f.evaluated = TRUE
  BY <1>2 DEF Frames
<1> HIDE DEF f
<1>7. Fits(fr, f) BY <1>2, <1>6 DEF Fits, Shape, Tracks, Crashes
<1>8. Holds(f) = Holds(fr)
  <2>1. HeldAt(Holds(f), fr.stmt.op, fr.pc, Logger(t)) BY <1>6, HoldsFacts DEF Logger
  <2>2. HeldAt(Holds(fr), fr.stmt.op, fr.pc, Logger(t)) BY HoldsFacts DEF Logger
  <2> HIDE DEF fr
  <2> QED BY <2>1, <2>2, <1>1, <1>5 DEF HeldAt
<1>10. f.pc \in Waiting /\ ~Tracks(f) BY <1>1, <1>5, <1>6 DEF Waiting, Tracks
<1> HIDE DEF s
<1>11. Turn(t, Holds(f)) /\ Quiet(stack[t], stack'[t])
  BY <1>1, <1>3, <1>4, <1>7, <1>10, ExecuteTurn
<1>12. Moves(t) BY <1>1, <1>8, <1>11, KeepMoves DEF Moves
<1> QED BY <1>1, <1>11, <1>12 DEF Effect, Calm, StacksInv

(* A crash is reported.                                                    *)
LEMMA CrashReasonEffect ==
  ASSUME StacksInv, LockInv, NEW t \in Threads, logCrashReason(t)
  PROVE  Effect(t) /\ Calm(t)
<1> DEFINE fr == Top(t)  n == Len(CrashReports)
           pc == IF fr.first \/ n = 1 THEN "abort" ELSE "gate"
           f == [fr EXCEPT !.first = TRUE, !.pc = pc]
           s == CrashReports[IF fr.first THEN n ELSE 1]
<1>1. /\ stack[t] # <<>> /\ fr.stmt.op = "crash" /\ fr.pc = "gate"
      /\ Execute(t, f, s)
      /\ UNCHANGED <<lock, spoiled, stream, performance, started, program>>
  BY DEF logCrashReason, At, Running
<1>2. fr \in Frames /\ Shape(fr) BY <1>1, TopFacts
<1>3. s \in Plain /\ s.op = "write"
  <2> DEFINE i == Internal(Default)  b == [i EXCEPT !.level = "fatal"]
  <2>1. i \in Plain /\ i.op = "write" BY InternalPlain, LogWriterAssumption DEF Internal
  <2>2. b \in Plain /\ b.op = "write"
    <3> HIDE DEF i
    <3> QED BY <2>1 DEF Plain, StatementsWith, Level
  <2>3. CrashReports = <<i, b>> \/ CrashReports = <<b>> BY DEF CrashReports
  <2> HIDE DEF i, b
  <2>4. CASE CrashReports = <<i, b>>
    <3>1. n = 2 /\ CrashReports[1] = i /\ CrashReports[2] = b BY <2>4
    <3>2. s = IF fr.first THEN b ELSE i BY <3>1
    <3> HIDE DEF s
    <3> QED BY <2>1, <2>2, <3>2
  <2>5. CASE CrashReports = <<b>>
    <3>1. n = 1 /\ CrashReports[1] = b BY <2>5
    <3>2. s = b BY <3>1
    <3> HIDE DEF s
    <3> QED BY <2>2, <3>2
  <2> QED BY <2>3, <2>4, <2>5
<1>4. pc \in {"abort", "gate"} /\ TRUE \in BOOLEAN OBVIOUS
<1> HIDE DEF s, pc
<1>5. /\ f \in Frames /\ f.pc = pc /\ f.stmt = fr.stmt /\ f.at = fr.at
      /\ f.evaluated = fr.evaluated
  <2> HIDE DEF fr
  <2> QED BY <1>2, <1>4 DEF Frames, Pcs
<1> HIDE DEF f
<1>6. Fits(fr, f)
  <2>1. Allowed("crash", pc) BY <1>4 DEF Allowed
  <2> HIDE DEF fr
  <2> QED BY <1>1, <1>2, <1>5, <2>1 DEF Fits, Shape, Tracks, Crashes
<1>7. Holds(f) = {} /\ Holds(fr) = {}
  <2>1. HeldAt(Holds(f), "crash", f.pc, f.stmt.loggers[f.at]) BY <1>1, <1>5, HoldsFacts
  <2>2. HeldAt(Holds(fr), "crash", fr.pc, fr.stmt.loggers[fr.at]) BY <1>1, HoldsFacts
  <2> QED BY <2>1, <2>2 DEF HeldAt
<1>9. f.pc \in Waiting /\ ~Tracks(f) BY <1>1, <1>4, <1>5 DEF Waiting, Tracks
<1>10. Turn(t, {}) /\ Quiet(stack[t], stack'[t])
  BY <1>1, <1>3, <1>6, <1>7, <1>9, ExecuteTurn
<1>11. Moves(t) BY <1>1, <1>7, <1>10, KeepMoves DEF Moves
<1> QED BY <1>1, <1>10, <1>11 DEF Effect, Calm, StacksInv

(* A checkpoint is reported.                                               *)
LEMMA ReportEffect ==
  ASSUME StacksInv, LockInv, NEW t \in Threads, Report(t) PROVE Effect(t)
<1>1. /\ stack[t] # <<>> /\ Top(t).stmt.op \in {"checkpoint", "complete"} /\ Top(t).pc = "handle"
      /\ Call(t, "checked", Internal(Logger(t)))
      /\ UNCHANGED <<lock, spoiled, stream, started, program>>
  BY DEF Report, Tracking, At, Running
<1>2. Top(t) \in Frames /\ Shape(Top(t)) /\ Logger(t) \in Loggers BY <1>1, TopFacts
<1>3. "checked" \in Pcs \cap Waiting /\ Allowed(Top(t).stmt.op, "checked")
  BY <1>1 DEF Pcs, Waiting, Allowed
<1>4. HeldAt(Holds([Top(t) EXCEPT !.pc = "checked"]), Top(t).stmt.op, "checked", Logger(t))
  BY <1>2, <1>3, GoHolds DEF Logger
<1>5. HeldAt(Holds(Top(t)), Top(t).stmt.op, "handle", Logger(t)) BY <1>1, HoldsFacts DEF Logger
<1>6. Holds([Top(t) EXCEPT !.pc = "checked"]) = Holds(Top(t)) BY <1>1, <1>4, <1>5 DEF HeldAt
<1>7. Turn(t, Holds(Top(t))) BY <1>1, <1>2, <1>3, <1>6, CallTurn
<1>8. Moves(t) BY <1>1, <1>7, KeepMoves DEF Moves
<1> QED BY <1>1, <1>8 DEF Effect, StacksInv

-----------------------------------------------------------------------------
(* Steps that take a lock.                                                 *)
LEMMA InitializeEffect ==
  ASSUME StacksInv, LockInv, NEW t \in Threads, InitializeLogger(t)
  PROVE  Effect(t) /\ Calm(t)
<1> DEFINE fr == Top(t)  l == Logger(t)  p == Enabled(l)
           pc == IF fr.at = 1 THEN "head" ELSE "dispatch"
           f == [fr EXCEPT !.proceed = p, !.pc = pc]
<1>1. /\ stack[t] # <<>> /\ fr.stmt.op = "write" /\ fr.pc = "init"
      /\ CanTake(t, l) /\ lock' = Taken(t, l) /\ Become(t, f)
      /\ UNCHANGED <<spoiled, stream, performance, started, program>>
  BY DEF InitializeLogger, At, Running
<1>2. fr \in Frames /\ Shape(fr) /\ l \in Loggers BY <1>1, TopFacts
<1>3. p \in BOOLEAN /\ pc \in {"head", "dispatch"} BY DEF Enabled
<1> HIDE DEF p, pc
<1>4. /\ f \in Frames /\ f.pc = pc /\ f.stmt = fr.stmt /\ f.at = fr.at
      /\ f.evaluated = fr.evaluated
  <2> HIDE DEF fr
  <2> QED BY <1>2, <1>3 DEF Frames, Pcs
<1> HIDE DEF f
<1>5. Fits(fr, f)
  <2>1. Allowed("write", pc) BY <1>3 DEF Allowed
  <2> HIDE DEF fr
  <2> QED BY <1>1, <1>2, <1>4, <2>1 DEF Fits, Shape, Tracks, Crashes
<1>6. Holds(f) = {l} /\ Holds(fr) = {}
  <2>1. HeldAt(Holds(f), "write", pc, l) BY <1>1, <1>4, HoldsFacts DEF Logger
  <2>2. HeldAt(Holds(fr), "write", "init", l) BY <1>1, HoldsFacts DEF Logger
  <2> QED BY <1>3, <2>1, <2>2 DEF HeldAt
<1>7. Turn(t, {l}) /\ Quiet(stack[t], stack'[t])
  BY <1>1, <1>3, <1>4, <1>5, <1>6, BecomeTurn
<1>8. LockMoves(t, {l})
  <2>1. l \in Locks BY <1>2 DEF Locks
  <2>2. LockMoves(t, Holds(fr) \cup {l}) BY <1>1, <1>6, <2>1, TakeMoves
  <2>3. Holds(fr) \cup {l} = {l} BY <1>6
  <2> QED BY <2>2, <2>3
<1>9. Moves(t) BY <1>7, <1>8 DEF Moves
<1> QED BY <1>1, <1>7, <1>9 DEF Effect, Calm, StacksInv

(* Arguments are streamed before there is a Writer.                        *)
LEMMA ArgumentsEffect ==
  ASSUME StacksInv, LockInv, NEW t \in Threads, LogArguments(t)
  PROVE  Effect(t) /\ Calm(t)
<1> DEFINE fr == Top(t)  l == Logger(t)  p == Enabled(l)
           f == [fr EXCEPT !.proceed = p, !.stmt.op = "write", !.pc = "tail"]
<1>1. /\ stack[t] # <<>> /\ fr.stmt.op = "log" /\ fr.pc = "gate"
      /\ CanTake(t, l) /\ lock' = Taken(t, l)
      /\ stream' = [stream EXCEPT ![l] = Append(@, fr.id)]
      /\ \/ Pop(t) /\ spoiled' = spoiled \cup {l}
         \/ Become(t, f) /\ UNCHANGED spoiled
      /\ UNCHANGED <<performance, started, program>>
  BY DEF LogArguments, At, Running
<1>2. fr \in Frames /\ Shape(fr) /\ l \in Loggers BY <1>1, TopFacts
<1>3. stream' \in [Loggers -> Seq(Ids)]
  <2>1. fr.id \in Ids BY <1>2 DEF Frames
  <2>2. stream \in [Loggers -> Seq(Ids)] BY DEF StacksInv
  <2>3. Append(stream[l], fr.id) \in Seq(Ids) BY <2>1, <2>2, <1>2
  <2> HIDE DEF l, fr
  <2> QED BY <1>1, <2>2, <2>3
<1>4. Holds(fr) = {} BY <1>1, HoldsFacts DEF HeldAt
<1>5. l \in Locks BY <1>2 DEF Locks
<1>6. CASE Pop(t) /\ spoiled' = spoiled \cup {l}
  <2>1. Turn(t, {}) /\ Quiet(stack[t], stack'[t]) BY <1>1, <1>6, PopTurn DEF Crashes
  <2>2. LockMoves(t, {})
    <3>1. lock \in [Locks -> [owner : Threads \cup {Free}, depth : Nat]] /\ spoiled \subseteq Loggers
      BY DEF LockInv
    <3> HIDE DEF l, fr
    <3>2. lock' = [lock EXCEPT ![l] = [owner |-> t, depth |-> lock[l].depth + 1]]
      BY <1>1 DEF Taken
    <3>3. lock' \in [Locks -> [owner : Threads \cup {Free}, depth : Nat]]
      BY <1>5, <3>1, <3>2
    <3>4. lock'[l] = [owner |-> t, depth |-> lock[l].depth + 1] BY <1>5, <3>1, <3>2
    <3>5. \A k \in Locks \ {l} : lock'[k] = lock[k] BY <3>1, <3>2
    <3>6. spoiled \subseteq spoiled' /\ spoiled' \subseteq Loggers /\ l \in spoiled'
      BY <1>2, <1>6, <3>1
    <3> QED BY <1>1, <1>4, <3>3, <3>4, <3>5, <3>6 DEF LockMoves, fr
  <2>3. Moves(t) BY <2>1, <2>2 DEF Moves
  <2> QED BY <1>1, <1>3, <2>1, <2>3 DEF Effect, Calm
<1>7. CASE Become(t, f) /\ UNCHANGED spoiled
  <2>1. p \in BOOLEAN BY DEF Enabled
  <2> HIDE DEF p
  <2>2. fr.stmt \in Framed BY <1>2 DEF Frames
  <2> DEFINE s == [fr.stmt EXCEPT !.op = "write"]
  <2>3. s \in Framed /\ s.op = "write" /\ s.loggers = fr.stmt.loggers /\ s.inner = fr.stmt.inner
    BY <2>2 DEF Framed, StatementsWith, Operations
  <2>4. f = [fr EXCEPT !.proceed = p, !.stmt = s, !.pc = "tail"]
    BY <1>2 DEF Frames
  <2> HIDE DEF s, f
  <2>5. /\ f \in Frames /\ f.pc = "tail" /\ f.stmt = s /\ f.at = fr.at
        /\ f.evaluated = fr.evaluated
    <3> HIDE DEF fr
    <3> QED BY <1>2, <2>1, <2>3, <2>4 DEF Frames, Pcs
  <2>6. Fits(fr, f)
    <3> HIDE DEF fr
    <3> QED BY <1>1, <1>2, <2>3, <2>5 DEF Fits, Shape, Allowed, Tracks, Crashes
  <2>7. Holds(f) = {l}
    <3>1. HeldAt(Holds(f), "write", "tail", l) BY <2>3, <2>5, HoldsFacts DEF Logger
    <3> QED BY <3>1 DEF HeldAt
  <2>8. Turn(t, {l}) /\ Quiet(stack[t], stack'[t])
    BY <1>1, <1>7, <2>5, <2>6, <2>7, BecomeTurn
  <2>9. LockMoves(t, Holds(fr) \cup {l}) BY <1>1, <1>4, <1>5, <1>7, TakeMoves
  <2>10. Holds(fr) \cup {l} = {l} BY <1>4
  <2>11. Moves(t) BY <2>8, <2>9, <2>10 DEF Moves
  <2> QED BY <1>1, <1>3, <2>8, <2>11 DEF Effect, Calm
<1> QED BY <1>1, <1>6, <1>7

(* Storage's lock is the second.                                           *)
LEMMA DispatchEffect ==
  ASSUME StacksInv, LockInv, NEW t \in Threads, Dispatch(t)
  PROVE  Effect(t) /\ Calm(t)
<1> DEFINE fr == Top(t)  l == Logger(t)
           msg == IF fr.first THEN fr.msg ELSE stream[l]
           pc == IF Has("StrictLogFileSizeCheck") /\ TooLarge(FileOf[l]) THEN "rollfirst"
                 ELSE "callback"
           f == [fr EXCEPT !.first = TRUE, !.msg = msg, !.pc = pc]
<1>1. /\ stack[t] # <<>> /\ fr.stmt.op = "write" /\ fr.pc = "dispatch"
      /\ CanTake(t, "storage") /\ lock' = Taken(t, "storage") /\ Become(t, f)
      /\ stream' = IF fr.first THEN [stream EXCEPT ![l] = @ \o fr.msg] ELSE stream
      /\ UNCHANGED <<spoiled, performance, started, program>>
  BY DEF Dispatch, At, Running
<1>2. fr \in Frames /\ Shape(fr) /\ l \in Loggers BY <1>1, TopFacts
<1>3. fr.msg \in Seq(Ids) /\ stream \in [Loggers -> Seq(Ids)]
  BY <1>2 DEF Frames, StacksInv
<1>4. msg \in Seq(Ids) /\ pc \in {"rollfirst", "callback"} BY <1>2, <1>3
<1>5. stream' \in [Loggers -> Seq(Ids)]
  <2>1. stream[l] \o fr.msg \in Seq(Ids) BY <1>2, <1>3
  <2> HIDE DEF l, fr
  <2> QED BY <1>1, <1>3, <2>1
<1> HIDE DEF msg, pc
<1>6. /\ f \in Frames /\ f.pc = pc /\ f.stmt = fr.stmt /\ f.at = fr.at
      /\ f.evaluated = fr.evaluated
  <2> HIDE DEF fr
  <2> QED BY <1>2, <1>4 DEF Frames, Pcs
<1> HIDE DEF f
<1>7. Fits(fr, f)
  <2>1. Allowed("write", pc) BY <1>4 DEF Allowed
  <2> HIDE DEF fr
  <2> QED BY <1>1, <1>2, <1>6, <2>1 DEF Fits, Shape, Tracks, Crashes
<1>8. Holds(f) = {l, "storage"} /\ Holds(fr) = {l}
  <2>1. HeldAt(Holds(f), "write", pc, l) BY <1>1, <1>6, HoldsFacts DEF Logger
  <2>2. HeldAt(Holds(fr), "write", "dispatch", l) BY <1>1, HoldsFacts DEF Logger
  <2> QED BY <1>4, <2>1, <2>2 DEF HeldAt
<1>9. Turn(t, {l, "storage"}) /\ Quiet(stack[t], stack'[t])
  BY <1>1, <1>4, <1>6, <1>7, <1>8, BecomeTurn
<1>10. l # "storage" /\ "storage" \in Locks BY <1>2, LogWriterAssumption DEF Locks
<1>11. LockMoves(t, Holds(fr) \cup {"storage"}) BY <1>1, <1>8, <1>10, TakeMoves
<1>12. Holds(fr) \cup {"storage"} = {l, "storage"} BY <1>8
<1>13. Moves(t) BY <1>9, <1>11, <1>12 DEF Moves
<1> QED BY <1>1, <1>5, <1>9, <1>13 DEF Effect, Calm

(* A flush has the logger's lock only.                                     *)
LEMMA FlushEffect ==
  ASSUME StacksInv, LockInv, NEW t \in Threads, FlushLogger(t)
  PROVE  Effect(t) /\ Calm(t)
<1> DEFINE fr == Top(t)  l == Logger(t)
           pc == IF TooLarge(FileOf[l]) THEN "roll" ELSE "flushed"
<1>1. /\ stack[t] # <<>> /\ Go(t, pc) /\ CanTake(t, l) /\ lock' = Taken(t, l)
      /\ (fr.stmt.op = "flush" /\ fr.pc = "gate") \/ (fr.stmt.op = "configure" /\ fr.pc = "reset")
      /\ UNCHANGED <<stream, spoiled, performance, started, program>>
  <2> DEFINE op == fr.stmt.op  at == fr.pc
  <2>1. <<op, at>> = <<"flush", "gate">> \/ <<op, at>> = <<"configure", "reset">>
    BY Zenon DEF FlushLogger, Flushing
  <2> HIDE DEF op, at
  <2>2. <<op, at>> = <<"flush", "gate">> => op = "flush" /\ at = "gate" OBVIOUS
  <2>3. <<op, at>> = <<"configure", "reset">> => op = "configure" /\ at = "reset" OBVIOUS
  <2>4. (op = "flush" /\ at = "gate") \/ (op = "configure" /\ at = "reset")
    BY <2>1, <2>2, <2>3
  <2> QED BY <2>4 DEF FlushLogger, Running, op, at
<1>a. pc \in {"roll", "flushed"} OBVIOUS
<1> HIDE DEF pc
<1>2. fr \in Frames /\ Shape(fr) /\ l \in Loggers BY <1>1, TopFacts
<1>3. pc \in Pcs /\ Allowed(fr.stmt.op, pc) BY <1>1, <1>a DEF Pcs, Allowed
<1>4. Holds([fr EXCEPT !.pc = pc]) = {l} /\ Holds(fr) = {}
  <2>1. HeldAt(Holds([fr EXCEPT !.pc = pc]), fr.stmt.op, pc, l) BY <1>2, <1>3, GoHolds DEF Logger
  <2>2. HeldAt(Holds(fr), fr.stmt.op, fr.pc, l) BY HoldsFacts DEF Logger
  <2> HIDE DEF fr
  <2> QED BY <1>1, <1>a, <2>1, <2>2 DEF HeldAt
<1>5. Turn(t, {l}) /\ Quiet(stack[t], stack'[t]) BY <1>1, <1>a, <1>3, <1>4, GoTurn
<1>6. l \in Locks BY <1>2 DEF Locks
<1>7. LockMoves(t, Holds(fr) \cup {l}) BY <1>1, <1>4, <1>6, TakeMoves
<1>8. Holds(fr) \cup {l} = {l} BY <1>4
<1>9. Moves(t) BY <1>5, <1>7, <1>8 DEF Moves
<1> QED BY <1>1, <1>5, <1>9 DEF Effect, Calm, StacksInv

(* A checkpoint takes its tracker's lock.                                  *)
LEMMA CheckpointEffect ==
  ASSUME StacksInv, LockInv, NEW t \in Threads, Checkpoint(t) PROVE Effect(t)
<1> DEFINE fr == Top(t)  l == Logger(t)  k == Tracker(t)
<1>1. /\ stack[t] # <<>> /\ Go(t, "handle") /\ CanTake(t, k) /\ lock' = Taken(t, k)
      /\ fr.stmt.op \in {"checkpoint", "complete"} /\ fr.pc = "gate"
      /\ UNCHANGED <<stream, spoiled, started, program>>
  BY DEF Checkpoint, Tracking, At, Running
<1>2. fr \in Frames /\ Shape(fr) /\ l \in Loggers BY <1>1, TopFacts
<1>3. "handle" \in Pcs /\ Allowed(fr.stmt.op, "handle") BY <1>1 DEF Pcs, Allowed
<1>4. k = TrackerOf[l] /\ k \in Locks BY <1>2, LogWriterAssumption DEF Tracker, Locks
<1>5. Holds([fr EXCEPT !.pc = "handle"]) = {k} /\ Holds(fr) = {}
  <2>1. HeldAt(Holds([fr EXCEPT !.pc = "handle"]), fr.stmt.op, "handle", l)
    BY <1>2, <1>3, GoHolds DEF Logger
  <2>2. HeldAt(Holds(fr), fr.stmt.op, fr.pc, l) BY HoldsFacts DEF Logger
  <2> HIDE DEF fr, l, k
  <2> QED BY <1>1, <1>4, <2>1, <2>2 DEF HeldAt
<1>6. Turn(t, {k}) BY <1>1, <1>3, <1>5, GoTurn
<1>7. LockMoves(t, Holds(fr) \cup {k}) BY <1>1, <1>4, <1>5, TakeMoves
<1>8. Holds(fr) \cup {k} = {k} BY <1>5
<1>9. Moves(t) BY <1>6, <1>7, <1>8 DEF Moves
<1> QED BY <1>1, <1>9 DEF Effect, StacksInv

-----------------------------------------------------------------------------
(* Steps that release a lock.  A logger that does not proceed is left.     *)
LEMMA SkipEffect ==
  ASSUME StacksInv, LockInv, NEW t \in Threads, Skip(t)
  PROVE  Effect(t) /\ Calm(t)
<1> DEFINE fr == Top(t)  l == Logger(t)
<1>1. /\ stack[t] # <<>> /\ fr.stmt.op = "write" /\ fr.pc = "dispatch"
      /\ stream' = [stream EXCEPT ![l] = <<>>] /\ lock' = Released(t, l) /\ AfterLogger(t)
      /\ UNCHANGED <<spoiled, performance, started, program>>
  BY DEF Skip, At, Running, LoggerReleased
<1>2. l \in Loggers /\ l \in Locks BY <1>1, TopFacts DEF Locks
<1>3. Holds(fr) = {l} BY <1>1, HoldsFacts DEF HeldAt, Logger
<1>4. Turn(t, {}) /\ Quiet(stack[t], stack'[t]) BY <1>1, AfterTurn
<1>5. LockMoves(t, Holds(fr) \ {l}) BY <1>1, <1>2, <1>3, FreeMoves
<1>6. Holds(fr) \ {l} = {} BY <1>3
<1>7. Moves(t) BY <1>4, <1>5, <1>6 DEF Moves
<1>8. stream' \in [Loggers -> Seq(Ids)] BY <1>1, <1>2 DEF StacksInv
<1> QED BY <1>1, <1>4, <1>7, <1>8 DEF Effect, Calm

(* The line is written, Storage's lock goes.                               *)
LEMMA UndispatchEffect ==
  ASSUME StacksInv, LockInv, NEW t \in Threads, Undispatch(t)
  PROVE  Effect(t) /\ Calm(t)
<1> DEFINE fr == Top(t)  l == Logger(t)
<1>1. /\ stack[t] # <<>> /\ fr.stmt.op = "write" /\ fr.pc = "written"
      /\ lock' = Released(t, "storage") /\ Go(t, "release")
      /\ UNCHANGED <<stream, spoiled, performance, started, program>>
  BY DEF Undispatch, At, Running
<1>2. fr \in Frames /\ Shape(fr) /\ l \in Loggers BY <1>1, TopFacts
<1>3. "storage" \in Locks /\ l # "storage" BY <1>2, LogWriterAssumption DEF Locks
<1>4. "release" \in Pcs /\ Allowed("write", "release") BY DEF Pcs, Allowed
<1>5. Holds(fr) = {l, "storage"} BY <1>1, HoldsFacts DEF HeldAt, Logger
<1>6. Holds([fr EXCEPT !.pc = "release"]) = {l}
  BY <1>1, <1>2, <1>4, GoHolds DEF HeldAt, Logger
<1>7. Turn(t, {l}) /\ Quiet(stack[t], stack'[t]) BY <1>1, <1>4, <1>6, GoTurn
<1>8. LockMoves(t, Holds(fr) \ {"storage"}) BY <1>1, <1>3, <1>5, FreeMoves
<1>9. Holds(fr) \ {"storage"} = {l} BY <1>3, <1>5
<1>10. Moves(t) BY <1>7, <1>8, <1>9 DEF Moves
<1> QED BY <1>1, <1>7, <1>10 DEF Effect, Calm, StacksInv

(* The logger's lock goes, and the statement to its next logger, its end   *)
(* or the abort.                                                           *)
LEMMA ReleaseEffect ==
  ASSUME StacksInv, LockInv, NEW t \in Threads, Release(t)
  PROVE  Effect(t) /\ Calm(t)
<1> DEFINE fr == Top(t)  l == Logger(t)
<1>1. /\ stack[t] # <<>> /\ fr.stmt.op = "write" /\ fr.pc = "release"
      /\ stream' = [stream EXCEPT ![l] = <<>>] /\ lock' = Released(t, l)
      /\ Call(t, "abort", Internal(Default)) \/ AfterLogger(t)
      /\ UNCHANGED <<spoiled, performance, started, program>>
  BY DEF Release, At, Running, LoggerReleased
<1>2. fr \in Frames /\ Shape(fr) /\ l \in Loggers /\ l \in Locks
  BY <1>1, TopFacts DEF Locks
<1>3. Holds(fr) = {l} BY <1>1, HoldsFacts DEF HeldAt, Logger
<1>4. Turn(t, {}) /\ Quiet(stack[t], stack'[t])
  <2>1. CASE AfterLogger(t) BY <1>1, <2>1, AfterTurn
  <2>2. CASE Call(t, "abort", Internal(Default))
    <3>1. "abort" \in Pcs \cap Waiting /\ Allowed("write", "abort")
          /\ Default \in Loggers
      BY LogWriterAssumption DEF Pcs, Waiting, Allowed
    <3>2. Holds([fr EXCEPT !.pc = "abort"]) = {} BY <1>1, <1>2, <3>1, GoHolds DEF HeldAt
    <3>3. ~Tracks(fr) BY <1>1 DEF Tracks
    <3> QED BY <1>1, <2>2, <3>1, <3>2, <3>3, CallTurn
  <2> QED BY <1>1, <2>1, <2>2
<1>5. LockMoves(t, Holds(fr) \ {l}) BY <1>1, <1>2, <1>3, FreeMoves
<1>6. Holds(fr) \ {l} = {} BY <1>3
<1>7. Moves(t) BY <1>4, <1>5, <1>6 DEF Moves
<1>8. stream' \in [Loggers -> Seq(Ids)] BY <1>1, <1>2 DEF StacksInv
<1> QED BY <1>1, <1>4, <1>7, <1>8 DEF Effect, Calm

(* A callback throws: Storage's lock goes, the logger's stays.             *)
LEMMA ThrowEffect ==
  ASSUME StacksInv, LockInv, NEW t \in Threads, CallbackThrows(t)
  PROVE  Effect(t) /\ Calm(t)
<1> DEFINE fr == Top(t)  l == Logger(t)
<1>1. /\ stack[t] # <<>> /\ fr.pc \in {"callback", "written"}
      /\ lock' = Released(t, "storage") /\ AfterLogger(t) /\ spoiled' = spoiled \cup {l}
      /\ UNCHANGED <<stream, performance, started, program>>
  BY DEF CallbackThrows, Running
<1>2. fr \in Frames /\ Shape(fr) /\ l \in Loggers BY <1>1, TopFacts
<1>3. fr.stmt.op = "write"
  <2>1. fr.stmt.op \in Operations \cup {"crash"} BY <1>2 DEF Frames, Framed, StatementsWith
  <2> QED BY <2>1, <1>1, <1>2 DEF Shape, Allowed, Operations
<1>4. "storage" \in Locks /\ l # "storage" BY <1>2, LogWriterAssumption DEF Locks
<1>5. Holds(fr) = {l, "storage"} BY <1>1, <1>3, HoldsFacts DEF HeldAt, Logger
<1>6. Turn(t, {}) /\ Quiet(stack[t], stack'[t]) BY <1>1, <1>3, AfterTurn
<1>7. LockMoves(t, {})
  <2>1. lock \in [Locks -> [owner : Threads \cup {Free}, depth : Nat]]
        /\ spoiled \subseteq Loggers
    BY DEF LockInv
  <2> DEFINE k == "storage"
             e == IF lock[k].depth = 1 THEN [owner |-> Free, depth |-> 0]
                  ELSE [owner |-> lock[k].owner, depth |-> lock[k].depth - 1]
  <2>2. lock' = [lock EXCEPT ![k] = e] BY <1>1 DEF Released
  <2>3. lock[k].depth \in Nat \ {0} BY <1>1, <1>4, <1>5, Owner
  <2>4. e \in [owner : Threads \cup {Free}, depth : Nat] BY <1>4, <2>1, <2>3
  <2> HIDE DEF e, fr, l
  <2>5. lock' \in [Locks -> [owner : Threads \cup {Free}, depth : Nat]]
    BY <1>4, <2>1, <2>2, <2>4
  <2>6. lock'[k] = e BY <1>4, <2>1, <2>2
  <2>7. \A j \in Locks \ {k} : lock'[j] = lock[j] BY <2>1, <2>2
  <2>8. spoiled \subseteq spoiled' /\ spoiled' \subseteq Loggers /\ l \in spoiled'
    BY <1>1, <1>2, <2>1
  <2>9. Holds(Top(t)) = {l, "storage"} BY <1>5 DEF fr
  <2>10. ASSUME NEW j \in Locks \ {k} 
         PROVE  lock'[j] = lock[j] /\ ((j \in {} <=> j \in Holds(Top(t))) \/ (j \notin {} /\ j \in spoiled'))
    BY <2>7, <2>8, <2>9
  <2>11. k \in Holds(Top(t)) /\ k \notin {} /\ lock'[k] = e BY <2>6, <2>9
  <2> QED BY <2>5, <2>8, <2>10, <2>11 DEF LockMoves, e
<1>8. Moves(t) BY <1>6, <1>7 DEF Moves
<1> QED BY <1>1, <1>6, <1>8 DEF Effect, Calm, StacksInv

(* A flush ends, by itself or before the configuration.                    *)
LEMMA FlushEndsEffect ==
  ASSUME StacksInv, LockInv, NEW t \in Threads, FlushEnds(t)
  PROVE  Effect(t) /\ Calm(t)
<1> DEFINE fr == Top(t)  l == Logger(t)
<1>1. /\ stack[t] # <<>> /\ fr.stmt.op \in {"flush", "configure"} /\ fr.pc = "flushed"
      /\ lock' = Released(t, l)
      /\ Pop(t) \/ (fr.stmt.op = "configure" /\ Go(t, "apply"))
      /\ UNCHANGED <<stream, spoiled, performance, started, program>>
  BY DEF FlushEnds, At, Running
<1>2. fr \in Frames /\ Shape(fr) /\ l \in Loggers /\ l \in Locks
  BY <1>1, TopFacts DEF Locks
<1>3. Holds(fr) = {l} BY <1>1, HoldsFacts DEF HeldAt, Logger
<1>4. Turn(t, {}) /\ Quiet(stack[t], stack'[t])
  <2>1. CASE Pop(t) BY <1>1, <2>1, PopTurn DEF Crashes
  <2>2. CASE fr.stmt.op = "configure" /\ Go(t, "apply")
    <3>1. "apply" \in Pcs /\ Allowed("configure", "apply") BY DEF Pcs, Allowed
    <3>2. Holds([fr EXCEPT !.pc = "apply"]) = {} BY <1>2, <2>2, <3>1, GoHolds DEF HeldAt
    <3> QED BY <1>1, <2>2, <3>1, <3>2, GoTurn
  <2> QED BY <1>1, <2>1, <2>2
<1>5. LockMoves(t, Holds(fr) \ {l}) BY <1>1, <1>2, <1>3, FreeMoves
<1>6. Holds(fr) \ {l} = {} BY <1>3
<1>7. Moves(t) BY <1>4, <1>5, <1>6 DEF Moves
<1> QED BY <1>1, <1>4, <1>7 DEF Effect, Calm, StacksInv

(* A checkpoint ends.                                                      *)
LEMMA CheckedEffect ==
  ASSUME StacksInv, LockInv, NEW t \in Threads, Checked(t)
  PROVE  Effect(t) /\ Quiet(stack[t], stack'[t])
<1> DEFINE fr == Top(t)  k == Tracker(t)
<1>1. /\ stack[t] # <<>> /\ fr.stmt.op \in {"checkpoint", "complete"} /\ fr.pc = "checked"
      /\ lock' = Released(t, k) /\ Pop(t)
      /\ UNCHANGED <<stream, spoiled, started, program>>
  BY DEF Checked, Tracking, At, Running
<1>2. Logger(t) \in Loggers BY <1>1, TopFacts
<1>3. k \in Locks BY <1>2, LogWriterAssumption DEF Locks, Tracker
<1>4. Holds(fr) = {k} BY <1>1, HoldsFacts DEF HeldAt, Logger, Tracker
<1>5. Turn(t, {}) /\ Quiet(stack[t], stack'[t]) BY <1>1, PopTurn DEF Crashes
<1>6. LockMoves(t, Holds(fr) \ {k}) BY <1>1, <1>3, <1>4, FreeMoves
<1>7. Holds(fr) \ {k} = {} BY <1>4
<1>8. Moves(t) BY <1>5, <1>6, <1>7 DEF Moves
<1> QED BY <1>1, <1>5, <1>8 DEF Effect, StacksInv

-----------------------------------------------------------------------------
(* A crash comes on top of what the thread executes.                       *)
LEMMA CrashEffect ==
  ASSUME StacksInv, LockInv, NEW t \in Threads, Crash(t)
  PROVE  /\ Effect(t) /\ UNCHANGED performance
         /\ stack[t] # <<>> /\ Len(stack'[t]) = Len(stack[t]) + 1
         /\ \A i \in 1 .. Len(stack[t]) : stack'[t][i] = stack[t][i]
         /\ Crashes(stack'[t][Len(stack[t]) + 1])
<1> DEFINE st == stack[t]
           s == [Internal(Default) EXCEPT !.op = "crash"]
           w == Within(Top(t))
           g == Frame(w, s)
           n == Append(st, g)
<1>1. /\ st # <<>> /\ stack' = [stack EXCEPT ![t] = n]
      /\ UNCHANGED <<lock, spoiled, stream, performance, started, program>>
  BY DEF Crash, Running
<1>2. st \in Seq(Frames) /\ StackOk(st) /\ Len(st) \in Nat \ {0} /\ Top(t) = st[Len(st)]
      /\ Top(t) \in Frames
  BY <1>1, TopFacts
<1>3. s \in Framed /\ s.op = "crash" /\ s.inner = NoStmt /\ s.loggers = <<Default>>
  <2>1. Default \in Loggers BY LogWriterAssumption
  <2> DEFINE i == Internal(Default)
  <2>2. i \in Plain /\ i.inner = NoStmt /\ i.loggers = <<Default>>
    BY <2>1, InternalPlain DEF Internal
  <2> HIDE DEF i
  <2>3. s = [i EXCEPT !.op = "crash"] BY DEF i
  <2> HIDE DEF s
  <2> QED BY <2>2, <2>3 DEF Plain, Framed, StatementsWith
<1>4. w \in Ids BY <1>2, WithinIds
<1> HIDE DEF s, w
<1>5. g = [id |-> w, stmt |-> s, at |-> 1, pc |-> "gate", proceed |-> FALSE,
           first |-> FALSE, msg |-> <<>>, evaluated |-> TRUE, calls |-> 0]
  BY <1>3 DEF Frame
<1> HIDE DEF g
<1>6. g \in Frames BY <1>3, <1>4, <1>5 DEF Frames, Pcs
<1>7. Shape(g)
  <2>1. Len(s.loggers) = 1 BY <1>3
  <2>2. Allowed("crash", "gate") BY DEF Allowed
  <2>3. g.at = 1 /\ g.stmt = s /\ g.pc = "gate" /\ g.evaluated = TRUE BY <1>5
  <2>4. s.op = "crash" BY <1>3
  <2>5. g.at <= Len(g.stmt.loggers)
    <3>1. Len(g.stmt.loggers) = 1 BY <2>1, <2>3, Zenon
    <3>2. g.at = 1 BY <2>3
    <3>3. 1 <= 1 OBVIOUS
    <3> QED BY <3>1, <3>2, <3>3, Zenon
  <2>6. Allowed(g.stmt.op, g.pc) BY <2>2, <2>3, <2>4
  <2> QED BY <2>3, <2>5, <2>6 DEF Shape
<1>8. Fresher(g) /\ Crashes(g) /\ ~Tracks(g)
  BY <1>3, <1>5, <1>6, <1>7 DEF Fresher, Crashes, Tracks
<1>9. StackOk(n) BY <1>2, <1>8, PushOk
<1>10. n \in Seq(Frames) /\ Len(n) = Len(st) + 1 /\ n[Len(st) + 1] = g
       /\ \A i \in 1 .. Len(st) : n[i] = st[i]
  BY <1>2, <1>6, PushSeq
<1> HIDE DEF n
<1>11. stack'[t] = n /\ stack' \in [Threads -> Seq(Frames)]
       /\ \A u \in Threads \ {t} : stack'[u] = stack[u]
  BY <1>1, <1>10 DEF StacksInv
<1>12. Holds(g) = {} BY <1>5 DEF Holds
<1>13. Turned(st, n, Holds(Top(t))) BY <1>2, <1>10, <1>12 DEF Turned
<1>14. Turn(t, Holds(Top(t))) BY <1>9, <1>11, <1>13 DEF Turn
<1>15. LockMoves(t, Holds(Top(t))) BY <1>1, KeepMoves
<1>16. Moves(t) BY <1>14, <1>15 DEF Moves
<1>17. stream' \in [Loggers -> Seq(Ids)] BY <1>1 DEF StacksInv
<1>18. Effect(t) BY <1>1, <1>16, <1>17 DEF Effect
<1> QED BY <1>1, <1>8, <1>10, <1>11, <1>18

(* A thread begins a statement.                                            *)
LEMMA BeginEffect ==
  ASSUME StacksInv, LockInv, NEW t \in Threads, Begin(t)
  PROVE  /\ StacksInv' /\ LockInv' /\ UNCHANGED performance
         /\ stack[t] = <<>> /\ Len(stack'[t]) = 1 /\ stack'[t][1].pc = "gate"
         /\ \A u \in Threads \ {t} : stack'[u] = stack[u]
<1>1. PICK s \in program.statements :
        /\ stack[t] = <<>> /\ started' = [started EXCEPT ![t] = @ + 1]
        /\ stack' = [stack EXCEPT ![t] =
                       <<Frame([by |-> t, no |-> started'[t], path |-> <<>>], s)>>]
        /\ UNCHANGED <<lock, spoiled, stream, performance, program>>
  BY DEF Begin
<1> DEFINE id == [by |-> t, no |-> started'[t], path |-> <<>>]  g == Frame(id, s)
           e == (s.inner = NoStmt)
<1>2. started' \in [Threads -> Nat] BY <1>1 DEF StacksInv
<1>3. id \in Ids BY <1>2 DEF Ids
<1>4. s \in Statements BY LogWriterAssumption DEF StacksInv
<1>5. s \in Framed /\ s.loggers \in Seq(Loggers) \ {<<>>} /\ s.op \in Operations
  BY <1>4 DEF Statements, Framed, StatementsWith
<1>6. e \in BOOLEAN /\ (~e => s.inner # NoStmt) OBVIOUS
<1>7. stack' = [stack EXCEPT ![t] = <<g>>] BY <1>1
<1> HIDE DEF id
<1>8. g = [id |-> id, stmt |-> s, at |-> 1, pc |-> "gate", proceed |-> FALSE,
           first |-> FALSE, msg |-> <<>>, evaluated |-> e, calls |-> 0]
  BY DEF Frame
<1> HIDE DEF g, e
<1>9. g \in Frames BY <1>3, <1>5, <1>6, <1>8 DEF Frames, Pcs
<1>10. Shape(g)
  <2>1. 1 <= Len(s.loggers) BY <1>5
  <2>2. Allowed(s.op, "gate") BY DEF Allowed
  <2> QED BY <1>6, <1>8, <2>1, <2>2 DEF Shape
<1>11. StackOk(<<g>>)
  <2>1. Len(<<g>>) = 1 /\ <<g>>[1] = g OBVIOUS
  <2> QED BY <1>10, <2>1 DEF StackOk
<1>12. <<g>> \in Seq(Frames) /\ Len(<<g>>) = 1 /\ <<g>>[1] = g BY <1>9
<1> DEFINE n == <<g>>
<1> HIDE DEF n
<1>13. stack'[t] = n /\ stack' \in [Threads -> Seq(Frames)]
       /\ \A u \in Threads \ {t} : stack'[u] = stack[u]
  BY <1>7, <1>12 DEF StacksInv, n
<1>14. n \in Seq(Frames) /\ StackOk(n) /\ Len(n) = 1 /\ n[1] = g BY <1>11, <1>12 DEF n
<1>15. StacksInv'
  <2>1. \A u \in Threads : StackOk(stack'[u]) BY <1>13, <1>14 DEF StacksInv
  <2> QED BY <1>1, <1>2, <1>13, <2>1 DEF StacksInv
<1>16. LockInv'
  <2>1. \A k : Count(stack[t], k) = 0 /\ Count(stack'[t], k) = 0
    <3> TAKE k
    <3>1. Holds(g) = {} BY <1>8 DEF Holds
    <3>2. {i \in 1 .. Len(stack'[t]) : k \in Holds(stack'[t][i])} = {}
      BY <1>13, <1>14, <3>1
    <3>3. Len(stack[t]) = 0 BY <1>1
    <3>4. {i \in 1 .. Len(stack[t]) : k \in Holds(stack[t][i])} = {} BY <3>3
    <3> QED BY <3>2, <3>4, FS_EmptySet DEF Count
  <2>2. ASSUME NEW k \in Locks PROVE LockOk(k)'
    <3>1. LockOk(k) /\ lock' = lock /\ spoiled' = spoiled BY <1>1 DEF LockInv
    <3>2. \A u \in Threads : Count(stack'[u], k) = Count(stack[u], k) BY <1>13, <2>1
    <3> QED BY <3>1, <3>2 DEF LockOk
  <2> QED BY <1>1, <2>2 DEF LockInv
<1> QED BY <1>1, <1>8, <1>13, <1>14, <1>15, <1>16

(* What a step other than an abort does to the invariants.                 *)
LEMMA EffectKeeps ==
  ASSUME StacksInv, LockInv, NEW t \in Threads, Effect(t)
  PROVE  StacksInv' /\ LockInv'
<1>1. PICK H : Turn(t, H) /\ LockMoves(t, H) BY DEF Effect, Moves
<1>2. LockInv' BY <1>1, LocksMoved DEF Effect
<1>3. \A u \in Threads : StackOk(stack'[u]) BY <1>1 DEF Turn, StacksInv
<1> QED BY <1>1, <1>2, <1>3 DEF Turn, StacksInv, Effect

(* A step of a thread that has to do with performance tracking.            *)
Tells(t) == Checkpoint(t) \/ Report(t) \/ Checked(t)

(* Every step, in sum.                                                     *)
LEMMA StepEffect ==
  ASSUME StacksInv, LockInv, NEW t \in Threads, Step(t)
  PROVE  \/ Tells(t) /\ Effect(t)
         \/ Effect(t) /\ Calm(t)
         \/ Abort(t)
<1>1. CASE Normal(t) \/ Conditional(t) \/ EveryN(t) \/ AfterN(t) \/ NTimes(t)
  BY <1>1, OccasionalEffect
<1>2. CASE Apply(t) \/ FlushAll(t) \/ RemoveLogger(t) \/ Untracked(t) BY <1>2, PopEffect
<1>3. CASE RollFirst(t) \/ Callback(t) \/ Roll(t) \/ FlushRoll(t) \/ Configure(t)
  BY <1>3, GoEffect
<1>4. CASE StreamHead(t) \/ StreamTail(t) BY <1>4, StreamEffect
<1>5. CASE Missed(t) BY <1>5, MissedEffect
<1>6. CASE LoggerMissing(t) BY <1>6, LoggerMissingEffect
<1>7. CASE Evaluate(t) BY <1>7, EvaluateEffect
<1>8. CASE logCrashReason(t) BY <1>8, CrashReasonEffect
<1>9. CASE InitializeLogger(t) BY <1>9, InitializeEffect
<1>10. CASE LogArguments(t) BY <1>10, ArgumentsEffect
<1>11. CASE Dispatch(t) BY <1>11, DispatchEffect
<1>12. CASE FlushLogger(t) BY <1>12, FlushEffect
<1>13. CASE Skip(t) BY <1>13, SkipEffect
<1>14. CASE Undispatch(t) BY <1>14, UndispatchEffect
<1>15. CASE Release(t) BY <1>15, ReleaseEffect
<1>16. CASE CallbackThrows(t) BY <1>16, ThrowEffect
<1>17. CASE FlushEnds(t) BY <1>17, FlushEndsEffect
<1>18. CASE Checkpoint(t) BY <1>18, CheckpointEffect DEF Tells
<1>19. CASE Report(t) BY <1>19, ReportEffect DEF Tells
<1>20. CASE Checked(t) BY <1>20, CheckedEffect DEF Tells
<1>21. CASE Abort(t) BY <1>21
<1> QED BY <1>1, <1>2, <1>3, <1>4, <1>5, <1>6, <1>7, <1>8, <1>9, <1>10, <1>11, <1>12, <1>13,
           <1>14, <1>15, <1>16, <1>17, <1>18, <1>19, <1>20, <1>21 DEF Step

(* The stacks and the locks at first, and after every step.                *)
LEMMA StacksFirst == Init => StacksInv /\ LockInv
<1> SUFFICES ASSUME Init PROVE StacksInv /\ LockInv OBVIOUS
<1>1. \A t \in Threads : stack[t] = <<>> BY DEF Init
<1>2. StacksInv
  <2>1. StackOk(<<>>) BY DEF StackOk
  <2> QED BY <1>1, <2>1 DEF Init, StacksInv
<1>3. \A k : \A t \in Threads : Count(stack[t], k) = 0
  <2> TAKE k
  <2> TAKE t \in Threads
  <2>1. {i \in 1 .. Len(stack[t]) : k \in Holds(stack[t][i])} = {} BY <1>1
  <2> QED BY <2>1, FS_EmptySet DEF Count
<1>4. LockInv BY <1>3 DEF Init, LockInv, LockOk
<1> QED BY <1>2, <1>4

(* Stacks and locks stay in order.                                         *)
LEMMA StacksKept == StacksInv /\ LockInv /\ [Next]_vars => StacksInv' /\ LockInv'
<1> SUFFICES ASSUME StacksInv, LockInv, [Next]_vars PROVE StacksInv' /\ LockInv' OBVIOUS
<1>1. ASSUME UNCHANGED <<stack, lock, spoiled, stream, started, program>>
      PROVE  StacksInv' /\ LockInv'
  <2>1. StacksInv' BY <1>1 DEF StacksInv
  <2>2. LockInv' BY <1>1 DEF LockInv, LockOk
  <2> QED BY <2>1, <2>2
<1>2. CASE UNCHANGED vars BY <1>1, <1>2 DEF vars
<1>3. ASSUME NEW t \in Threads, Begin(t) PROVE StacksInv' /\ LockInv' BY <1>3, BeginEffect
<1>4. ASSUME NEW t \in Threads, Crash(t) PROVE StacksInv' /\ LockInv'
  BY <1>4, CrashEffect, EffectKeeps
<1>5. ASSUME NEW t \in Threads, Step(t) PROVE StacksInv' /\ LockInv'
  <2>1. CASE Effect(t) BY <2>1, EffectKeeps
  <2>2. CASE Abort(t) BY <1>1, <2>2 DEF Abort
  <2> QED BY <1>5, <2>1, <2>2, StepEffect
<1> QED BY <1>2, <1>3, <1>4, <1>5 DEF Next

-----------------------------------------------------------------------------
(* Performance reports.                                                    *)
Lasts == Ids \cup {<<>>}
ReportSet == [at : Ids, on : Trackers, of : Lasts, from : Lasts]

On(fr, k) == Tracks(fr) /\ TrackerOf[fr.stmt.loggers[fr.at]] = k

(* The last report on a tracker is that of id.                             *)
Latest(rs, k, id) ==
  \E i \in 1 .. Len(rs) :
    rs[i].on = k /\ rs[i].at = id /\ \A j \in i + 1 .. Len(rs) : rs[j].on # k

(* The i-th report starts from the one before it on the tracker.           *)
Told(rs, i, mx) ==
  /\ \/ rs[i].from = <<>>
     \/ \E m \in 1 .. i - 1 :
          /\ rs[m].on = rs[i].on /\ rs[m].at = rs[i].from
          /\ \A j \in m + 1 .. i - 1 : rs[j].on # rs[i].on
  /\ rs[i].of = rs[i].at \/ rs[i].at \in mx

(* A thread has reported on k and not said so to the tracker yet.          *)
Finishing(st, k) == \E i \in 1 .. Len(st) : On(st[i], k) /\ st[i].pc = "checked"

Handling(st) == st # <<>> /\ Tracks(st[Len(st)]) /\ st[Len(st)].pc = "handle"

ReportsInv ==
  /\ tracker \in [Trackers -> [enabled : BOOLEAN, last : Lasts]]
  /\ m_data \in Lasts /\ reports \in Seq(ReportSet)
  /\ \A k \in Trackers :
       \/ tracker[k].last = <<>> \/ Latest(reports, k, tracker[k].last)
       \/ \E u \in Threads : Finishing(stack[u], k)
  /\ \A u \in Threads, k \in Trackers : \A i \in 1 .. Len(stack[u]) :
       On(stack[u][i], k) /\ stack[u][i].pc = "checked" => Latest(reports, k, stack[u][i].id)
  /\ \A u \in Threads : Handling(stack[u]) =>
       m_data = stack[u][Len(stack[u])].id \/ stack[u][Len(stack[u])].id \in mixed
  /\ \A i \in 1 .. Len(reports) : Told(reports, i, mixed)

(* The greatest element of a set of numbers is the one that is.            *)
LEMMA MaxOf ==
  ASSUME NEW S \in SUBSET Nat, NEW m \in S, \A j \in S : j <= m
  PROVE  Max(S) = m
<1> DEFINE P(x) == x \in S /\ \A y \in S : x >= y
<1>1. Max(S) = CHOOSE x \in S : \A y \in S : x >= y BY DEF Max
<1>2. m \in S /\ \A y \in S : m >= y OBVIOUS
<1>3. Max(S) \in S /\ \A y \in S : Max(S) >= y BY <1>1, <1>2
<1>4. Max(S) >= m /\ m >= Max(S) /\ Max(S) \in Nat /\ m \in Nat BY <1>2, <1>3
<1> QED BY <1>4

(* A further report leaves other trackers' latest, and is its own.         *)
LEMMA LatestAppend ==
  ASSUME NEW rs \in Seq(ReportSet), NEW e \in ReportSet, NEW k, NEW id
  PROVE  /\ e.on # k /\ Latest(rs, k, id) => Latest(Append(rs, e), k, id)
         /\ e.on = k /\ e.at = id => Latest(Append(rs, e), k, id)
<1> DEFINE n == Append(rs, e)
<1>1. /\ Len(n) = Len(rs) + 1 /\ n[Len(rs) + 1] = e /\ Len(rs) \in Nat
      /\ \A i \in 1 .. Len(rs) : n[i] = rs[i]
  OBVIOUS
<1> HIDE DEF n
<1>2. ASSUME e.on # k, Latest(rs, k, id) PROVE Latest(n, k, id)
  <2>1. PICK i \in 1 .. Len(rs) :
          rs[i].on = k /\ rs[i].at = id /\ \A j \in i + 1 .. Len(rs) : rs[j].on # k
    BY <1>2 DEF Latest
  <2>2. i \in 1 .. Len(n) /\ n[i].on = k /\ n[i].at = id BY <1>1, <2>1
  <2>3. \A j \in i + 1 .. Len(n) : n[j].on # k BY <1>1, <1>2, <2>1
  <2> QED BY <2>2, <2>3 DEF Latest
<1>3. ASSUME e.on = k, e.at = id PROVE Latest(n, k, id)
  <2>1. Len(n) \in 1 .. Len(n) /\ n[Len(n)].on = k /\ n[Len(n)].at = id BY <1>1, <1>3
  <2>2. \A j \in Len(n) + 1 .. Len(n) : n[j].on # k BY <1>1
  <2> QED BY <2>1, <2>2 DEF Latest
<1> QED BY <1>2, <1>3 DEF n

(* What has been told stays so.                                            *)
LEMMA ToldAppend ==
  ASSUME NEW rs \in Seq(ReportSet), NEW e \in ReportSet, NEW mx, NEW i \in 1 .. Len(rs),
         Told(rs, i, mx)
  PROVE  Told(Append(rs, e), i, mx)
<1> DEFINE n == Append(rs, e)
<1>1. Len(rs) \in Nat /\ i \in Nat /\ \A j \in 1 .. i : n[j] = rs[j] OBVIOUS
<1>2. i \in 1 .. i /\ \A m \in 1 .. i - 1 : m \in 1 .. i BY <1>1
<1>3. n[i] = rs[i] /\ \A m \in 1 .. i - 1 : n[m] = rs[m] BY <1>1, <1>2
<1> HIDE DEF n
<1>4. \A m \in 1 .. i - 1 : \A j \in m + 1 .. i - 1 : j \in 1 .. i - 1 BY <1>1
<1>5. \/ n[i].from = <<>>
      \/ \E m \in 1 .. i - 1 :
           /\ n[m].on = n[i].on /\ n[m].at = n[i].from
           /\ \A j \in m + 1 .. i - 1 : n[j].on # n[i].on
  BY <1>3, <1>4 DEF Told
<1> QED BY <1>3, <1>5 DEF Told, n

(* What has been told is what Exclusive says of a report.                  *)
LEMMA ToldExclusive ==
  ASSUME NEW rs, NEW mx, NEW i \in Nat, Told(rs, i, mx)
  PROVE  LET e == rs[i]  before == {j \in 1 .. i - 1 : rs[j].on = e.on}
         IN  /\ e.from = <<>> \/ (before # {} /\ e.from = rs[Max(before)].at)
             /\ e.of = e.at \/ e.at \in mx
<1> DEFINE before == {j \in 1 .. i - 1 : rs[j].on = rs[i].on}
<1>1. CASE rs[i].from = <<>> BY <1>1 DEF Told
<1>2. CASE \E m \in 1 .. i - 1 :
             /\ rs[m].on = rs[i].on /\ rs[m].at = rs[i].from
             /\ \A j \in m + 1 .. i - 1 : rs[j].on # rs[i].on
  <2>1. PICK m \in 1 .. i - 1 :
             /\ rs[m].on = rs[i].on /\ rs[m].at = rs[i].from
             /\ \A j \in m + 1 .. i - 1 : rs[j].on # rs[i].on
    BY <1>2
  <2>2. m \in before /\ before \in SUBSET Nat /\ \A j \in before : j <= m BY <2>1
  <2> HIDE DEF before
  <2>3. Max(before) = m BY <2>2, MaxOf
  <2>4. before # {} /\ rs[i].from = rs[Max(before)].at BY <2>1, <2>2, <2>3
  <2> QED BY <2>4 DEF Told, before
<1> QED BY <1>1, <1>2 DEF Told

(* Who needs a lock owns it.                                               *)
LEMMA HeldOwner ==
  ASSUME StacksInv, LockInv, NEW t \in Threads, NEW i \in 1 .. Len(stack[t]), NEW k \in Locks,
         k \in Holds(stack[t][i])
  PROVE  lock[k].owner = t
<1> DEFINE A == {j \in 1 .. Len(stack[t]) : k \in Holds(stack[t][j])}
<1>1. IsFiniteSet(A)
  <2>1. Len(stack[t]) \in Nat BY DEF StacksInv
  <2>2. IsFiniteSet(1 .. Len(stack[t])) BY <2>1, FS_Interval
  <2>3. A \subseteq 1 .. Len(stack[t]) OBVIOUS
  <2> QED BY <2>2, <2>3, FS_Subset
<1>2. A # {} OBVIOUS
<1> HIDE DEF A
<1>3. Cardinality(A) \in Nat /\ Cardinality(A) # 0 BY <1>1, <1>2, FS_CardinalityType, FS_EmptySet
<1>4. Count(stack[t], k) = Cardinality(A) BY DEF Count, A
<1>5. Count(stack[t], k) <= IF lock[k].owner = t THEN lock[k].depth ELSE 0 BY DEF LockInv, LockOk
<1> QED BY <1>3, <1>4, <1>5

(* No two checkpoints of a tracker are under way.                          *)
LEMMA OneTracks ==
  ASSUME StacksInv, LockInv, NEW t \in Threads, NEW u \in Threads, NEW k \in Trackers,
         NEW i \in 1 .. Len(stack[t]), NEW j \in 1 .. Len(stack[u]),
         On(stack[t][i], k), stack[t][i].pc \in {"handle", "checked"},
         On(stack[u][j], k), stack[u][j].pc \in {"handle", "checked"}
  PROVE  t = u /\ i = j
<1>1. k \in Locks BY DEF Locks
<1>2. k \in Holds(stack[t][i])
  <2>1. HeldAt(Holds(stack[t][i]), stack[t][i].stmt.op, stack[t][i].pc,
               stack[t][i].stmt.loggers[stack[t][i].at])
    BY HoldsFacts
  <2> QED BY <2>1 DEF HeldAt, On, Tracks
<1>3. k \in Holds(stack[u][j])
  <2>1. HeldAt(Holds(stack[u][j]), stack[u][j].stmt.op, stack[u][j].pc,
               stack[u][j].stmt.loggers[stack[u][j].at])
    BY HoldsFacts
  <2> QED BY <2>1 DEF HeldAt, On, Tracks
<1>4. t = u BY <1>1, <1>2, <1>3, HeldOwner
<1> QED BY <1>4 DEF StacksInv, StackOk, On

-----------------------------------------------------------------------------
(* A step after which the same statements have been reported.              *)
Steady(st, n) ==
  /\ \A i \in 1 .. Len(n) : Tracks(n[i]) /\ n[i].pc = "checked" =>
       i \in 1 .. Len(st) /\ n[i] = st[i]
  /\ \A i \in 1 .. Len(st) : Tracks(st[i]) /\ st[i].pc = "checked" =>
       i \in 1 .. Len(n) /\ n[i] = st[i]

(* No other is about to be.                                                *)
Still(st, n) == Handling(n) => Handling(st) /\ n[Len(n)] = st[Len(st)]

(* Whatever only moves stacks steadily keeps the reports as they are.      *)
LEMMA SteadyKeeps ==
  ASSUME ReportsInv, UNCHANGED performance,
         \A u \in Threads : Steady(stack[u], stack'[u]) /\ Still(stack[u], stack'[u])
  PROVE  ReportsInv'
<1>1. tracker' = tracker /\ m_data' = m_data /\ reports' = reports /\ mixed' = mixed
  BY DEF performance
<1>2. ASSUME NEW u \in Threads, NEW k, Finishing(stack[u], k) PROVE Finishing(stack'[u], k)
  BY <1>2 DEF Steady, Finishing, On
<1>3. \A k \in Trackers :
       \/ tracker'[k].last = <<>> \/ Latest(reports', k, tracker'[k].last)
       \/ \E u \in Threads : Finishing(stack'[u], k)
  <2> TAKE k \in Trackers
  <2>1. \/ tracker[k].last = <<>> \/ Latest(reports, k, tracker[k].last)
        \/ \E u \in Threads : Finishing(stack[u], k)
    BY DEF ReportsInv
  <2> QED BY <1>1, <1>2, <2>1
<1>4. \A u \in Threads, k \in Trackers : \A i \in 1 .. Len(stack'[u]) :
       On(stack'[u][i], k) /\ stack'[u][i].pc = "checked" => Latest(reports', k, stack'[u][i].id)
  BY <1>1 DEF ReportsInv, Steady, On
<1>5. \A u \in Threads : Handling(stack'[u]) =>
       m_data' = stack'[u][Len(stack'[u])].id \/ stack'[u][Len(stack'[u])].id \in mixed'
  BY <1>1 DEF ReportsInv, Still
<1>6. \A i \in 1 .. Len(reports') : Told(reports', i, mixed') BY <1>1 DEF ReportsInv
<1>7. /\ tracker' \in [Trackers -> [enabled : BOOLEAN, last : Lasts]]
      /\ m_data' \in Lasts /\ reports' \in Seq(ReportSet)
  BY <1>1 DEF ReportsInv
<1> QED BY <1>3, <1>4, <1>5, <1>6, <1>7 DEF ReportsInv

(* Where a step does not tell, its statement is none that is reported.     *)
LEMMA Elsewhere ==
  ASSUME NEW t \in Threads, Step(t), ~Tells(t), ~Abort(t)
  PROVE  ~(Tracks(Top(t)) /\ Top(t).pc \in {"handle", "checked"})
<1>1. CASE Normal(t) \/ Conditional(t) \/ EveryN(t) \/ AfterN(t) \/ NTimes(t)
  BY <1>1 DEF Normal, Conditional, EveryN, AfterN, NTimes, Occasional, Gate, At, Tracks
<1>2. CASE Apply(t) \/ FlushAll(t) \/ RemoveLogger(t) \/ Untracked(t)
  BY <1>2 DEF Apply, FlushAll, RemoveLogger, Untracked, Tracking, At, Tracks
<1>3. CASE RollFirst(t) \/ Callback(t) \/ Roll(t) \/ FlushRoll(t) \/ Configure(t)
  BY <1>3 DEF RollFirst, Callback, Roll, FlushRoll, Reopen, Configure, At, Tracks
<1>4. CASE StreamHead(t) \/ StreamTail(t) \/ Missed(t) \/ LoggerMissing(t) \/ Evaluate(t)
  BY <1>4 DEF StreamHead, StreamTail, Stream, Missed, LoggerMissing, Evaluate, At, Tracks
<1>5. CASE logCrashReason(t) \/ InitializeLogger(t) \/ LogArguments(t) \/ Dispatch(t)
  BY <1>5 DEF logCrashReason, InitializeLogger, LogArguments, Dispatch, At, Tracks
<1>6. CASE FlushLogger(t)
  <2> DEFINE op == Top(t).stmt.op  pc == Top(t).pc
  <2>1. <<op, pc>> = <<"flush", "gate">> \/ <<op, pc>> = <<"configure", "reset">>
    BY <1>6, Zenon DEF FlushLogger, Flushing
  <2> HIDE DEF op, pc
  <2>2. op \in {"flush", "configure"} BY <2>1
  <2> QED BY <2>2 DEF Tracks, op
<1>7. CASE Skip(t) \/ Undispatch(t) \/ Release(t) \/ CallbackThrows(t) \/ FlushEnds(t)
  BY <1>7 DEF Skip, Undispatch, Release, CallbackThrows, FlushEnds, At, Tracks
<1> QED BY <1>1, <1>2, <1>3, <1>4, <1>5, <1>6, <1>7 DEF Step, Tells

(* Steps that have nothing to do with tracking,                            *)
LEMMA CalmKeeps ==
  ASSUME StacksInv, LockInv, ReportsInv, NEW t \in Threads, Effect(t), Calm(t),
         ~(Tracks(Top(t)) /\ Top(t).pc \in {"handle", "checked"})
  PROVE  ReportsInv'
<1> DEFINE st == stack[t]  n == stack'[t]
<1>1. PICK H : Turn(t, H) BY DEF Effect, Moves
<1>2. st \in Seq(Frames) /\ Len(st) \in Nat \ {0} /\ Top(t) = st[Len(st)]
      /\ n \in Seq(Frames) /\ Turned(st, n, H)
  BY <1>1, TopFacts DEF Effect, Turn
<1>3. Quiet(st, n) /\ UNCHANGED performance BY DEF Calm
<1>4. Len(n) \in Nat BY <1>2
<1> HIDE DEF st, n
<1>5. Steady(st, n)
  <2>1. ASSUME NEW i \in 1 .. Len(n), Tracks(n[i]), n[i].pc = "checked"
        PROVE  i \in 1 .. Len(st) /\ n[i] = st[i]
    <3>1. i < Len(st) BY <1>3, <2>1 DEF Quiet
    <3>2. i \in 1 .. Len(st) - 1 BY <1>2, <1>4, <3>1
    <3> QED BY <1>2, <3>2 DEF Turned
  <2>2. ASSUME NEW i \in 1 .. Len(st), Tracks(st[i]), st[i].pc = "checked"
        PROVE  i \in 1 .. Len(n) /\ n[i] = st[i]
    <3>1. i # Len(st) BY <1>2, <2>2
    <3>2. i \in 1 .. Len(st) - 1 BY <1>2, <3>1
    <3> QED BY <1>2, <3>2 DEF Turned
  <2> QED BY <2>1, <2>2 DEF Steady
<1>6. Still(st, n)
  <2>1. ~Handling(n)
    <3> SUFFICES ASSUME n # <<>>, Tracks(n[Len(n)]), n[Len(n)].pc = "handle" PROVE FALSE
      BY DEF Handling
    <3>1. Len(n) \in 1 .. Len(n) BY <1>2, <1>4
    <3> QED BY <1>3, <1>4, <3>1 DEF Quiet
  <2> QED BY <2>1 DEF Still
<1>7. \A u \in Threads \ {t} : stack'[u] = stack[u] BY <1>1 DEF Turn
<1>8. \A u \in Threads \ {t} : Steady(stack[u], stack[u]) /\ Still(stack[u], stack[u])
  BY DEF Steady, Still
<1>9. \A u \in Threads : Steady(stack[u], stack'[u]) /\ Still(stack[u], stack'[u])
  BY <1>5, <1>6, <1>7, <1>8 DEF st, n
<1> QED BY <1>3, <1>9, SteadyKeeps

(* a crash, whatever it interrupts,                                        *)
LEMMA CrashKeeps ==
  ASSUME StacksInv, LockInv, ReportsInv, NEW t \in Threads, Crash(t)
  PROVE  ReportsInv'
<1> DEFINE st == stack[t]  n == stack'[t]
<1>1. /\ Effect(t) /\ UNCHANGED performance /\ st # <<>> /\ Len(n) = Len(st) + 1
      /\ \A i \in 1 .. Len(st) : n[i] = st[i]
      /\ Crashes(n[Len(st) + 1])
  BY CrashEffect
<1>2. PICK H : Turn(t, H) BY <1>1 DEF Effect, Moves
<1>3. Len(st) \in Nat \ {0} BY <1>1, TopFacts
<1>4. ~Tracks(n[Len(st) + 1]) BY <1>1 DEF Tracks, Crashes
<1> HIDE DEF st, n
<1>5. Steady(st, n) BY <1>1, <1>3, <1>4 DEF Steady
<1>6. Still(st, n) BY <1>1, <1>3, <1>4 DEF Still, Handling
<1>7. \A u \in Threads \ {t} : stack'[u] = stack[u] BY <1>2 DEF Turn
<1>8. \A u \in Threads \ {t} : Steady(stack[u], stack[u]) /\ Still(stack[u], stack[u])
  BY DEF Steady, Still
<1>9. \A u \in Threads : Steady(stack[u], stack'[u]) /\ Still(stack[u], stack'[u])
  BY <1>5, <1>6, <1>7, <1>8 DEF st, n
<1> QED BY <1>1, <1>9, SteadyKeeps

(* and the beginning of a statement leave the reports alone.               *)
LEMMA BeginKeeps ==
  ASSUME StacksInv, LockInv, ReportsInv, NEW t \in Threads, Begin(t)
  PROVE  ReportsInv'
<1> DEFINE st == stack[t]  n == stack'[t]
<1>1. /\ UNCHANGED performance /\ st = <<>> /\ Len(n) = 1 /\ n[1].pc = "gate"
      /\ \A u \in Threads \ {t} : stack'[u] = stack[u]
  BY BeginEffect
<1> HIDE DEF st, n
<1>2. Len(st) = 0 BY <1>1
<1>3. Steady(st, n) BY <1>1, <1>2 DEF Steady
<1>4. Still(st, n) BY <1>1 DEF Still, Handling
<1>5. \A u \in Threads \ {t} : Steady(stack[u], stack[u]) /\ Still(stack[u], stack[u])
  BY DEF Steady, Still
<1>6. \A u \in Threads : Steady(stack[u], stack'[u]) /\ Still(stack[u], stack'[u])
  BY <1>1, <1>3, <1>4, <1>5 DEF st, n
<1> QED BY <1>1, <1>6, SteadyKeeps

(* A checkpoint gives its data to the callback.                            *)
LEMMA CheckpointKeeps ==
  ASSUME StacksInv, LockInv, ReportsInv, NEW t \in Threads, Checkpoint(t)
  PROVE  ReportsInv'
<1> DEFINE st == stack[t]  n == stack'[t]  f == [Top(t) EXCEPT !.pc = "handle"]
           others == {Top(u).id : u \in {u \in Threads \ {t} : Tracking(u, "handle")}}
<1>1. /\ st # <<>> /\ ~aborted /\ Top(t).stmt.op \in {"checkpoint", "complete"} /\ Top(t).pc = "gate"
      /\ stack' = [stack EXCEPT ![t] = Append(Front(@), f)]
      /\ m_data' = Top(t).id /\ tracker' = tracker /\ reports' = reports
      /\ mixed' = IF others = {} THEN mixed ELSE mixed \cup others \cup {Top(t).id}
  BY DEF Checkpoint, Tracking, At, Running, Go, Become
<1>2. /\ st \in Seq(Frames) /\ Len(st) \in Nat \ {0} /\ Top(t) = st[Len(st)]
      /\ Top(t) \in Frames /\ Shape(Top(t))
  BY <1>1, TopFacts
<1>3. Top(t).id \in Ids BY <1>2 DEF Frames
<1>4. f \in Frames /\ f.id = Top(t).id /\ f.pc = "handle"
  <2>1. "handle" \in Pcs /\ Allowed(Top(t).stmt.op, "handle") BY <1>1 DEF Pcs, Allowed
  <2> QED BY <1>2, <2>1, GoFits DEF Fits
<1> HIDE DEF f
<1>5. /\ n = Append(Front(st), f) /\ \A u \in Threads \ {t} : stack'[u] = stack[u]
  BY <1>1 DEF StacksInv
<1>6. Len(n) = Len(st) /\ n[Len(st)] = f /\ \A i \in 1 .. Len(st) - 1 : n[i] = st[i]
  BY <1>1, <1>2, <1>4, <1>5, BecomeSeq
<1> HIDE DEF st, n
<1>7. Steady(st, n)
  <2>1. ASSUME NEW i \in 1 .. Len(n), n[i].pc = "checked" PROVE i \in 1 .. Len(st) /\ n[i] = st[i]
    BY <1>2, <1>4, <1>6, <2>1
  <2>2. ASSUME NEW i \in 1 .. Len(st), st[i].pc = "checked" PROVE i \in 1 .. Len(n) /\ n[i] = st[i]
    BY <1>1, <1>2, <1>6, <2>2
  <2> QED BY <2>1, <2>2 DEF Steady
<1>8. \A u \in Threads : Steady(stack[u], stack'[u])
  <2>1. \A u \in Threads \ {t} : Steady(stack[u], stack[u]) BY DEF Steady
  <2> QED BY <1>5, <1>7, <2>1 DEF st, n
<1>9. \A k \in Trackers :
       \/ tracker'[k].last = <<>> \/ Latest(reports', k, tracker'[k].last)
       \/ \E u \in Threads : Finishing(stack'[u], k)
  <2> TAKE k \in Trackers
  <2>1. \/ tracker[k].last = <<>> \/ Latest(reports, k, tracker[k].last)
        \/ \E u \in Threads : Finishing(stack[u], k)
    BY DEF ReportsInv
  <2>2. \A u \in Threads : Finishing(stack[u], k) => Finishing(stack'[u], k)
    BY <1>8 DEF Steady, Finishing, On
  <2> QED BY <1>1, <2>1, <2>2
<1>10. \A u \in Threads, k \in Trackers : \A i \in 1 .. Len(stack'[u]) :
       On(stack'[u][i], k) /\ stack'[u][i].pc = "checked" => Latest(reports', k, stack'[u][i].id)
  BY <1>1, <1>8 DEF ReportsInv, Steady, On
<1>11. ASSUME NEW u \in Threads, Handling(stack'[u])
       PROVE  m_data' = stack'[u][Len(stack'[u])].id \/ stack'[u][Len(stack'[u])].id \in mixed'
  <2>1. CASE u = t BY <1>1, <1>4, <1>6, <2>1 DEF n
  <2>2. CASE u # t
    <3>1. stack'[u] = stack[u] BY <1>5, <2>2
    <3>2. stack[u] # <<>> /\ Top(u) = stack[u][Len(stack[u])]
      BY <1>11, <3>1, TopFacts DEF Handling
    <3>3. Tracking(u, "handle")
      BY <1>1, <1>11, <3>1, <3>2 DEF Handling, Tracks, Tracking, At, Running
    <3>4. Top(u).id \in others BY <2>2, <3>3
    <3> HIDE DEF others
    <3>5. Top(u).id \in mixed' BY <1>1, <3>4
    <3> QED BY <3>1, <3>2, <3>5
  <2> QED BY <2>1, <2>2
<1>12. \A i \in 1 .. Len(reports') : Told(reports', i, mixed')
  <2>1. mixed \subseteq mixed' BY <1>1
  <2> QED BY <1>1, <2>1 DEF ReportsInv, Told
<1>13. /\ tracker' \in [Trackers -> [enabled : BOOLEAN, last : Lasts]]
       /\ m_data' \in Lasts /\ reports' \in Seq(ReportSet)
  BY <1>1, <1>3 DEF ReportsInv, Lasts
<1> QED BY <1>9, <1>10, <1>11, <1>12, <1>13 DEF ReportsInv

(* The callback logs the report.                                           *)
LEMMA ReportKeeps ==
  ASSUME StacksInv, LockInv, ReportsInv, NEW t \in Threads, Report(t)
  PROVE  ReportsInv'
<1> DEFINE st == stack[t]  n == stack'[t]  fr == [Top(t) EXCEPT !.pc = "checked"]
           s == Internal(Logger(t))
           f == [fr EXCEPT !.calls = @ + 1]  g == Frame(Within(fr), s)
           k == Tracker(t)
           from == IF Top(t).stmt.op = "complete" THEN <<>> ELSE tracker[k].last
           e == [at |-> Top(t).id, on |-> k, of |-> m_data, from |-> from]
<1>1. /\ st # <<>> /\ Top(t).stmt.op \in {"checkpoint", "complete"} /\ Top(t).pc = "handle"
      /\ stack' = [stack EXCEPT ![t] = Front(@) \o <<f, g>>]
      /\ reports' = Append(reports, e)
      /\ tracker' = tracker /\ m_data' = m_data /\ mixed' = mixed
  BY DEF Report, Tracking, At, Running, Call, Execute
<1>2. /\ st \in Seq(Frames) /\ Len(st) \in Nat \ {0} /\ Top(t) = st[Len(st)]
      /\ Top(t) \in Frames /\ Shape(Top(t)) /\ Logger(t) \in Loggers /\ StackOk(st)
  BY <1>1, TopFacts
<1>3. Top(t).id \in Ids BY <1>2 DEF Frames
<1>4. f \in Frames /\ f.id = Top(t).id /\ f.pc = "checked" /\ f.stmt = Top(t).stmt /\ f.at = Top(t).at
  <2>1. "checked" \in Pcs /\ Allowed(Top(t).stmt.op, "checked") BY <1>1 DEF Pcs, Allowed
  <2>2. /\ Fits(Top(t), fr) /\ fr.pc = "checked" /\ fr.id = Top(t).id
        /\ fr.stmt = Top(t).stmt /\ fr.at = Top(t).at
    BY <1>2, <2>1, GoFits
  <2> HIDE DEF fr
  <2> QED BY <2>2, CoveredFits DEF Fits
<1>5. g \in Frames /\ ~Tracks(g)
  <2>1. s \in Plain /\ s.op = "write" BY <1>2, InternalPlain DEF Internal
  <2>2. fr \in Frames BY <1>2 DEF Frames, Pcs
  <2> HIDE DEF s, fr
  <2>3. Fresher(g) /\ g.stmt = s BY <2>1, <2>2, FrameFresher
  <2> QED BY <2>1, <2>3 DEF Fresher, Tracks
<1>6. k \in Trackers /\ k = TrackerOf[Top(t).stmt.loggers[Top(t).at]]
  BY <1>2, LogWriterAssumption DEF Tracker, Logger
<1>7. e \in ReportSet /\ e.on = k /\ e.at = Top(t).id /\ e.from = from /\ e.of = m_data
  <2>1. from \in Lasts BY <1>6 DEF ReportsInv, Lasts
  <2> QED BY <1>3, <1>6, <2>1 DEF ReportsInv, ReportSet
<1> HIDE DEF f, g, k, e
<1>8. /\ n = Front(st) \o <<f, g>> /\ \A u \in Threads \ {t} : stack'[u] = stack[u]
  BY <1>1 DEF StacksInv
<1> HIDE DEF n
<1>9. /\ Len(n) = Len(st) + 1 /\ n[Len(st)] = f /\ n[Len(st) + 1] = g
      /\ \A i \in 1 .. Len(st) - 1 : n[i] = st[i]
  <2>1. st # <<>> BY <1>1
  <2> HIDE DEF st
  <2> QED BY <1>2, <1>4, <1>5, <1>8, <2>1, CoverSeq
<1>10. Len(st) \in 1 .. Len(st) /\ On(st[Len(st)], k) /\ st[Len(st)].pc = "handle"
  BY <1>1, <1>2, <1>6 DEF On, Tracks
<1>11. On(f, k) BY <1>1, <1>4, <1>6 DEF On, Tracks
(* Nobody else is reporting on the tracker.                                *)
<1>12. \A u \in Threads : ~Finishing(stack[u], k)
  <2> SUFFICES ASSUME NEW u \in Threads, NEW i \in 1 .. Len(stack[u]), On(stack[u][i], k),
                      stack[u][i].pc = "checked"
               PROVE  FALSE
    BY DEF Finishing
  <2>1. t = u /\ Len(st) = i BY <1>6, <1>10, OneTracks
  <2> QED BY <1>10, <2>1
<1>13. reports \in Seq(ReportSet) /\ Len(reports) \in Nat BY DEF ReportsInv
<1>14. Latest(reports', k, Top(t).id) BY <1>1, <1>7, <1>13, LatestAppend
<1>15. \A j, id : j # k /\ Latest(reports, j, id) => Latest(reports', j, id)
  BY <1>1, <1>7, <1>13, LatestAppend
<1>16. ASSUME NEW j \in Trackers
       PROVE  \/ tracker'[j].last = <<>> \/ Latest(reports', j, tracker'[j].last)
              \/ \E u \in Threads : Finishing(stack'[u], j)
  <2>1. CASE j = k
    <3>1. Len(st) \in 1 .. Len(n) BY <1>2, <1>9
    <3>2. Finishing(n, k) BY <1>4, <1>9, <1>11, <3>1 DEF Finishing
    <3> QED BY <2>1, <3>2 DEF n
  <2>2. CASE j # k
    <3>1. \/ tracker[j].last = <<>> \/ Latest(reports, j, tracker[j].last)
          \/ \E u \in Threads : Finishing(stack[u], j)
      BY DEF ReportsInv
    <3>2. ASSUME NEW u \in Threads, Finishing(stack[u], j) PROVE Finishing(stack'[u], j)
      <4>1. CASE u # t BY <1>8, <3>2, <4>1
      <4>2. CASE u = t
        <5>1. PICK i \in 1 .. Len(st) : On(st[i], j) /\ st[i].pc = "checked"
          BY <3>2, <4>2 DEF Finishing
        <5>2. i # Len(st) BY <1>10, <5>1
        <5>3. i \in 1 .. Len(st) - 1 /\ i \in 1 .. Len(n) BY <1>2, <1>9, <5>2
        <5>4. n[i] = st[i] BY <1>9, <5>3
        <5>5. Finishing(n, j) BY <5>1, <5>3, <5>4 DEF Finishing
        <5> QED BY <4>2, <5>5 DEF n
      <4> QED BY <4>1, <4>2
    <3> QED BY <1>1, <1>15, <2>2, <3>1, <3>2
  <2> QED BY <2>1, <2>2
<1>17. ASSUME NEW u \in Threads, NEW j \in Trackers, NEW i \in 1 .. Len(stack'[u]),
              On(stack'[u][i], j), stack'[u][i].pc = "checked"
       PROVE  Latest(reports', j, stack'[u][i].id)
  <2>1. CASE u # t
    <3>1. stack'[u] = stack[u] BY <1>8, <2>1
    <3>2. j # k BY <1>12, <1>17, <3>1 DEF Finishing
    <3>3. Latest(reports, j, stack[u][i].id) BY <1>17, <3>1 DEF ReportsInv
    <3> QED BY <1>15, <3>1, <3>2, <3>3
  <2>2. CASE u = t
    <3>1. i \in 1 .. Len(st) + 1 /\ On(n[i], j) /\ n[i].pc = "checked" BY <1>9, <1>17, <2>2 DEF n
    <3>2. i # Len(st) + 1 BY <1>5, <1>9, <3>1 DEF On
    <3>3. CASE i = Len(st)
      <4>1. n[i] = f /\ j = k BY <1>9, <1>11, <3>1, <3>3 DEF On
      <4> QED BY <1>4, <1>14, <2>2, <4>1 DEF n
    <3>4. CASE i # Len(st)
      <4>1. i \in 1 .. Len(st) - 1 BY <1>2, <3>1, <3>2, <3>4
      <4>2. n[i] = st[i] BY <1>9, <4>1
      <4>3. Tracks(st[i]) /\ Tracks(st[Len(st)]) BY <1>10, <3>1, <4>2 DEF On
      <4> QED BY <1>2, <1>10, <3>4, <4>1, <4>3 DEF StackOk
    <3> QED BY <3>3, <3>4
  <2> QED BY <2>1, <2>2
<1>18. ASSUME NEW u \in Threads, Handling(stack'[u])
       PROVE  m_data' = stack'[u][Len(stack'[u])].id \/ stack'[u][Len(stack'[u])].id \in mixed'
  <2>1. u # t
    <3>1. ~Handling(n) BY <1>5, <1>9 DEF Handling
    <3> QED BY <1>18, <3>1 DEF n
  <2>2. stack'[u] = stack[u] BY <1>8, <2>1
  <2>3. m_data = stack[u][Len(stack[u])].id \/ stack[u][Len(stack[u])].id \in mixed
    BY <1>18, <2>2 DEF ReportsInv
  <2>4. m_data' = m_data /\ mixed' = mixed BY <1>1
  <2> QED BY <2>2, <2>3, <2>4
<1>19. ASSUME NEW i \in 1 .. Len(reports') PROVE Told(reports', i, mixed')
  <2>1. Len(reports') = Len(reports) + 1 /\ reports'[Len(reports) + 1] = e
    BY <1>1, <1>7, <1>13
  <2>2. CASE i \in 1 .. Len(reports)
    <3>1. Told(reports, i, mixed) BY <2>2 DEF ReportsInv
    <3> QED BY <1>1, <1>7, <1>13, <2>2, <3>1, ToldAppend
  <2>3. CASE i = Len(reports) + 1
    <3>1. reports'[i] = e BY <2>1, <2>3
    <3>2. e.of = e.at \/ e.at \in mixed'
      <4>1. Handling(st) BY <1>1, <1>10 DEF Handling, On
      <4>2. m_data = st[Len(st)].id \/ st[Len(st)].id \in mixed BY <4>1 DEF ReportsInv
      <4> QED BY <1>1, <1>2, <1>7, <4>2
    <3>3. CASE from = <<>> BY <1>7, <3>1, <3>2, <3>3 DEF Told
    <3>4. CASE from # <<>>
      <4>1. from = tracker[k].last BY <3>4
      <4>2. Latest(reports, k, from) BY <1>6, <1>12, <3>4, <4>1 DEF ReportsInv
      <4>3. PICK m \in 1 .. Len(reports) :
              /\ reports[m].on = k /\ reports[m].at = from
              /\ \A j \in m + 1 .. Len(reports) : reports[j].on # k
        BY <4>2 DEF Latest
      <4>4. \A j \in 1 .. Len(reports) : reports'[j] = reports[j] BY <1>1, <1>7, <1>13
      <4>5. m \in 1 .. i - 1 /\ i - 1 = Len(reports) BY <1>13, <2>3
      <4>6. reports'[m].on = e.on /\ reports'[m].at = e.from BY <1>7, <4>3, <4>4
      <4>7. \A j \in m + 1 .. i - 1 : reports'[j].on # e.on BY <1>7, <1>13, <4>3, <4>4, <4>5
      <4> QED BY <3>1, <3>2, <4>5, <4>6, <4>7 DEF Told
    <3> QED BY <3>3, <3>4
  <2> QED BY <1>13, <2>1, <2>2, <2>3
<1>20. /\ tracker' \in [Trackers -> [enabled : BOOLEAN, last : Lasts]]
       /\ m_data' \in Lasts /\ reports' \in Seq(ReportSet)
  BY <1>1, <1>7, <1>13 DEF ReportsInv
<1> QED BY <1>16, <1>17, <1>18, <1>19, <1>20 DEF ReportsInv

(* The tracker learns of the checkpoint.                                   *)
LEMMA CheckedKeeps ==
  ASSUME StacksInv, LockInv, ReportsInv, NEW t \in Threads, Checked(t)
  PROVE  ReportsInv'
<1> DEFINE st == stack[t]  n == stack'[t]  k == Tracker(t)
           x == IF Top(t).stmt.op = "checkpoint" THEN [tracker[k] EXCEPT !.last = Top(t).id]
                ELSE [enabled |-> Logger(t) \in registered, last |-> <<>>]
<1>1. /\ st # <<>> /\ Top(t).stmt.op \in {"checkpoint", "complete"} /\ Top(t).pc = "checked"
      /\ stack' = [stack EXCEPT ![t] = Front(@)]
      /\ tracker' = [tracker EXCEPT ![k] = x]
      /\ reports' = reports /\ m_data' = m_data /\ mixed' = mixed
  BY DEF Checked, Tracking, At, Running, Pop
<1>2. /\ st \in Seq(Frames) /\ Len(st) \in Nat \ {0} /\ Top(t) = st[Len(st)]
      /\ Top(t) \in Frames /\ Logger(t) \in Loggers
  BY <1>1, TopFacts
<1>3. Top(t).id \in Ids BY <1>2 DEF Frames
<1>4. k \in Trackers /\ k = TrackerOf[Top(t).stmt.loggers[Top(t).at]]
  BY <1>2, LogWriterAssumption DEF Tracker, Logger
<1>5. x \in [enabled : BOOLEAN, last : Lasts] /\ (x.last = <<>> \/ x.last = Top(t).id)
  <2>1. tracker[k] \in [enabled : BOOLEAN, last : Lasts] BY <1>4 DEF ReportsInv
  <2>2. Top(t).id \in Lasts /\ <<>> \in Lasts BY <1>3 DEF Lasts
  <2>3. CASE Top(t).stmt.op = "checkpoint" BY <2>1, <2>2, <2>3
  <2>4. CASE Top(t).stmt.op # "checkpoint"
    <3> DEFINE b == Logger(t) \in registered
    <3>1. b \in BOOLEAN OBVIOUS
    <3>2. x = [enabled |-> b, last |-> <<>>] BY <2>4
    <3> HIDE DEF b, x
    <3> QED BY <2>2, <3>1, <3>2
  <2> QED BY <2>3, <2>4
<1> HIDE DEF k, x
<1>6. /\ n = Front(st) /\ \A u \in Threads \ {t} : stack'[u] = stack[u]
  BY <1>1 DEF StacksInv
<1>7. Len(n) = Len(st) - 1 /\ \A i \in 1 .. Len(st) - 1 : n[i] = st[i]
  BY <1>1, <1>2, <1>6, PopSeq
<1>8. Quiet(st, n) BY CheckedEffect
<1>9. On(st[Len(st)], k) BY <1>1, <1>2, <1>4 DEF On, Tracks
<1>10. Latest(reports, k, Top(t).id)
  <2>1. Len(st) \in 1 .. Len(st) BY <1>2
  <2> QED BY <1>1, <1>2, <1>4, <1>9, <2>1 DEF ReportsInv
<1> HIDE DEF st, n
<1>11. /\ tracker' \in [Trackers -> [enabled : BOOLEAN, last : Lasts]]
       /\ tracker'[k] = x /\ \A j \in Trackers \ {k} : tracker'[j] = tracker[j]
  BY <1>1, <1>4, <1>5 DEF ReportsInv
<1>12. ASSUME NEW j \in Trackers
       PROVE  \/ tracker'[j].last = <<>> \/ Latest(reports', j, tracker'[j].last)
              \/ \E u \in Threads : Finishing(stack'[u], j)
  <2>1. CASE j = k BY <1>1, <1>5, <1>10, <1>11, <2>1
  <2>2. CASE j # k
    <3>1. \/ tracker[j].last = <<>> \/ Latest(reports, j, tracker[j].last)
          \/ \E u \in Threads : Finishing(stack[u], j)
      BY DEF ReportsInv
    <3>2. ASSUME NEW u \in Threads, Finishing(stack[u], j) PROVE Finishing(stack'[u], j)
      <4>1. CASE u # t BY <1>6, <3>2, <4>1
      <4>2. CASE u = t
        <5>1. PICK i \in 1 .. Len(st) : On(st[i], j) /\ st[i].pc = "checked"
          BY <3>2, <4>2 DEF Finishing, st
        <5>2. i # Len(st) BY <1>9, <2>2, <5>1 DEF On
        <5>3. i \in 1 .. Len(st) - 1 /\ i \in 1 .. Len(n) BY <1>2, <1>7, <5>2
        <5>4. n[i] = st[i] BY <1>7, <5>3
        <5>5. Finishing(n, j) BY <5>1, <5>3, <5>4 DEF Finishing
        <5> QED BY <4>2, <5>5 DEF n
      <4> QED BY <4>1, <4>2
    <3> QED BY <1>1, <1>11, <2>2, <3>1, <3>2
  <2> QED BY <2>1, <2>2
<1>13. ASSUME NEW u \in Threads, NEW j \in Trackers, NEW i \in 1 .. Len(stack'[u]),
              On(stack'[u][i], j), stack'[u][i].pc = "checked"
       PROVE  Latest(reports', j, stack'[u][i].id)
  <2>1. i \in 1 .. Len(stack[u]) /\ stack'[u][i] = stack[u][i]
    BY <1>2, <1>6, <1>7, <1>13 DEF st, n
  <2> QED BY <1>1, <1>13, <2>1 DEF ReportsInv
<1>14. ASSUME NEW u \in Threads, Handling(stack'[u])
       PROVE  m_data' = stack'[u][Len(stack'[u])].id \/ stack'[u][Len(stack'[u])].id \in mixed'
  <2>1. u # t
    <3> SUFFICES ASSUME Handling(n) PROVE FALSE BY <1>14 DEF n
    <3>1. n # <<>> /\ n \in Seq(Frames) BY <1>1, <1>2, <1>6, PopSeq DEF Handling
    <3>2. Len(n) \in 1 .. Len(n) BY <3>1
    <3> QED BY <1>8, <3>2 DEF Quiet, Handling
  <2>2. stack'[u] = stack[u] BY <1>6, <2>1
  <2> QED BY <1>1, <1>14, <2>2 DEF ReportsInv
<1>15. \A i \in 1 .. Len(reports') : Told(reports', i, mixed') BY <1>1 DEF ReportsInv
<1>16. m_data' \in Lasts /\ reports' \in Seq(ReportSet) BY <1>1 DEF ReportsInv
<1> QED BY <1>11, <1>12, <1>13, <1>14, <1>15, <1>16 DEF ReportsInv

(* Every step keeps what is known of the reports.                          *)
LEMMA ReportsKept ==
  StacksInv /\ LockInv /\ ReportsInv /\ [Next]_vars => ReportsInv'
<1> SUFFICES ASSUME StacksInv, LockInv, ReportsInv, [Next]_vars PROVE ReportsInv' OBVIOUS
<1>1. ASSUME UNCHANGED <<stack, performance>> PROVE ReportsInv'
  <2>1. \A u \in Threads : Steady(stack[u], stack'[u]) /\ Still(stack[u], stack'[u])
    BY <1>1 DEF Steady, Still
  <2> QED BY <1>1, <2>1, SteadyKeeps
<1>2. CASE UNCHANGED vars BY <1>1, <1>2 DEF vars
<1>3. ASSUME NEW t \in Threads, Begin(t) PROVE ReportsInv' BY <1>3, BeginKeeps
<1>4. ASSUME NEW t \in Threads, Crash(t) PROVE ReportsInv' BY <1>4, CrashKeeps
<1>5. ASSUME NEW t \in Threads, Step(t) PROVE ReportsInv'
  <2>1. CASE Tells(t) BY <2>1, CheckpointKeeps, ReportKeeps, CheckedKeeps DEF Tells
  <2>2. CASE Abort(t) BY <1>1, <2>2 DEF Abort
  <2>3. CASE ~Tells(t) /\ ~Abort(t)
    <3>1. Effect(t) /\ Calm(t) BY <1>5, <2>3, StepEffect
    <3>2. ~(Tracks(Top(t)) /\ Top(t).pc \in {"handle", "checked"}) BY <1>5, <2>3, Elsewhere
    <3> QED BY <3>1, <3>2, CalmKeeps
  <2> QED BY <2>1, <2>2, <2>3
<1> QED BY <1>2, <1>3, <1>4, <1>5 DEF Next

(* There are none at first.                                                *)
LEMMA ReportsFirst == Init => ReportsInv
<1> SUFFICES ASSUME Init PROVE ReportsInv OBVIOUS
<1>1. \A t \in Threads : stack[t] = <<>> BY DEF Init
<1>2. /\ tracker = [k \in Trackers |-> [enabled |-> TRUE, last |-> <<>>]]
      /\ m_data = <<>> /\ reports = <<>>
  BY DEF Init
<1>3. <<>> \in Lasts BY DEF Lasts
<1>4. \A k \in Trackers : tracker[k].last = <<>> BY <1>2
<1>5. tracker \in [Trackers -> [enabled : BOOLEAN, last : Lasts]] BY <1>2, <1>3
<1>6. m_data \in Lasts /\ reports \in Seq(ReportSet) /\ Len(reports) = 0 BY <1>2, <1>3
<1> QED BY <1>1, <1>4, <1>5, <1>6 DEF ReportsInv, Handling

(* Exclusive follows.                                                      *)
LEMMA ExclusiveFollows == StacksInv /\ LockInv /\ ReportsInv => Exclusive
<1> SUFFICES ASSUME StacksInv, LockInv, ReportsInv PROVE Exclusive OBVIOUS
<1>1. ASSUME NEW k \in Locks \ spoiled, NEW t \in Threads
      PROVE  Cardinality(Holding(t, k)) = IF lock[k].owner = t THEN lock[k].depth ELSE 0
  <2>1. DOMAIN stack[t] = 1 .. Len(stack[t]) BY DEF StacksInv
  <2>2. Holding(t, k) = {i \in 1 .. Len(stack[t]) : k \in Holds(stack[t][i])}
    BY <2>1 DEF Holding
  <2>3. Cardinality(Holding(t, k)) = Count(stack[t], k) BY <2>2 DEF Count
  <2> QED BY <2>3 DEF LockInv, LockOk
<1>2. ASSUME NEW i \in DOMAIN reports
      PROVE  LET e == reports[i]  before == {j \in 1 .. i - 1 : reports[j].on = e.on}
             IN  /\ e.from = <<>> \/ (before # {} /\ e.from = reports[Max(before)].at)
                 /\ e.of = e.at \/ e.at \in mixed
  <2>1. i \in 1 .. Len(reports) /\ i \in Nat BY DEF ReportsInv
  <2>2. Told(reports, i, mixed) BY <2>1 DEF ReportsInv
  <2> QED BY <2>1, <2>2, ToldExclusive
<1> QED BY <1>1, <1>2 DEF Exclusive

(* Whatever the threads, loggers and programs are: a lock is held as often *)
(* as its owner's statements need it and by nobody else, loggers left      *)
(* locked apart, and every performance report starts from the one before   *)
(* it on its tracker and is its own unless another's met it.               *)
THEOREM LocksExclusive == Spec => []Exclusive
<1>1. Init => StacksInv /\ LockInv /\ ReportsInv BY StacksFirst, ReportsFirst
<1>2. StacksInv /\ LockInv /\ ReportsInv /\ [Next]_vars => (StacksInv /\ LockInv /\ ReportsInv)'
  BY StacksKept, ReportsKept
<1>3. StacksInv /\ LockInv /\ ReportsInv => Exclusive BY ExclusiveFollows
<1> QED BY <1>1, <1>2, <1>3, PTL DEF Spec

-----------------------------------------------------------------------------
(* Deadlocks.  Where a thread that waits for a lock is.                    *)
LEMMA WantsFacts ==
  ASSUME StacksInv, NEW t \in Threads, NEW k \in Wants(t)
  PROVE  /\ stack[t] # <<>> /\ k \in Locks
         /\ Top(t).pc \in {"init", "gate", "reset", "apply", "dispatch"}
         /\ Top(t).pc = "dispatch" => k = "storage"
<1>1. stack[t] # <<>> BY DEF Wants, Running
<1>2. Logger(t) \in Loggers BY <1>1, TopFacts
<1>3. Logger(t) \in Locks /\ Tracker(t) \in Locks /\ "storage" \in Locks
  BY <1>2, LogWriterAssumption DEF Locks, Tracker
<1>4. \/ Top(t).pc = "init" /\ k = Logger(t)
      \/ Top(t).pc = "gate" /\ k \in {Logger(t), Tracker(t)}
      \/ Top(t).pc \in {"reset", "apply"} /\ k = Logger(t)
      \/ Top(t).pc = "dispatch" /\ k = "storage"
  BY DEF Wants, Tracking, At
<1> QED BY <1>1, <1>3, <1>4

(* Where no logger was left locked, a lock's owner has a statement that    *)
(* needs it.                                                               *)
LEMMA OwnerHolds ==
  ASSUME StacksInv, LockInv, spoiled = {}, NEW t \in Threads, NEW k \in Locks, lock[k].owner = t
  PROVE  \E i \in 1 .. Len(stack[t]) : k \in Holds(stack[t][i])
<1>1. lock[k].depth # 0 /\ Free # t BY LogWriterAssumption DEF LockInv, LockOk
<1>2. Count(stack[t], k) = lock[k].depth BY DEF LockInv, LockOk
<1>3. SUFFICES ASSUME \A i \in 1 .. Len(stack[t]) : k \notin Holds(stack[t][i]) PROVE FALSE
  OBVIOUS
<1>4. {i \in 1 .. Len(stack[t]) : k \in Holds(stack[t][i])} = {} BY <1>3
<1> QED BY <1>1, <1>2, <1>4, FS_EmptySet DEF Count

(* Storage's lock is needed by a statement that is being dispatched.       *)
LEMMA StorageHeld ==
  ASSUME StacksInv, NEW t \in Threads, NEW i \in 1 .. Len(stack[t]),
         "storage" \in Holds(stack[t][i])
  PROVE  stack[t][i].pc \in {"rollfirst", "callback", "roll", "written"}
<1> DEFINE fr == stack[t][i]  l == fr.stmt.loggers[fr.at]
<1>1. fr \in Frames /\ Shape(fr)
  <2>1. stack[t] \in Seq(Frames) /\ StackOk(stack[t]) BY DEF StacksInv
  <2> QED BY <2>1 DEF StackOk
<1>2. l \in Loggers
  <2>1. fr.stmt.loggers \in Seq(Loggers) /\ fr.at \in 1 .. Len(fr.stmt.loggers)
    BY <1>1 DEF Frames, Framed, StatementsWith, Shape
  <2> QED BY <2>1
<1>3. l # "storage" /\ TrackerOf[l] # "storage" BY <1>2, LogWriterAssumption
<1> HIDE DEF fr, l
<1>4. "storage" \in Holds(fr) BY DEF fr
<1>5. Holds(fr) = CASE
        fr.stmt.op = "write" /\ fr.pc \in {"head", "tail", "dispatch", "release"} -> {l}
     [] fr.stmt.op = "write" /\ fr.pc \in {"rollfirst", "callback", "roll", "written"} ->
          {l, "storage"}
     [] fr.stmt.op \in {"flush", "configure"} /\ fr.pc \in {"roll", "flushed"} -> {l}
     [] fr.stmt.op \in {"checkpoint", "complete"} /\ fr.pc \in {"handle", "checked"} ->
          {TrackerOf[l]}
     [] OTHER -> {}
  BY DEF Holds, l
<1>6. fr.pc \in {"rollfirst", "callback", "roll", "written"} BY <1>3, <1>4, <1>5
<1> QED BY <1>6 DEF fr

(* Of a circle one thread is followed: it holds and waits, so it is writing.*)
LEMMA NestingFollows == StacksInv /\ LockInv => DeadlockNeedsNesting
<1> SUFFICES ASSUME StacksInv, LockInv, spoiled = {}, NEW S \in SUBSET Threads, Circle(S),
                    NEW t \in S, ~(Len(stack[t]) > 1)
             PROVE  \E u \in S : Crashing(u)
  BY DEF DeadlockNeedsNesting
<1>1. \A u \in S : \E k \in Wants(u) : lock[k].owner \in S \ {u} BY DEF Circle, Deadlocked
<1>2. stack[t] # <<>> /\ Len(stack[t]) = 1
  <2>1. PICK k \in Wants(t) : lock[k].owner \in S \ {t} BY <1>1
  <2>2. stack[t] # <<>> /\ Len(stack[t]) \in Nat \ {0} BY <2>1, WantsFacts, TopFacts
  <2> DEFINE d == Len(stack[t])
  <2>3. d \in Nat \ {0} /\ ~(d > 1) BY <2>2
  <2> HIDE DEF d
  <2>4. d = 1 BY <2>3
  <2> QED BY <2>2, <2>4 DEF d
(* The others are not deadlocked without t: one of them waits for it.      *)
<1>3. PICK u \in S \ {t} : \E k \in Wants(u) : lock[k].owner = t
  <2> DEFINE R == S \ {t}
  <2>1. R # {} BY <1>1
  <2>2. R \in SUBSET S /\ R # S OBVIOUS
  <2>3. ~Deadlocked(R) BY <2>2 DEF Circle
  <2>4. PICK u \in R : \A k \in Wants(u) : lock[k].owner \notin R \ {u}
    BY <2>1, <2>3 DEF Deadlocked
  <2>5. PICK k \in Wants(u) : lock[k].owner \in S \ {u} BY <1>1
  <2>6. lock[k].owner = t BY <2>4, <2>5
  <2> QED BY <2>5, <2>6
(* So t has a lock and waits for another: its statement is dispatched.     *)
<1>4. PICK k \in Wants(u) : lock[k].owner = t BY <1>3
<1>5. k \in Locks BY <1>4, WantsFacts
<1>6. k \in Holds(Top(t))
  <2>1. PICK i \in 1 .. Len(stack[t]) : k \in Holds(stack[t][i]) BY <1>4, <1>5, OwnerHolds
  <2>2. i = 1 BY <1>2
  <2>3. Top(t) = stack[t][1] BY <1>2, TopFacts
  <2> QED BY <2>1, <2>2, <2>3
<1>7. PICK j \in Wants(t) : lock[j].owner \in S \ {t} BY <1>1
<1>8. j = "storage"
  <2>1. /\ Top(t).pc \in {"init", "gate", "reset", "apply", "dispatch"}
        /\ Top(t).pc = "dispatch" => j = "storage"
    BY <1>7, WantsFacts
  <2>2. Top(t).pc \notin {"init", "gate", "reset", "apply"} BY <1>6 DEF Holds
  <2> QED BY <2>1, <2>2
(* Who owns Storage's lock waits, too: a crash interrupted its dispatch.   *)
<1>9. PICK v \in S : lock["storage"].owner = v BY <1>7, <1>8
<1>10. PICK i \in 1 .. Len(stack[v]) : "storage" \in Holds(stack[v][i])
  <2>1. "storage" \in Locks BY DEF Locks
  <2> QED BY <1>9, <2>1, OwnerHolds
<1>11. stack[v][i].pc \in {"rollfirst", "callback", "roll", "written"}
  BY <1>10, StorageHeld
<1>12. stack[v] # <<>> /\ Top(v).pc \in {"init", "gate", "reset", "apply", "dispatch"}
  <2>1. PICK m \in Wants(v) : lock[m].owner \in S \ {v} BY <1>1
  <2> QED BY <2>1, WantsFacts
<1>13. stack[v] \in Seq(Frames) /\ StackOk(stack[v]) /\ Len(stack[v]) \in Nat \ {0}
       /\ Top(v) = stack[v][Len(stack[v])]
  BY <1>12, TopFacts
<1>14. i # Len(stack[v]) BY <1>11, <1>12, <1>13
<1>15. i \in 1 .. Len(stack[v]) - 1 /\ i + 1 \in 1 .. Len(stack[v]) BY <1>13, <1>14
<1>16. Crashes(stack[v][i + 1]) BY <1>11, <1>13, <1>15 DEF StackOk, Waiting
<1>17. i + 1 \in DOMAIN stack[v] BY <1>13, <1>15
<1>18. Crashing(v) BY <1>16, <1>17 DEF Crashing, Crashes
<1> QED BY <1>18

(* However many threads and loggers there are: where no logger was left    *)
(* locked, threads that wait for each other in a circle all log from       *)
(* within a statement, or one of them has crashed.                         *)
THEOREM CirclesNest == Spec => []DeadlockNeedsNesting
<1>1. Init => StacksInv /\ LockInv BY StacksFirst
<1>2. StacksInv /\ LockInv /\ [Next]_vars => (StacksInv /\ LockInv)' BY StacksKept
<1>3. StacksInv /\ LockInv => DeadlockNeedsNesting BY NestingFollows
<1> QED BY <1>1, <1>2, <1>3, PTL DEF Spec

-----------------------------------------------------------------------------
(* Files.                                                                  *)
LineSet == [by : Ids, stmt : Framed, at : Nat \ {0}, top : Framed, crashed : BOOLEAN,
            to : Loggers, text : Seq(Ids)]
FileSet == [text : Seq(LineSet), kept : Nat, open : BOOLEAN, fail : BOOLEAN, past : Seq(LineSet)]

(* Nothing is buffered, *)
Drained(fl) == fl.kept = Len(fl.text)

(* and nothing in a closed file. *)
Sound(fl) == fl \in FileSet /\ fl.kept <= Len(fl.text) /\ (fl.open \/ Drained(fl))

(* The file takes one more line without exceeding its limit. *)
Roomy(fl) == fl.open /\ ~fl.fail => Len(fl.text) < MaxSize

Limited == Has("StrictLogFileSizeCheck") /\ MaxSize # 0

(* A thread that is about to write, which it may have checked before. *)
Writing(t) == stack[t] # <<>> /\ Top(t).pc = "callback"

Counts == [Loggers -> [Level -> Nat]]

Bounded(l, v) ==
  l \notin removed /\ ~file[FileOf[l]].fail /\ ~BeingConfigured(l) =>
    Cardinality(Buffered(l, v)) <= unflushed[l][v]

FilesInv ==
  /\ DOMAIN file = Files /\ \A f \in Files : Sound(file[f])
  /\ unflushed \in Counts
  /\ \A l \in Loggers, v \in Level :
       Bounded(l, v) /\ (unflushed[l][v] < Threshold \/ unflushed[l][v] = 0)
  /\ Limited => /\ \A f \in Files : Len(file[f].text) <= MaxSize
                /\ \A t \in Threads : Writing(t) => Roomy(file[FileOf[Logger(t)]])

(* A file that is flushed, closed or opened.                               *)
Settles(fl, gl) ==
  /\ Sound(gl)
  /\ gl = fl \/ gl.fail \/ Drained(gl)
  /\ gl.text \in {fl.text, <<>>}
  /\ gl.open /\ ~gl.fail /\ gl.text # <<>> => fl.open /\ ~fl.fail

(* Flushing leaves nothing buffered or a stream that fails.                *)
LEMMA FlushedSettles ==
  ASSUME NEW fl, Sound(fl)
  PROVE  /\ Settles(fl, Flushed(fl)) /\ (Flushed(fl).fail \/ Drained(Flushed(fl)))
         /\ Flushed(fl).open = fl.open /\ Flushed(fl).fail = fl.fail
         /\ Flushed(fl).text = fl.text
<1>1. /\ fl \in FileSet /\ Len(fl.text) \in Nat /\ fl.kept <= Len(fl.text)
      /\ fl.open \/ fl.kept = Len(fl.text)
  BY DEF Sound, Drained, FileSet
<1>2. CASE fl.open /\ ~fl.fail
  <2> DEFINE gl == [fl EXCEPT !.kept = Len(fl.text)]
  <2>1. /\ gl \in FileSet /\ gl.kept = Len(fl.text) /\ gl.text = fl.text
        /\ gl.open = fl.open /\ gl.fail = fl.fail
    BY <1>1 DEF FileSet
  <2>2. Flushed(fl) = gl BY <1>2 DEF Flushed
  <2> HIDE DEF gl
  <2>3. Drained(gl) BY <2>1 DEF Drained
  <2>4. Sound(gl) BY <1>1, <2>1, <2>3 DEF Sound
  <2>5. Settles(fl, gl) BY <1>2, <2>1, <2>3, <2>4 DEF Settles
  <2> QED BY <2>1, <2>2, <2>3, <2>5
<1>3. CASE ~(fl.open /\ ~fl.fail)
  <2>1. Flushed(fl) = fl BY <1>3 DEF Flushed
  <2> QED BY <1>1, <1>3, <2>1 DEF Settles, Sound, Drained
<1> QED BY <1>2, <1>3

(* So does closing,                                                        *)
LEMMA ClosedSettles ==
  ASSUME NEW fl, Sound(fl)
  PROVE  /\ Settles(fl, Closed(fl)) /\ (Closed(fl).fail \/ Drained(Closed(fl)))
         /\ Closed(fl).text = fl.text /\ ~Closed(fl).open
<1>1. fl \in FileSet /\ Len(fl.text) \in Nat /\ fl.kept <= Len(fl.text)
  BY DEF Sound, FileSet
<1>2. CASE fl.open
  <2> DEFINE gl == [fl EXCEPT !.open = FALSE, !.kept = Len(fl.text)]
  <2>1. /\ gl \in FileSet /\ gl.kept = Len(fl.text) /\ gl.text = fl.text
        /\ gl.open = FALSE /\ gl.fail = fl.fail
    BY <1>1 DEF FileSet
  <2>2. Closed(fl) = gl BY <1>2 DEF Closed
  <2> HIDE DEF gl
  <2> QED BY <1>1, <1>2, <2>1, <2>2 DEF Settles, Sound, Drained
<1>3. CASE ~fl.open
  <2> DEFINE gl == [fl EXCEPT !.fail = TRUE]
  <2>1. /\ gl \in FileSet /\ gl.kept = fl.kept /\ gl.text = fl.text
        /\ gl.open = fl.open /\ gl.fail = TRUE
    BY <1>1 DEF FileSet
  <2>2. Closed(fl) = gl BY <1>3 DEF Closed
  <2> HIDE DEF gl
  <2> QED BY <1>1, <1>3, <2>1, <2>2 DEF Settles, Sound, Drained
<1> QED BY <1>2, <1>3

(* and opening, after which a line has room.                               *)
LEMMA ReopenedSettles ==
  ASSUME NEW fl, Sound(fl)
  PROVE  /\ Settles(fl, Reopened(fl))
         /\ Reopened(fl).fail \/ Reopened(fl).text = <<>>
<1>1. fl \in FileSet /\ Len(fl.text) \in Nat /\ fl.kept <= Len(fl.text)
  BY DEF Sound, FileSet
<1>2. CASE fl.open
  <2> DEFINE gl == [fl EXCEPT !.fail = TRUE]
  <2>1. /\ gl \in FileSet /\ gl.kept = fl.kept /\ gl.text = fl.text
        /\ gl.open = fl.open /\ gl.fail = TRUE
    BY <1>1 DEF FileSet
  <2>2. Reopened(fl) = gl BY <1>2 DEF Reopened
  <2> HIDE DEF gl
  <2> QED BY <1>1, <1>2, <2>1, <2>2 DEF Settles, Sound, Drained
<1>3. CASE ~fl.open
  <2> DEFINE gl == [text |-> <<>>, kept |-> 0, open |-> TRUE, fail |-> FALSE,
                    past |-> fl.past \o fl.text]
  <2>1. fl.past \o fl.text \in Seq(LineSet) /\ <<>> \in Seq(LineSet) BY <1>1 DEF FileSet
  <2>2. /\ gl \in FileSet /\ gl.kept = 0 /\ gl.text = <<>> /\ gl.open = TRUE /\ gl.fail = FALSE
    BY <2>1 DEF FileSet
  <2>3. Reopened(fl) = gl /\ Len(<<>>) = 0 BY <1>3 DEF Reopened
  <2> HIDE DEF gl
  <2> QED BY <1>1, <1>3, <2>2, <2>3 DEF Settles, Sound, Drained
<1> QED BY <1>2, <1>3

(* A file that is flushed, and closed if it is too large.                  *)
LEMMA FlushClosedSettles ==
  ASSUME NEW fl, Sound(fl)
  PROVE  LET gl == Closed(Flushed(fl)) IN Settles(fl, gl) /\ (gl.fail \/ Drained(gl))
<1> DEFINE ml == Flushed(fl)  gl == Closed(ml)
<1>1. Settles(fl, ml) /\ ml.text = fl.text BY FlushedSettles
<1>2. Sound(ml) BY <1>1 DEF Settles
<1> HIDE DEF ml
<1>3. Settles(ml, gl) /\ (gl.fail \/ Drained(gl)) /\ gl.text = ml.text /\ ~gl.open
  BY <1>2, ClosedSettles
<1> HIDE DEF gl
<1> QED BY <1>1, <1>3 DEF Settles, gl, ml


-----------------------------------------------------------------------------
(* A logger that is being configured, in whatever statement another thread *)
(* or this one executes.                                                   *)
LEMMA ResettingStays ==
  ASSUME StacksInv, NEW t \in Threads, stack[t] # <<>>, NEW H, Turn(t, H),
         NEW l, BeingConfigured(l), ~Resetting(Top(t), l)
  PROVE  BeingConfigured(l)'
<1>0. PICK u \in Threads : \E i \in DOMAIN stack[u] : Resetting(stack[u][i], l)
  BY DEF BeingConfigured
<1>1. PICK i \in DOMAIN stack[u] : Resetting(stack[u][i], l) BY <1>0
<1>2. stack[u] \in Seq(Frames) /\ stack'[u] \in Seq(Frames) BY DEF StacksInv, Turn
<1>3. i \in DOMAIN stack'[u] /\ stack'[u][i] = stack[u][i]
  <2>1. CASE u # t BY <2>1, <1>1 DEF Turn
  <2>2. CASE u = t
    <3>1. Top(t) = stack[t][Len(stack[t])] BY TopFacts
    <3>2. i # Len(stack[t]) BY <1>1, <2>2, <3>1
    <3>3. i \in 1 .. Len(stack[t]) - 1 BY <1>1, <1>2, <2>2, <3>2
    <3>4. i \in 1 .. Len(stack'[t]) /\ stack'[t][i] = stack[t][i]
      BY <3>3 DEF Turn, Turned
    <3> QED BY <1>2, <2>2, <3>4
  <2> QED BY <2>1, <2>2
<1> QED BY <1>1, <1>3 DEF BeingConfigured, Resetting

(* What comes to the top of a stack: the statement that goes on,           *)
LEMMA BecomeTop ==
  ASSUME StacksInv, NEW t \in Threads, stack[t] # <<>>, NEW f, Become(t, f)
  PROVE  stack'[t] # <<>> /\ Top(t)' = f
<1> DEFINE st == stack[t]  n == Append(Front(st), f)  F == Frames \cup {f}
<1>1. st \in Seq(Frames) BY DEF StacksInv
<1>2. st \in Seq(F) /\ st # <<>> /\ f \in F BY <1>1
<1>3. n \in Seq(F) /\ Len(n) = Len(st) /\ n[Len(st)] = f /\ Len(st) \in Nat \ {0}
  <2> HIDE DEF st, F
  <2>1. Len(st) \in Nat \ {0} BY <1>2
  <2> QED BY <1>2, <2>1, BecomeSeq
<1>4. stack' = [stack EXCEPT ![t] = n] /\ DOMAIN stack = Threads BY DEF Become, StacksInv
<1> HIDE DEF n, F
<1>5. stack'[t] = n BY <1>4
<1>6. n # <<>> BY <1>3
<1>7. Last(n) = f BY <1>3 DEF Last
<1> QED BY <1>5, <1>6, <1>7 DEF Top

(* one that executed another,                                              *)
LEMMA PopTop ==
  ASSUME StacksInv, NEW t \in Threads, stack[t] # <<>>, ~Crashes(Top(t)), Pop(t),
         stack'[t] # <<>>
  PROVE  Top(t)'.pc \in Waiting
<1> DEFINE st == stack[t]  n == Front(st)
<1>1. st \in Seq(Frames) /\ StackOk(st) /\ Len(st) \in Nat \ {0} /\ Top(t) = st[Len(st)]
  BY TopFacts
<1>2. n \in Seq(Frames) /\ Len(n) = Len(st) - 1 /\ \A i \in 1 .. Len(st) - 1 : n[i] = st[i]
  BY <1>1, PopSeq
<1>3. stack' = [stack EXCEPT ![t] = n] /\ DOMAIN stack = Threads BY DEF Pop, StacksInv
<1> HIDE DEF n
<1>4. stack'[t] = n BY <1>3
<1>5. n # <<>> /\ Len(n) \in Nat \ {0}
  <2>1. n # <<>> BY <1>4
  <2>2. n \in Seq(Frames) BY <1>2
  <2> QED BY <2>1, <2>2
<1> DEFINE k == Len(st)  i == k - 1
<1>6. i \in 1 .. Len(st) - 1 /\ i + 1 = Len(st)
  <2>1. k \in Nat /\ Len(n) = k - 1 BY <1>1, <1>2
  <2> SUFFICES i \in 1 .. k - 1 /\ i + 1 = k OBVIOUS
  <2> HIDE DEF k
  <2> QED BY <2>1, <1>5
<1>7. Top(t)' = st[i] BY <1>2, <1>4, <1>6 DEF Top, Last
<1>8. Crashes(st[i + 1]) \/ st[i].pc \in Waiting BY <1>1, <1>6 DEF StackOk
<1>9. st[i + 1] = Top(t) BY <1>1, <1>6
<1> QED BY <1>7, <1>8, <1>9

(* and the one that is executed.                                           *)
LEMMA CoverTop ==
  ASSUME StacksInv, NEW t \in Threads, stack[t] # <<>>, NEW f, NEW g,
         stack' = [stack EXCEPT ![t] = Front(@) \o <<f, g>>]
  PROVE  stack'[t] # <<>> /\ Top(t)' = g
<1> DEFINE st == stack[t]  n == Front(st) \o <<f, g>>  F == Frames \cup {f, g}
<1>1. st \in Seq(Frames) BY DEF StacksInv
<1>2. st \in Seq(F) /\ st # <<>> /\ f \in F /\ g \in F BY <1>1
<1>3. /\ n \in Seq(F) /\ Len(n) = Len(st) + 1 /\ n[Len(st) + 1] = g
      /\ Len(st) \in Nat \ {0}
  <2> HIDE DEF st, F
  <2>1. Len(st) \in Nat \ {0} BY <1>2
  <2> QED BY <1>2, <2>1, CoverSeq
<1>4. stack' = [stack EXCEPT ![t] = n] /\ DOMAIN stack = Threads BY DEF StacksInv
<1> HIDE DEF n, F
<1>5. stack'[t] = n BY <1>4
<1>6. n # <<>> BY <1>3
<1>7. Last(n) = g BY <1>3 DEF Last
<1> QED BY <1>5, <1>6, <1>7 DEF Top

(* From the dispatch of a write until its logger is released.               *)
Late == {"rollfirst", "callback", "roll", "written", "release"}
TopLate(t) == stack[t] # <<>> /\ Top(t).pc \in Late

(* Steps that do not bring a write to the top.                             *)
Covers(t) ==
  \E f, g : g.pc = "gate" /\ stack' = [stack EXCEPT ![t] = Front(@) \o <<f, g>>]

LEMMA NotLate ==
  ASSUME StacksInv, NEW t \in Threads, stack[t] # <<>>,
         \/ \E f : f.pc \notin Late /\ Become(t, f)
         \/ \E pc \in Pcs \ Late : Go(t, pc)
         \/ ~Crashes(Top(t)) /\ Pop(t)
         \/ ~Crashes(Top(t)) /\ AfterLogger(t)
         \/ Covers(t)
  PROVE  ~TopLate(t)'
<1>1. ASSUME NEW f, f.pc \notin Late, Become(t, f) PROVE ~TopLate(t)'
  BY <1>1, BecomeTop DEF TopLate
<1>2. ASSUME NEW pc \in Pcs \ Late, Go(t, pc) PROVE ~TopLate(t)'
  <2> DEFINE f == [Top(t) EXCEPT !.pc = pc]
  <2>1. f.pc = pc BY TopFacts DEF Frames
  <2>2. Become(t, f) BY <1>2 DEF Go
  <2> HIDE DEF f
  <2> QED BY <2>1, <2>2, <1>1, <1>2
<1>3. ASSUME ~Crashes(Top(t)), Pop(t) PROVE ~TopLate(t)'
  BY <1>3, PopTop DEF TopLate, Late, Waiting
<1>4. ASSUME ~Crashes(Top(t)), AfterLogger(t) PROVE ~TopLate(t)'
  <2> DEFINE f == [Top(t) EXCEPT !.at = @ + 1, !.pc = "init", !.proceed = FALSE]
  <2>1. f.pc = "init" BY TopFacts DEF Frames
  <2>2. Become(t, f) \/ Pop(t) BY <1>4 DEF AfterLogger
  <2> HIDE DEF f
  <2> QED BY <2>1, <2>2, <1>1, <1>3, <1>4 DEF Late
<1>5. ASSUME Covers(t) PROVE ~TopLate(t)'
  BY <1>5, CoverTop DEF Covers, TopLate, Late
<1> QED BY <1>1, <1>2, <1>3, <1>4, <1>5

(* What is executed starts at its gate.                                    *)
LEMMA ExecuteCovers ==
  ASSUME NEW t \in Threads, NEW fr, NEW s, Execute(t, fr, s)
  PROVE  Covers(t)
<1> DEFINE f == [fr EXCEPT !.calls = @ + 1]  g == Frame(Within(fr), s)
<1>1. stack' = [stack EXCEPT ![t] = Front(@) \o <<f, g>>] BY DEF Execute
<1>2. g.pc = "gate" BY DEF Frame
<1> HIDE DEF f, g
<1> QED BY <1>1, <1>2 DEF Covers

(* Only what dispatches a write brings it there; or Logger::flush.         *)
Dispatches(t) ==
  Dispatch(t) \/ RollFirst(t) \/ Callback(t) \/ Roll(t) \/ Undispatch(t) \/ FlushLogger(t)

LEMMA StepLate ==
  ASSUME StacksInv, NEW t \in Threads, Step(t), TopLate(t)'
  PROVE  Dispatches(t)
<1>0. stack[t] # <<>>
  <2>1. CASE \/ Normal(t) \/ Conditional(t) \/ EveryN(t) \/ AfterN(t) \/ NTimes(t)
             \/ InitializeLogger(t) \/ LoggerMissing(t) \/ Evaluate(t) \/ StreamHead(t)
             \/ StreamTail(t) \/ LogArguments(t) \/ Skip(t) \/ Missed(t) \/ Dispatch(t)
    BY <2>1 DEF Normal, Conditional, EveryN, AfterN, NTimes, Occasional, InitializeLogger,
        LoggerMissing, Evaluate, StreamHead, StreamTail, Stream, LogArguments, Skip, Missed,
        Dispatch, At, Running
  <2>2. CASE \/ RollFirst(t) \/ Callback(t) \/ Roll(t) \/ CallbackThrows(t) \/ Undispatch(t)
             \/ Release(t) \/ Abort(t) \/ FlushLogger(t) \/ FlushRoll(t) \/ FlushEnds(t)
             \/ FlushAll(t)
    BY <2>2 DEF RollFirst, Reopen, Callback, Roll, CallbackThrows, Undispatch, Release,
        Abort, FlushLogger, FlushRoll, FlushEnds, FlushAll, At, Running
  <2>3. CASE \/ Configure(t) \/ Apply(t) \/ RemoveLogger(t) \/ Untracked(t) \/ Checkpoint(t)
             \/ Report(t) \/ Checked(t) \/ logCrashReason(t)
    BY <2>3 DEF Configure, Apply, RemoveLogger, Untracked, Checkpoint, Report, Checked,
        logCrashReason, Tracking, At, Running
  <2> QED BY <2>1, <2>2, <2>3 DEF Step
<1>1. CASE Normal(t) \/ Conditional(t) \/ EveryN(t) \/ AfterN(t) \/ NTimes(t)
  <2>1. PICK b : Gate(t, b)
    BY <1>1 DEF Normal, Conditional, EveryN, AfterN, NTimes, Occasional
  <2>2. ~Crashes(Top(t)) /\ (Go(t, "init") \/ Pop(t)) BY <2>1 DEF Gate, At, Crashes
  <2> QED BY <1>0, <2>2, NotLate DEF Pcs, Late
<1>2. CASE InitializeLogger(t)
  <2> DEFINE pc == IF Top(t).at = 1 THEN "head" ELSE "dispatch"
             f == [Top(t) EXCEPT !.proceed = Enabled(Logger(t)), !.pc = pc]
  <2>1. Become(t, f) BY <1>2 DEF InitializeLogger
  <2>2. f.pc = pc /\ pc \notin Late BY <1>0, TopFacts DEF Frames, Late
  <2> HIDE DEF f
  <2> QED BY <1>0, <2>1, <2>2, NotLate
<1>3. CASE LoggerMissing(t) \/ Report(t)
  BY <1>0, <1>3, ExecuteCovers, NotLate DEF LoggerMissing, Report, Call
<1>4. CASE Evaluate(t)
  BY <1>0, <1>4, ExecuteCovers, NotLate DEF Evaluate
<1>5. CASE \/ StreamHead(t) \/ StreamTail(t) \/ FlushRoll(t) \/ Configure(t) \/ Checkpoint(t)
  <2>1. \E pc \in Pcs \ Late : Go(t, pc)
    BY <1>5 DEF StreamHead, StreamTail, Stream, Reopen, FlushRoll, Configure, Checkpoint, Pcs, Late
  <2> QED BY <1>0, <2>1, NotLate
<1>6. CASE LogArguments(t)
  <2> DEFINE f == [Top(t) EXCEPT !.proceed = Enabled(Logger(t)), !.stmt.op = "write", !.pc = "tail"]
  <2>1. ~Crashes(Top(t)) /\ (Become(t, f) \/ Pop(t)) BY <1>6 DEF LogArguments, At, Crashes
  <2>2. f.pc = "tail" BY <1>0, TopFacts DEF Frames
  <2> HIDE DEF f
  <2> QED BY <1>0, <2>1, <2>2, NotLate DEF Late
<1>7. CASE Skip(t) \/ Missed(t) \/ CallbackThrows(t)
  <2>1. ~Crashes(Top(t)) /\ AfterLogger(t)
    <3>1. Shape(Top(t)) BY <1>0, TopFacts
    <3> QED BY <1>7, <3>1 DEF Skip, Missed, CallbackThrows, At, Crashes, Shape, Allowed
  <2> QED BY <1>0, <2>1, NotLate
<1>8. CASE Release(t)
  <2>1. ~Crashes(Top(t)) BY <1>8 DEF Release, At, Crashes
  <2>2. AfterLogger(t) \/ Covers(t) BY <1>8, ExecuteCovers DEF Release, Call
  <2> QED BY <1>0, <2>1, <2>2, NotLate
<1>9. CASE Abort(t) BY <1>9 DEF Abort, At, TopLate, Late, Top
<1>10. CASE FlushEnds(t)
  <2>1. ~Crashes(Top(t)) /\ (Pop(t) \/ Go(t, "apply")) BY <1>10 DEF FlushEnds, At, Crashes
  <2> QED BY <1>0, <2>1, NotLate DEF Pcs, Late
<1>11. CASE FlushAll(t) \/ Apply(t) \/ RemoveLogger(t) \/ Untracked(t) \/ Checked(t)
  <2>1. ~Crashes(Top(t)) /\ Pop(t)
    BY <1>11 DEF FlushAll, Apply, RemoveLogger, Untracked, Checked, Tracking, At, Crashes
  <2> QED BY <1>0, <2>1, NotLate
<1>12. CASE logCrashReason(t)
  BY <1>0, <1>12, ExecuteCovers, NotLate DEF logCrashReason
<1> QED BY <1>1, <1>2, <1>3, <1>4, <1>5, <1>6, <1>7, <1>8, <1>9, <1>10, <1>11, <1>12
       DEF Step, Dispatches

(* A thread that goes on keeps its statement.                              *)
LEMMA GoTop ==
  ASSUME StacksInv, NEW t \in Threads, stack[t] # <<>>, NEW pc, Go(t, pc)
  PROVE  /\ stack'[t] # <<>> /\ Top(t)' = [Top(t) EXCEPT !.pc = pc]
         /\ Top(t)'.pc = pc /\ Top(t)'.id = Top(t).id /\ Top(t)'.stmt = Top(t).stmt
         /\ Top(t)'.at = Top(t).at /\ Top(t)'.calls = Top(t).calls
<1> DEFINE f == [Top(t) EXCEPT !.pc = pc]
<1>1. f.pc = pc /\ f.id = Top(t).id /\ f.stmt = Top(t).stmt /\ f.at = Top(t).at
      /\ f.calls = Top(t).calls
  BY TopFacts DEF Frames
<1>2. Become(t, f) BY DEF Go
<1> HIDE DEF f
<1>3. stack'[t] # <<>> /\ Top(t)' = f BY <1>2, BecomeTop
<1> QED BY <1>1, <1>3 DEF f

(* Only a dispatch, or the roll before it, goes on to write.               *)
LEMMA StepWrites ==
  ASSUME StacksInv, NEW t \in Threads, Step(t), Writing(t)'
  PROVE  Dispatch(t) \/ RollFirst(t)
<1>1. Dispatches(t) BY StepLate DEF Writing, TopLate, Late
<1>2. CASE Callback(t) \/ Roll(t) \/ Undispatch(t) \/ FlushLogger(t)
  <2>1. stack[t] # <<>> /\ \E pc \in {"roll", "written", "release", "flushed"} : Go(t, pc)
    BY <1>2 DEF Callback, Roll, Reopen, Undispatch, FlushLogger, At, Running
  <2> QED BY <2>1, GoTop DEF Writing
<1> QED BY <1>1, <1>2 DEF Dispatches

-----------------------------------------------------------------------------
(* What steps do to the files and to the counts.                           *)
FilesSettle == DOMAIN file' = Files /\ \A f \in Files : Settles(file[f], file'[f])

(* A logger whose count may be too low now.                                *)
Excused(l) ==
  \/ l \in removed' \/ BeingConfigured(l)'
  \/ file'[FileOf[l]].fail \/ Drained(file'[FileOf[l]])

CountsFollow ==
  /\ unflushed' \in Counts
  /\ \A l \in Loggers :
       \/ unflushed'[l] = unflushed[l] /\ ~BeingConfigured(l) /\ l \notin removed
       \/ unflushed'[l] \in {unflushed[l], initUnflushedCount} /\ Excused(l)

(* What buffers nothing bounds every count.                                *)
LEMMA DrainedBounded ==
  ASSUME NEW fl, Sound(fl), Drained(fl), NEW B, B \subseteq fl.kept + 1 .. Len(fl.text)
  PROVE  Cardinality(B) = 0
<1>1. fl.kept \in Nat /\ fl.kept = Len(fl.text) BY DEF Sound, FileSet, Drained
<1>2. B = {} BY <1>1
<1> QED BY <1>2, FS_EmptySet

(* The counts bound the buffers after a step that writes no line.          *)
LEMMA CountsKept ==
  ASSUME FilesInv, FilesSettle, CountsFollow, NEW l \in Loggers, NEW v \in Level
  PROVE  Bounded(l, v)' /\ (unflushed'[l][v] < Threshold \/ unflushed'[l][v] = 0)
<1> DEFINE f == FileOf[l]  fl == file[f]  gl == file'[f]
<1>1. f \in Files BY LogWriterAssumption
<1>2. Settles(fl, gl) /\ Sound(gl) BY <1>1 DEF FilesSettle, Settles
<1>3. unflushed'[l][v] \in Nat BY DEF CountsFollow, Counts
<1>4. unflushed'[l][v] < Threshold \/ unflushed'[l][v] = 0
  <2>1. unflushed[l][v] < Threshold \/ unflushed[l][v] = 0 BY DEF FilesInv
  <2>2. initUnflushedCount[v] = 0 BY DEF initUnflushedCount
  <2> QED BY <2>1, <2>2 DEF CountsFollow
<1>5. CASE gl.fail BY <1>4, <1>5 DEF Bounded
<1>6. CASE Drained(gl)
  <2> DEFINE B == {i \in gl.kept + 1 .. Len(gl.text) : gl.text[i].to = l /\ gl.text[i].stmt.level = v}
  <2>1. Buffered(l, v)' = B BY DEF Buffered
  <2>2. B \subseteq gl.kept + 1 .. Len(gl.text) OBVIOUS
  <2> HIDE DEF B, gl, f
  <2>3. Cardinality(B) = 0 BY <2>2, <1>2, <1>6, DrainedBounded
  <2>4. Cardinality(Buffered(l, v))' = 0 BY <2>1, <2>3
  <2> QED BY <2>4, <1>3, <1>4 DEF Bounded
<1>7. CASE ~gl.fail /\ ~Drained(gl)
  <2>1. gl = fl BY <1>2, <1>7 DEF Settles
  <2>2. Buffered(l, v)' = Buffered(l, v) BY <2>1 DEF Buffered
  <2>3. CASE l \in removed' \/ BeingConfigured(l)' BY <2>3, <1>4 DEF Bounded
  <2>4. CASE ~(l \in removed' \/ BeingConfigured(l)')
    <3>1. unflushed'[l] = unflushed[l] /\ ~BeingConfigured(l) /\ l \notin removed
      BY <2>4, <1>7 DEF CountsFollow, Excused
    <3>2. Bounded(l, v) BY DEF FilesInv
    <3>3. Cardinality(Buffered(l, v)) <= unflushed[l][v]
      BY <3>1, <3>2, <2>1, <1>7 DEF Bounded
    <3> QED BY <3>1, <3>3, <2>2, <1>4 DEF Bounded
  <2> QED BY <2>3, <2>4
<1> QED BY <1>5, <1>6, <1>7

(* A file that has room still has when it settles.                         *)
LEMMA RoomyStays ==
  ASSUME NEW fl, NEW gl, Settles(fl, gl), Roomy(fl), MaxSize # 0
  PROVE  Roomy(gl)
<1>1. MaxSize \in Nat /\ Len(<<>>) = 0 BY LogWriterAssumption
<1> QED BY <1>1 DEF Settles, Roomy

(* All of it, after a step of t that writes no line.                       *)
LEMMA SettleKeeps ==
  ASSUME FilesInv, FilesSettle, CountsFollow, NEW t \in Threads, UNCHANGED program,
         \A u \in Threads \ {t} : stack'[u] = stack[u],
         \A u \in Threads \ {t} : Writing(u) => Logger(u) \in Loggers,
         Limited /\ Writing(t)' => Roomy(file'[FileOf[Logger(t)']])
  PROVE  FilesInv'
<1>1. \A f \in Files : Sound(file'[f]) BY DEF FilesSettle, Settles
<1>2. unflushed' \in Counts BY DEF CountsFollow
<1>3. \A l \in Loggers, v \in Level :
        Bounded(l, v)' /\ (unflushed'[l][v] < Threshold \/ unflushed'[l][v] = 0)
  BY CountsKept
<1>4. Limited' <=> Limited BY DEF Limited, Has
<1>5. ASSUME Limited, NEW f \in Files PROVE Len(file'[f].text) <= MaxSize
  <2>1. MaxSize \in Nat /\ Len(<<>>) = 0 BY LogWriterAssumption
  <2>2. file'[f].text \in {file[f].text, <<>>} BY DEF FilesSettle, Settles
  <2>3. Len(file[f].text) <= MaxSize BY <1>5 DEF FilesInv
  <2> QED BY <2>1, <2>2, <2>3
<1>6. ASSUME Limited, NEW u \in Threads, Writing(u)' PROVE Roomy(file'[FileOf[Logger(u)']])
  <2>1. CASE u = t BY <2>1, <1>6
  <2>2. CASE u # t
    <3>1. Writing(u) /\ Logger(u)' = Logger(u) BY <2>2, <1>6 DEF Writing, Logger, Top
    <3>2. Roomy(file[FileOf[Logger(u)]]) BY <3>1, <1>6 DEF FilesInv
    <3>3. FileOf[Logger(u)] \in Files BY <3>1, <2>2, LogWriterAssumption
    <3>4. Settles(file[FileOf[Logger(u)]], file'[FileOf[Logger(u)]]) BY <3>3 DEF FilesSettle
    <3> QED BY <3>1, <3>2, <3>4, <1>6, RoomyStays DEF Limited
  <2> QED BY <2>1, <2>2
<1>7. DOMAIN file' = Files BY DEF FilesSettle
<1>8. \A u \in Threads : Limited' /\ Writing(u)' => Roomy(file[FileOf[Logger(u)]])' BY <1>4, <1>6 DEF Roomy
<1> QED BY <1>1, <1>2, <1>3, <1>4, <1>5, <1>7, <1>8 DEF FilesInv

(* Only a flush ends the reset of a logger that is being configured.       *)
LEMMA NotResetting ==
  ASSUME NEW t \in Threads, Step(t), ~FlushLogger(t), NEW l
  PROVE  ~Resetting(Top(t), l)
<1>1. CASE \/ Normal(t) \/ Conditional(t) \/ EveryN(t) \/ AfterN(t) \/ NTimes(t)
           \/ InitializeLogger(t) \/ LoggerMissing(t) \/ Evaluate(t) \/ StreamHead(t)
           \/ StreamTail(t) \/ LogArguments(t) \/ Skip(t) \/ Missed(t) \/ Dispatch(t)
  BY <1>1 DEF Normal, Conditional, EveryN, AfterN, NTimes, Occasional, Gate, InitializeLogger,
      LoggerMissing, Evaluate, StreamHead, StreamTail, Stream, LogArguments, Skip, Missed,
      Dispatch, At, Resetting
<1>2. CASE \/ RollFirst(t) \/ Callback(t) \/ Roll(t) \/ CallbackThrows(t) \/ Undispatch(t)
           \/ Release(t) \/ Abort(t) \/ FlushRoll(t) \/ FlushEnds(t) \/ FlushAll(t)
  BY <1>2 DEF RollFirst, Reopen, Callback, Roll, CallbackThrows, Undispatch, Release,
      Abort, FlushRoll, FlushEnds, FlushAll, At, Resetting
<1>3. CASE \/ Configure(t) \/ Apply(t) \/ RemoveLogger(t) \/ Untracked(t) \/ Checkpoint(t)
           \/ Report(t) \/ Checked(t) \/ logCrashReason(t)
  BY <1>3 DEF Configure, Apply, RemoveLogger, Untracked, Checkpoint, Report, Checked,
      logCrashReason, Tracking, At, Resetting
<1> QED BY <1>1, <1>2, <1>3 DEF Step

LEMMA ConfiguringStays ==
  ASSUME StacksInv, LockInv, NEW t \in Threads, Step(t), NEW l \in Loggers, BeingConfigured(l),
         ~(FlushLogger(t) /\ Logger(t) = l)
  PROVE  BeingConfigured(l)'
<1>1. ~Resetting(Top(t), l)
  <2>1. CASE ~FlushLogger(t) BY <2>1, NotResetting
  <2>2. CASE FlushLogger(t) /\ Logger(t) # l BY <2>2 DEF Resetting, Logger
  <2> QED BY <2>1, <2>2
<1>2. CASE Effect(t)
  <2>1. stack[t] # <<>> /\ \E H : Turn(t, H) BY <1>2 DEF Effect, Moves
  <2> QED BY <1>1, <2>1, ResettingStays
<1>3. CASE Abort(t)
  <2>1. stack' = stack BY <1>3 DEF Abort
  <2> QED BY <2>1 DEF BeingConfigured, Resetting
<1> QED BY <1>2, <1>3, StepEffect

(* The other threads stay where they are.                                  *)
LEMMA OthersStay ==
  ASSUME StacksInv, LockInv, NEW t \in Threads, Step(t)
  PROVE  /\ \A u \in Threads \ {t} : stack'[u] = stack[u]
         /\ \A u \in Threads : Writing(u) => Logger(u) \in Loggers
         /\ UNCHANGED program
<1>1. \A u \in Threads : Writing(u) => Logger(u) \in Loggers BY TopFacts DEF Writing
<1>2. CASE Effect(t) BY <1>1, <1>2 DEF Effect, Moves, Turn
<1>3. CASE Abort(t) BY <1>1, <1>3 DEF Abort
<1> QED BY <1>2, <1>3, StepEffect

(* One file settles, or none does.                                         *)
LEMMA OneSettles ==
  ASSUME FilesInv, NEW f \in Files, NEW gl, Settles(file[f], gl), file' = [file EXCEPT ![f] = gl]
  PROVE  FilesSettle /\ file'[f] = gl
<1>1. \A e \in Files : Settles(file[e], file[e]) BY DEF FilesInv, Settles
<1>2. DOMAIN file = Files BY DEF FilesInv
<1> QED BY <1>1, <1>2 DEF FilesSettle

LEMMA NoneSettles ==
  ASSUME FilesInv, UNCHANGED file
  PROVE  FilesSettle
BY DEF FilesInv, Settles, FilesSettle

(* Counts that stay,                                                       *)
LEMMA CountsStay ==
  ASSUME StacksInv, LockInv, FilesInv, NEW t \in Threads, Step(t), ~FlushLogger(t),
         UNCHANGED unflushed, removed \subseteq removed'
  PROVE  CountsFollow
<1> SUFFICES ASSUME NEW l \in Loggers, BeingConfigured(l) \/ l \in removed PROVE Excused(l)
  BY DEF CountsFollow, FilesInv
<1>1. CASE BeingConfigured(l) BY <1>1, ConfiguringStays DEF Excused
<1>2. CASE l \in removed BY <1>2 DEF Excused
<1> QED BY <1>1, <1>2

(* and a logger's that start over.                                         *)
LEMMA CountsReset ==
  ASSUME StacksInv, LockInv, FilesInv, NEW t \in Threads, Step(t), NEW l \in Loggers, Excused(l),
         FlushLogger(t) => Logger(t) = l,
         unflushed' = [unflushed EXCEPT ![l] = initUnflushedCount], removed \subseteq removed'
  PROVE  CountsFollow
<1>1. unflushed \in Counts /\ initUnflushedCount \in [Level -> Nat]
  BY DEF FilesInv, initUnflushedCount
<1>2. unflushed' \in Counts BY <1>1 DEF Counts
<1>3. unflushed'[l] = initUnflushedCount /\ \A k \in Loggers \ {l} : unflushed'[k] = unflushed[k]
  BY <1>1 DEF Counts
<1>4. ASSUME NEW k \in Loggers \ {l}, BeingConfigured(k) \/ k \in removed PROVE Excused(k)
  <2>1. CASE BeingConfigured(k) BY <2>1, ConfiguringStays DEF Excused
  <2>2. CASE k \in removed BY <2>2 DEF Excused
  <2> QED BY <1>4, <2>1, <2>2
<1> QED BY <1>2, <1>3, <1>4 DEF CountsFollow

-----------------------------------------------------------------------------
(* Each step.  Those that touch no file, the ends of a roll among them.    *)
Touches(t) ==
  \/ Dispatch(t) \/ RollFirst(t) \/ Callback(t) \/ Roll(t) \/ FlushLogger(t) \/ FlushRoll(t)
  \/ FlushAll(t) \/ Configure(t) \/ RemoveLogger(t)

LEMMA PlainFiles ==
  ASSUME StacksInv, LockInv, FilesInv, NEW t \in Threads, Step(t), ~Touches(t)
  PROVE  FilesInv'
<1>1. UNCHANGED <<file, unflushed, removed>>
  <2>1. CASE \/ Normal(t) \/ Conditional(t) \/ EveryN(t) \/ AfterN(t) \/ NTimes(t)
             \/ InitializeLogger(t) \/ LoggerMissing(t) \/ Evaluate(t) \/ StreamHead(t)
             \/ StreamTail(t) \/ LogArguments(t) \/ Skip(t) \/ Missed(t)
    BY <2>1 DEF Normal, Conditional, EveryN, AfterN, NTimes, Occasional, Gate, InitializeLogger,
        LoggerMissing, Evaluate, StreamHead, StreamTail, Stream, LogArguments, Skip, Missed
  <2>2. CASE CallbackThrows(t) \/ Undispatch(t) \/ Release(t) \/ Abort(t) \/ FlushEnds(t)
    BY <2>2 DEF CallbackThrows, Undispatch, Release, Abort, FlushEnds
  <2>3. CASE \/ Apply(t) \/ Untracked(t) \/ Checkpoint(t) \/ Report(t) \/ Checked(t)
             \/ logCrashReason(t)
    BY <2>3 DEF Apply, Untracked, Checkpoint, Report, Checked, logCrashReason
  <2> QED BY <2>1, <2>2, <2>3 DEF Step, Touches
<1>2. FilesSettle BY <1>1, NoneSettles
<1>3. CountsFollow BY <1>1, CountsStay DEF Touches
<1>4. ~Writing(t)' BY StepWrites DEF Touches
<1> QED BY <1>2, <1>3, <1>4, OthersStay, SettleKeeps

(* A file is opened.                                                       *)
LEMMA ReopenFiles ==
  ASSUME StacksInv, LockInv, FilesInv, NEW t \in Threads, Step(t),
         RollFirst(t) \/ Roll(t) \/ FlushRoll(t)
  PROVE  FilesInv'
<1> DEFINE l == Logger(t)  f == FileOf[l]  gl == Reopened(file[f])
<1>1. /\ stack[t] # <<>> /\ file' = [file EXCEPT ![f] = gl] /\ UNCHANGED <<unflushed, removed>>
      /\ \E pc : Go(t, pc)
  BY DEF RollFirst, Roll, FlushRoll, Reopen, At, Running
<1>2. l \in Loggers /\ f \in Files BY <1>1, TopFacts, LogWriterAssumption
<1>3. Settles(file[f], gl) /\ (gl.fail \/ gl.text = <<>>)
  BY <1>2, ReopenedSettles DEF FilesInv
<1> HIDE DEF gl, l
<1>4. FilesSettle /\ file'[f] = gl BY <1>1, <1>2, <1>3, OneSettles
<1>5. CountsFollow
  <2>1. ~FlushLogger(t)
    BY DEF FlushLogger, Flushing, RollFirst, Roll, FlushRoll, Reopen, At
  <2> QED BY <1>1, <2>1, CountsStay
<1>6. ASSUME Limited PROVE Roomy(file'[FileOf[Logger(t)']])
  <2>1. Logger(t)' = l
    <3>1. PICK pc : Go(t, pc) BY <1>1
    <3> DEFINE g == [Top(t) EXCEPT !.pc = pc]
    <3>2. g.stmt = Top(t).stmt /\ g.at = Top(t).at BY <1>1, TopFacts DEF Frames
    <3>3. Become(t, g) BY <3>1 DEF Go
    <3> HIDE DEF g
    <3>4. Top(t)' = g BY <1>1, <3>3, BecomeTop
    <3> QED BY <3>2, <3>4 DEF Logger, l
  <2>2. MaxSize \in Nat \ {0} /\ Len(<<>>) = 0 BY <1>6, LogWriterAssumption DEF Limited
  <2>3. Roomy(gl) BY <1>3, <2>2 DEF Roomy
  <2> QED BY <1>4, <2>1, <2>3
<1> QED BY <1>4, <1>5, <1>6, OthersStay, SettleKeeps

(* A line is about to be written, the file is rolled before if need be.    *)
LEMMA DispatchFiles ==
  ASSUME StacksInv, LockInv, FilesInv, NEW t \in Threads, Step(t), Dispatch(t)
  PROVE  FilesInv'
<1> DEFINE fr == Top(t)  l == Logger(t)  f == FileOf[l]
           roll == Has("StrictLogFileSizeCheck") /\ TooLarge(f)
           g == [fr EXCEPT !.first = TRUE, !.msg = IF fr.first THEN @ ELSE stream[l],
                           !.pc = IF roll THEN "rollfirst" ELSE "callback"]
<1>1. /\ stack[t] # <<>> /\ UNCHANGED <<unflushed, removed>> /\ Become(t, g)
      /\ file' = IF roll THEN [file EXCEPT ![f] = Closed(file[f])] ELSE file
  BY DEF Dispatch, At, Running
<1>2. l \in Loggers /\ f \in Files /\ fr \in Frames BY <1>1, TopFacts, LogWriterAssumption
<1>3. g.pc = (IF roll THEN "rollfirst" ELSE "callback") /\ g.stmt = fr.stmt /\ g.at = fr.at
  <2> HIDE DEF roll, fr
  <2> QED BY <1>2 DEF Frames
<1> HIDE DEF g
<1>4. Top(t)' = g BY <1>1, BecomeTop
<1>5. FilesSettle
  <2>1. Settles(file[f], Closed(file[f])) BY <1>2, ClosedSettles DEF FilesInv
  <2>2. CASE roll BY <1>1, <1>2, <2>1, <2>2, OneSettles
  <2>3. CASE ~roll BY <1>1, <2>3, NoneSettles
  <2> QED BY <2>2, <2>3
<1>6. CountsFollow
  <2>1. ~FlushLogger(t) BY DEF Dispatch, FlushLogger, Flushing, At
  <2> QED BY <1>1, <2>1, CountsStay
<1>7. ASSUME Limited, Writing(t)' PROVE Roomy(file'[FileOf[Logger(t)']])
  <2>1. Logger(t)' = l BY <1>3, <1>4 DEF Logger
  <2>2. ~roll BY <1>3, <1>4, <1>7 DEF Writing
  <2>3. ~TooLarge(f) /\ file' = file BY <1>1, <1>7, <2>2 DEF Limited
  <2>4. Len(file[f].text) \in Nat /\ MaxSize \in Nat
    BY <1>2, LogWriterAssumption DEF FilesInv, Sound, FileSet
  <2>5. Roomy(file[f])
    <3>1. ~(Writes(f) => Len(file[f].text) >= MaxSize) BY <1>7, <2>3 DEF TooLarge, Limited
    <3> HIDE DEF f
    <3> QED BY <3>1, <2>4 DEF Roomy
  <2> QED BY <2>1, <2>3, <2>5
<1> QED BY <1>5, <1>6, <1>7, OthersStay, SettleKeeps

(* A logger's file is flushed.                                             *)
LEMMA FlushFiles ==
  ASSUME StacksInv, LockInv, FilesInv, NEW t \in Threads, Step(t), FlushLogger(t)
  PROVE  FilesInv'
<1>0. stack[t] # <<>> BY DEF FlushLogger, Running
<1> PICK l \in Loggers : l = Logger(t) BY <1>0, TopFacts
<1> DEFINE f == FileOf[l]  fl == Flushed(file[f])
           gl == IF TooLarge(f) THEN Closed(fl) ELSE fl
<1>1. /\ file' = [file EXCEPT ![f] = gl] /\ removed' = removed
      /\ unflushed' = [unflushed EXCEPT ![l] = initUnflushedCount]
  BY DEF FlushLogger
<1>2. f \in Files BY LogWriterAssumption
<1>3. Settles(file[f], gl) /\ (gl.fail \/ Drained(gl))
  BY <1>2, FlushedSettles, FlushClosedSettles DEF FilesInv
<1> HIDE DEF gl
<1>4. FilesSettle /\ file'[f] = gl BY <1>1, <1>2, <1>3, OneSettles
<1>5. Excused(l) BY <1>3, <1>4 DEF Excused
<1>6. CountsFollow BY <1>1, <1>5, CountsReset
<1>7. ~Writing(t)'
  BY StepWrites DEF FlushLogger, Flushing, Dispatch, RollFirst, Reopen, At
<1> QED BY <1>4, <1>6, <1>7, OthersStay, SettleKeeps

(* All of them are.                                                        *)
LEMMA FlushAllFiles ==
  ASSUME StacksInv, LockInv, FilesInv, NEW t \in Threads, Step(t), FlushAll(t)
  PROVE  FilesInv'
<1>1. file' = [f \in Files |-> Flushed(file[f])] /\ UNCHANGED <<unflushed, removed>>
  BY DEF FlushAll
<1>2. FilesSettle BY <1>1, FlushedSettles DEF FilesSettle, FilesInv
<1>3. ~FlushLogger(t) BY DEF FlushAll, FlushLogger, Flushing, At
<1>4. CountsFollow BY <1>1, <1>3, CountsStay
<1>5. ~Writing(t)' BY StepWrites DEF FlushAll, Dispatch, RollFirst, Reopen, At
<1> QED BY <1>2, <1>4, <1>5, OthersStay, SettleKeeps

(* A logger's configuration begins.                                        *)
LEMMA ConfigureFiles ==
  ASSUME StacksInv, LockInv, FilesInv, NEW t \in Threads, Step(t), Configure(t)
  PROVE  FilesInv'
<1>0. stack[t] # <<>> BY DEF Configure, At, Running
<1> PICK l \in Loggers : l = Logger(t) BY <1>0, TopFacts
<1> DEFINE g == [Top(t) EXCEPT !.pc = "reset"]
<1>1. /\ Top(t).stmt.op = "configure" /\ Become(t, g)
      /\ UNCHANGED <<file, removed>>
      /\ unflushed' = [unflushed EXCEPT ![l] = initUnflushedCount]
  BY DEF Configure, At, Go
<1>3. g.pc = "reset" /\ g.stmt = Top(t).stmt /\ g.at = Top(t).at BY <1>0, TopFacts DEF Frames
<1> HIDE DEF g
<1>4. stack'[t] # <<>> /\ Top(t)' = g BY <1>0, <1>1, BecomeTop
<1>5. BeingConfigured(l)'
  <2>1. StacksInv' BY StacksKept DEF Next
  <2>2. stack'[t] \in Seq(Frames) BY <2>1 DEF StacksInv
  <2> DEFINE i == Len(stack'[t])
  <2>3. i \in DOMAIN stack'[t] /\ stack'[t][i] = g BY <1>4, <2>2 DEF Top, Last
  <2>4. Resetting(g, l) BY <1>1, <1>3 DEF Resetting, Logger
  <2> HIDE DEF i
  <2> QED BY <2>3, <2>4 DEF BeingConfigured, Resetting
<1>6. Excused(l) BY <1>5 DEF Excused
<1>7. CountsFollow
  <2>1. ~FlushLogger(t) BY DEF Configure, FlushLogger, Flushing, At
  <2> QED BY <1>1, <1>6, <2>1, CountsReset
<1>8. FilesSettle BY <1>1, NoneSettles
<1>9. ~Writing(t)' BY <1>3, <1>4 DEF Writing
<1> QED BY <1>7, <1>8, <1>9, OthersStay, SettleKeeps

(* A logger is removed.                                                    *)
LEMMA RemoveFiles ==
  ASSUME StacksInv, LockInv, FilesInv, NEW t \in Threads, Step(t), RemoveLogger(t)
  PROVE  FilesInv'
<1>0. stack[t] # <<>> BY DEF RemoveLogger, At, Running
<1> PICK l \in Loggers : l = Logger(t) BY <1>0, TopFacts
<1>1. /\ UNCHANGED file /\ removed' = removed \cup {l}
      /\ unflushed' = [unflushed EXCEPT ![l] = initUnflushedCount]
  BY DEF RemoveLogger
<1>3. Excused(l) BY <1>1 DEF Excused
<1>4. CountsFollow
  <2>1. ~FlushLogger(t) BY DEF RemoveLogger, FlushLogger, Flushing, At
  <2> QED BY <1>1, <1>3, <2>1, CountsReset
<1>5. FilesSettle BY <1>1, NoneSettles
<1>6. ~Writing(t)' BY StepWrites DEF RemoveLogger, Dispatch, RollFirst, Reopen, At
<1> QED BY <1>4, <1>5, <1>6, OthersStay, SettleKeeps

(* Storage's lock makes the writer the only one.                           *)
LEMMA OneWrites ==
  ASSUME StacksInv, LockInv, NEW t \in Threads, NEW u \in Threads, Writing(t), Writing(u)
  PROVE  t = u
<1>1. "storage" \in Locks BY DEF Locks
<1>2. ASSUME NEW v \in Threads, Writing(v) PROVE lock["storage"].owner = v
  <2>1. /\ stack[v] # <<>> /\ Len(stack[v]) \in Nat \ {0} /\ Top(v) = stack[v][Len(stack[v])]
        /\ Shape(Top(v)) /\ Top(v) \in Frames
    BY <1>2, TopFacts DEF Writing
  <2>2. Top(v).pc = "callback" BY <1>2 DEF Writing
  <2>3. Top(v).stmt.op \in Operations \cup {"crash"} BY <2>1 DEF Frames, Framed, StatementsWith
  <2>4. Top(v).stmt.op = "write" BY <2>1, <2>2, <2>3 DEF Shape, Allowed, Operations
  <2>5. "storage" \in Holds(Top(v)) BY <2>2, <2>4, HoldsFacts DEF HeldAt
  <2> QED BY <1>1, <2>1, <2>5, Owner
<1> QED BY <1>2

(* A logger's lines of a level beyond the k-th. *)
Among(text, k, l, v) == {i \in k + 1 .. Len(text) : text[i].to = l /\ text[i].stmt.level = v}

(* What a line adds to the buffers.                                        *)
LEMMA LineBuffered ==
  ASSUME NEW s \in Seq(LineSet), NEW k \in Nat, k <= Len(s), NEW e \in LineSet, NEW l, NEW v
  PROVE  LET A == Among(s, k, l, v)  B == Among(Append(s, e), k, l, v)
         IN  /\ Cardinality(A) \in Nat
             /\ e.to = l /\ e.stmt.level = v => Cardinality(B) = Cardinality(A) + 1
             /\ ~(e.to = l /\ e.stmt.level = v) => Cardinality(B) = Cardinality(A)
<1> DEFINE n == Append(s, e)  m == Len(s)  A == Among(s, k, l, v)  B == Among(n, k, l, v)
<1>1. Len(n) = m + 1 /\ n[m + 1] = e /\ m \in Nat /\ \A i \in 1 .. m : n[i] = s[i] OBVIOUS
<1>2. \A i : i \in A <=> i \in k + 1 .. m /\ s[i].to = l /\ s[i].stmt.level = v BY DEF Among
<1>3. \A i : i \in B <=> i \in k + 1 .. m + 1 /\ n[i].to = l /\ n[i].stmt.level = v
  BY <1>1 DEF Among
<1>4. k <= m OBVIOUS
<1> HIDE DEF n, m, A, B
<1>5. A \subseteq k + 1 .. m /\ m + 1 \notin A BY <1>1, <1>2
<1>6. IsFiniteSet(A)
  <2>1. IsFiniteSet(k + 1 .. m) BY <1>1, FS_Interval
  <2> QED BY <2>1, <1>5, FS_Subset
<1>7. Cardinality(A) \in Nat /\ Cardinality(A \cup {m + 1}) = Cardinality(A) + 1
  BY <1>5, <1>6, FS_CardinalityType, FS_AddElement
<1>8. \A i : i \in B <=> i \in A \/ (i = m + 1 /\ e.to = l /\ e.stmt.level = v)
  <2> TAKE i
  <2>1. CASE i \in k + 1 .. m
    <3>1. n[i] = s[i] /\ i # m + 1 /\ i \in k + 1 .. m + 1 BY <1>1, <2>1
    <3> QED BY <3>1, <2>1, <1>2, <1>3
  <2>2. CASE i = m + 1
    <3>1. i \in k + 1 .. m + 1 /\ n[i] = e /\ i \notin A BY <2>2, <1>1, <1>4, <1>5
    <3> QED BY <3>1, <2>2, <1>3
  <2>3. CASE i \notin k + 1 .. m /\ i # m + 1
    <3>1. i \notin k + 1 .. m + 1 BY <2>3, <1>1
    <3> QED BY <3>1, <2>3, <1>2, <1>3
  <2> QED BY <2>1, <2>2, <2>3
<1>9. e.to = l /\ e.stmt.level = v => B = A \cup {m + 1} BY <1>8
<1>10. ~(e.to = l /\ e.stmt.level = v) => B = A BY <1>8
<1> QED BY <1>7, <1>9, <1>10 DEF A, B, n

(* A statement's line is one.                                              *)
LEMMA LineOk ==
  ASSUME StacksInv, NEW t \in Threads, stack[t] # <<>>
  PROVE  Line(t) \in LineSet /\ Line(t).to = Logger(t) /\ Line(t).stmt = Top(t).stmt
         /\ Top(t).stmt.level \in Level
<1>1. /\ stack[t] \in Seq(Frames) /\ Len(stack[t]) \in Nat \ {0} /\ Top(t) \in Frames
      /\ Logger(t) \in Loggers
  BY TopFacts
<1>2. stack[t][1] \in Frames BY <1>1
<1>3. stream[Logger(t)] \in Seq(Ids) BY <1>1 DEF StacksInv
<1>4. Top(t).id \in Ids /\ Top(t).stmt \in Framed /\ stack[t][1].stmt \in Framed
  BY <1>1, <1>2 DEF Frames
<1>5. Top(t).stmt.level \in Level BY <1>4 DEF Framed, StatementsWith
<1>6. Top(t).at \in Nat \ {0} /\ Crashing(t) \in BOOLEAN BY <1>1 DEF Frames, Crashing
<1> QED BY <1>1, <1>3, <1>4, <1>5, <1>6 DEF Line, LineSet

(* A line is written: flushed, or counted.                                 *)
LEMMA WrittenFiles ==
  ASSUME StacksInv, LockInv, FilesInv, NEW t \in Threads, Step(t), Callback(t),
         NEW l \in Loggers, l = Logger(t), NEW f \in Files, f = FileOf[l], Writes(f),
         NEW v \in Level, v = Top(t).stmt.level,
         NEW gl, file' = [file EXCEPT ![f] = gl], Sound(gl),
         gl.text = Append(file[f].text, Line(t)),
         NEW c \in Nat, unflushed' = [unflushed EXCEPT ![l][v] = c],
         c < Threshold \/ c = 0,
         \/ Drained(gl)
         \/ c = unflushed[l][v] + 1 /\ gl = [file[f] EXCEPT !.text = Append(@, Line(t))]
  PROVE  FilesInv'
<1> DEFINE fl == file[f]
<1>1. /\ Writing(t) /\ stack[t] # <<>> /\ UNCHANGED <<removed, program>>
      /\ \A u \in Threads \ {t} : stack'[u] = stack[u]
  BY OthersStay DEF Callback, At, Running, Writing
<1>2. DOMAIN file = Files /\ Sound(fl) /\ unflushed \in Counts BY DEF FilesInv
<1>3. DOMAIN file' = Files /\ file'[f] = gl /\ \A g \in Files \ {f} : file'[g] = file[g]
  BY <1>2
<1>4. unflushed' \in Counts BY <1>2 DEF Counts
<1>5. /\ unflushed'[l][v] = c
      /\ \A k \in Loggers, w \in Level : <<k, w>> # <<l, v>> => unflushed'[k][w] = unflushed[k][w]
  BY <1>2 DEF Counts
<1>6. Line(t) \in LineSet /\ Line(t).to = l /\ Line(t).stmt.level = v BY <1>1, LineOk
<1>7. ASSUME NEW k \in Loggers, NEW w \in Level PROVE Bounded(k, w)'
  <2> SUFFICES ASSUME k \notin removed', ~file'[FileOf[k]].fail, ~BeingConfigured(k)'
               PROVE  Cardinality(Buffered(k, w))' <= unflushed'[k][w]
    BY DEF Bounded
  <2>1. k \notin removed /\ ~BeingConfigured(k)
    <3>1. ~FlushLogger(t) BY DEF Callback, FlushLogger, Flushing, At
    <3> QED BY <1>1, <3>1, ConfiguringStays
  <2>2. unflushed'[k][w] \in Nat /\ unflushed[k][w] \in Nat BY <1>2, <1>4 DEF Counts
  <2>3. CASE FileOf[k] # f
    <3>1. FileOf[k] \in Files \ {f} BY <2>3, LogWriterAssumption
    <3>2. file'[FileOf[k]] = file[FileOf[k]] /\ <<k, w>> # <<l, v>> BY <3>1, <1>3
    <3>3. Buffered(k, w)' = Buffered(k, w) BY <3>2 DEF Buffered
    <3>4. Bounded(k, w) BY DEF FilesInv
    <3> QED BY <3>2, <3>3, <3>4, <2>1, <1>5 DEF Bounded
  <2>4. CASE FileOf[k] = f /\ Drained(gl)
    <3> DEFINE B == {i \in gl.kept + 1 .. Len(gl.text) : gl.text[i].to = k /\ gl.text[i].stmt.level = w}
    <3>1. Buffered(k, w)' = B BY <1>3, <2>4 DEF Buffered
    <3>2. B \subseteq gl.kept + 1 .. Len(gl.text) OBVIOUS
    <3> HIDE DEF B
    <3>3. Cardinality(B) = 0 BY <3>2, <2>4, DrainedBounded
    <3> QED BY <3>1, <3>3, <2>2
  <2>5. CASE /\ FileOf[k] = f
             /\ c = unflushed[l][v] + 1 /\ gl = [fl EXCEPT !.text = Append(@, Line(t))]
    <3>1. gl.kept = fl.kept /\ gl.fail = fl.fail /\ gl.text = Append(fl.text, Line(t))
      BY <2>5, <1>2 DEF Sound, FileSet
    <3>2. Buffered(k, w)' = Among(Append(fl.text, Line(t)), fl.kept, k, w)
      BY <1>3, <2>5, <3>1 DEF Buffered, Among
    <3>3. Buffered(k, w) = Among(fl.text, fl.kept, k, w) BY <2>5 DEF Buffered, Among
    <3>4. /\ Cardinality(Buffered(k, w)) \in Nat
          /\ k = l /\ w = v => Cardinality(Buffered(k, w))' = Cardinality(Buffered(k, w)) + 1
          /\ ~(k = l /\ w = v) => Cardinality(Buffered(k, w))' = Cardinality(Buffered(k, w))
      <4>1. fl.text \in Seq(LineSet) /\ fl.kept \in Nat /\ fl.kept <= Len(fl.text)
        BY <1>2 DEF Sound, FileSet
      <4> HIDE DEF fl
      <4> QED BY <4>1, <1>6, <3>2, <3>3, LineBuffered
    <3>5. Bounded(k, w) BY DEF FilesInv
    <3>6. Cardinality(Buffered(k, w)) <= unflushed[k][w]
      BY <3>1, <3>5, <1>3, <2>1, <2>5 DEF Bounded
    <3> QED BY <3>2, <3>4, <3>6, <1>5, <2>2, <2>5
  <2> QED BY <2>3, <2>4, <2>5
<1>8. ASSUME NEW k \in Loggers, NEW w \in Level
      PROVE  unflushed'[k][w] < Threshold \/ unflushed'[k][w] = 0
  BY <1>5 DEF FilesInv
<1>9. Limited' <=> Limited BY <1>1 DEF Limited, Has
<1>10. ASSUME Limited, NEW g \in Files PROVE Len(file'[g].text) <= MaxSize
  <2>1. CASE g # f BY <2>1, <1>3, <1>10 DEF FilesInv
  <2>2. CASE g = f
    <3>1. Roomy(fl) BY <1>1, <1>10 DEF FilesInv
    <3>2. Len(fl.text) \in Nat /\ Len(gl.text) = Len(fl.text) + 1
      BY <1>2, <1>6 DEF Sound, FileSet
    <3>3. MaxSize \in Nat BY LogWriterAssumption
    <3> QED BY <3>1, <3>2, <3>3, <1>3, <2>2 DEF Roomy, Writes
  <2> QED BY <2>1, <2>2
<1>11. ASSUME NEW u \in Threads PROVE ~Writing(u)'
  <2>1. CASE u = t
    BY <2>1, StepWrites DEF Callback, Dispatch, RollFirst, Reopen, At
  <2>2. CASE u # t
    <3>1. ~Writing(u) BY <1>1, <2>2, OneWrites
    <3> QED BY <1>1, <2>2, <3>1 DEF Writing, Top
  <2> QED BY <2>1, <2>2
<1>12. \A g \in Files : Sound(file'[g]) BY <1>3 DEF FilesInv
<1> QED BY <1>3, <1>4, <1>7, <1>8, <1>9, <1>10, <1>11, <1>12 DEF FilesInv

(* The callback: the line is refused, or written.                          *)
LEMMA CallbackFiles ==
  ASSUME StacksInv, LockInv, FilesInv, NEW t \in Threads, Step(t), Callback(t)
  PROVE  FilesInv'
<1>0. stack[t] # <<>> BY DEF Callback, At, Running
<1> PICK l \in Loggers : l = Logger(t) BY <1>0, TopFacts
<1> PICK v \in Level : v = Top(t).stmt.level BY <1>0, LineOk
<1> PICK f \in Files : f = FileOf[l] BY LogWriterAssumption
<1> PICK e \in LineSet : e = Line(t) BY <1>0, LineOk
<1> DEFINE fl == file[f]  written == [fl EXCEPT !.text = Append(@, e)]
           large == MaxSize # 0 /\ Len(written.text) >= MaxSize
           gl == IF large THEN Closed(Flushed(written)) ELSE Flushed(written)
<1>1. UNCHANGED removed BY DEF Callback
<1>2. \/ ~Writes(f) /\ UNCHANGED <<file, unflushed>>
      \/ /\ Writes(f) /\ unflushed' = [unflushed EXCEPT ![l][v] = 0]
         /\ file' = [file EXCEPT ![f] = gl]
      \/ /\ Writes(f) /\ ~FlushNeeded(l, v)
         /\ unflushed' = [unflushed EXCEPT ![l][v] = unflushed[l][v] + 1]
         /\ file' = [file EXCEPT ![f] = written]
  BY DEF Callback
<1>3. /\ fl \in FileSet /\ fl.text \in Seq(LineSet) /\ fl.kept \in Nat /\ fl.kept <= Len(fl.text)
      /\ fl.open \/ Drained(fl)
  BY DEF FilesInv, Sound, FileSet
<1>4. /\ written \in FileSet /\ written.text = Append(fl.text, e) /\ written.kept = fl.kept
      /\ written.open = fl.open /\ written.fail = fl.fail
      /\ Len(written.text) = Len(fl.text) + 1
  <2> HIDE DEF fl
  <2>1. Append(fl.text, e) \in Seq(LineSet) /\ Len(Append(fl.text, e)) = Len(fl.text) + 1
    BY <1>3
  <2> QED BY <1>3, <2>1 DEF FileSet
<1>5. CASE ~Writes(f) /\ UNCHANGED <<file, unflushed>>
  <2>1. FilesSettle BY <1>5, NoneSettles
  <2>2. ~FlushLogger(t) BY DEF Callback, FlushLogger, Flushing, At
  <2>3. CountsFollow BY <1>1, <1>5, <2>2, CountsStay
  <2>4. ~Writing(t)' BY StepWrites DEF Callback, Dispatch, RollFirst, Reopen, At
  <2> QED BY <2>1, <2>3, <2>4, OthersStay, SettleKeeps
<1>6. ASSUME Writes(f) PROVE Sound(written)
  <2> HIDE DEF written, fl
  <2> QED BY <1>3, <1>4, <1>6 DEF Sound, Writes, fl
<1>7. CASE /\ Writes(f) /\ unflushed' = [unflushed EXCEPT ![l][v] = 0]
           /\ file' = [file EXCEPT ![f] = gl]
  <2> DEFINE ml == Flushed(written)
  <2>1. written.open /\ ~written.fail BY <1>4, <1>7 DEF Writes
  <2> HIDE DEF written
  <2>2. /\ Settles(written, ml) /\ (ml.fail \/ Drained(ml)) /\ ml.text = written.text
        /\ ml.open = written.open /\ ml.fail = written.fail
    BY <1>6, <1>7, FlushedSettles
  <2>3. Sound(ml) /\ Drained(ml) /\ ml.open BY <2>1, <2>2 DEF Settles
  <2>4. Sound(Closed(ml)) /\ Closed(ml).text = ml.text /\ Drained(Closed(ml))
    <3> HIDE DEF ml
    <3>1. Settles(ml, Closed(ml)) /\ Closed(ml).text = ml.text BY <2>3, ClosedSettles
    <3>2. Closed(ml) = [ml EXCEPT !.open = FALSE, !.kept = Len(ml.text)] BY <2>3 DEF Closed
    <3>3. Closed(ml).kept = Len(ml.text) BY <2>3, <3>2 DEF Sound, FileSet
    <3> QED BY <3>1, <3>3 DEF Settles, Drained
  <2> HIDE DEF large
  <2>5. gl = ml \/ gl = Closed(ml) OBVIOUS
  <2> HIDE DEF gl, ml
  <2>6. Sound(gl) /\ Drained(gl) /\ gl.text = Append(file[f].text, Line(t))
    BY <2>2, <2>3, <2>4, <2>5, <1>4
  <2> QED BY <1>7, <2>6, WrittenFiles
<1>8. CASE /\ Writes(f) /\ ~FlushNeeded(l, v)
           /\ unflushed' = [unflushed EXCEPT ![l][v] = unflushed[l][v] + 1]
           /\ file' = [file EXCEPT ![f] = written]
  <2> DEFINE c == unflushed[l][v] + 1
  <2>1. unflushed[l][v] \in Nat BY DEF FilesInv, Counts
  <2>2. c \in Nat /\ c < Threshold BY <1>8, <2>1, LogWriterAssumption DEF FlushNeeded
  <2>3. Sound(written) BY <1>6, <1>8
  <2>4. written = [file[f] EXCEPT !.text = Append(@, Line(t))] OBVIOUS
  <2>5. written.text = Append(file[f].text, Line(t)) BY <1>4
  <2> HIDE DEF written, c, fl
  <2> QED BY <1>8, <2>2, <2>3, <2>4, <2>5, WrittenFiles DEF c
<1> QED BY <1>2, <1>5, <1>7, <1>8

(* A statement begins, or a crash.                                         *)
LEMMA ArrivalFiles ==
  ASSUME StacksInv, LockInv, FilesInv, NEW t \in Threads, Begin(t) \/ Crash(t)
  PROVE  FilesInv'
<1>1. UNCHANGED <<file, unflushed, removed, program>> BY DEF Begin, Crash
<1>2. FilesSettle BY <1>1, NoneSettles
<1>3. /\ \A u \in Threads \ {t} : stack'[u] = stack[u]
      /\ \A i \in DOMAIN stack[t] : i \in DOMAIN stack'[t] /\ stack'[t][i] = stack[t][i]
      /\ ~Writing(t)'
  <2>1. CASE Begin(t)
    <3>1. /\ stack[t] = <<>> /\ Len(stack'[t]) = 1 /\ stack'[t][1].pc = "gate"
          /\ \A u \in Threads \ {t} : stack'[u] = stack[u]
      BY <2>1, BeginEffect
    <3>2. ~Writing(t)' BY <3>1 DEF Writing, Top, Last
    <3> QED BY <3>1, <3>2
  <2>2. CASE Crash(t)
    <3>1. /\ stack[t] # <<>> /\ Len(stack'[t]) = Len(stack[t]) + 1
          /\ \A i \in 1 .. Len(stack[t]) : stack'[t][i] = stack[t][i]
          /\ Crashes(stack'[t][Len(stack[t]) + 1])
          /\ \E H : Turn(t, H)
      BY <2>2, CrashEffect DEF Effect, Moves
    <3>2. /\ stack[t] \in Seq(Frames) /\ stack'[t] \in Seq(Frames)
          /\ StackOk(stack'[t]) /\ \A u \in Threads \ {t} : stack'[u] = stack[u]
      BY <3>1 DEF StacksInv, Turn
    <3>3. ~Writing(t)'
      <4>1. Top(t)' = stack'[t][Len(stack[t]) + 1] BY <3>1 DEF Top, Last
      <4>2. Shape(Top(t)') BY <3>1, <3>2, <4>1 DEF StackOk
      <4> QED BY <3>1, <4>1, <4>2 DEF Writing, Shape, Allowed, Crashes
    <3> QED BY <3>1, <3>2, <3>3
  <2> QED BY <2>1, <2>2
<1>4. \A l : BeingConfigured(l) => BeingConfigured(l)' BY <1>3 DEF BeingConfigured, Resetting
<1>5. CountsFollow BY <1>1, <1>4 DEF CountsFollow, Excused, FilesInv
<1>6. \A u \in Threads : Writing(u) => Logger(u) \in Loggers BY TopFacts DEF Writing
<1> QED BY <1>1, <1>2, <1>3, <1>5, <1>6, SettleKeeps

(* Every step keeps the files bounded.                                     *)
LEMMA FilesKept == StacksInv /\ LockInv /\ FilesInv /\ [Next]_vars => FilesInv'
<1> SUFFICES ASSUME StacksInv, LockInv, FilesInv, [Next]_vars PROVE FilesInv' OBVIOUS
<1>1. CASE UNCHANGED vars
  BY <1>1 DEF vars, FilesInv, Bounded, Buffered, BeingConfigured, Resetting, Limited, Has, Writing,
              Top, Logger
<1>2. ASSUME NEW t \in Threads, Begin(t) \/ Crash(t) PROVE FilesInv' BY <1>2, ArrivalFiles
<1>3. ASSUME NEW t \in Threads, Step(t) PROVE FilesInv'
  <2>1. CASE ~Touches(t) BY <1>3, <2>1, PlainFiles
  <2>2. CASE Touches(t)
    BY <1>3, <2>2, DispatchFiles, ReopenFiles, CallbackFiles, FlushFiles, FlushAllFiles,
       ConfigureFiles, RemoveFiles DEF Touches
  <2> QED BY <2>1, <2>2
<1> QED BY <1>1, <1>2, <1>3 DEF Next

(* Files are empty at first.                                               *)
LEMMA FilesFirst == Init => FilesInv
<1> SUFFICES ASSUME Init PROVE FilesInv OBVIOUS
<1> DEFINE fl == [text |-> <<>>, kept |-> 0, open |-> TRUE, fail |-> FALSE, past |-> <<>>]
<1>1. /\ \A f \in Files : file[f] = fl
      /\ DOMAIN file = Files /\ unflushed = [l \in Loggers |-> initUnflushedCount]
      /\ \A t \in Threads : stack[t] = <<>>
  BY DEF Init
<1>2. fl.kept = 0 /\ fl.text = <<>> /\ Len(<<>>) = 0 OBVIOUS
<1>3. Sound(fl) /\ Drained(fl)
  <2>1. fl \in FileSet BY DEF FileSet
  <2> HIDE DEF fl
  <2> QED BY <1>2, <2>1 DEF Sound, Drained
<1> HIDE DEF fl
<1>4. unflushed \in Counts /\ \A l \in Loggers, v \in Level : unflushed[l][v] = 0
  BY <1>1 DEF Counts, initUnflushedCount
<1>5. ASSUME NEW l \in Loggers, NEW v \in Level PROVE Bounded(l, v)
  <2>1. file[FileOf[l]] = fl BY <1>1, LogWriterAssumption
  <2>2. Buffered(l, v) \subseteq fl.kept + 1 .. Len(fl.text) BY <2>1 DEF Buffered
  <2>3. Cardinality(Buffered(l, v)) = 0 BY <1>3, <2>2, DrainedBounded
  <2> QED BY <2>3, <1>4 DEF Bounded
<1>6. MaxSize \in Nat BY LogWriterAssumption
<1> QED BY <1>1, <1>2, <1>3, <1>4, <1>5, <1>6 DEF FilesInv, Writing

(* Whatever threads write, flush, configure and remove together: no more   *)
(* of a logger's lines of a level are buffered than their count says, which*)
(* stays below the threshold, and a strictly checked file never exceeds    *)
(* its limit (DefaultLogDispatchCallback, Logger::isFlushNeeded, flush).   *)
THEOREM FilesStayBounded == Spec => []FilesBounded
<1>1. Init => StacksInv /\ LockInv /\ FilesInv BY StacksFirst, FilesFirst
<1>2. StacksInv /\ LockInv /\ FilesInv /\ [Next]_vars => (StacksInv /\ LockInv /\ FilesInv)'
  BY StacksKept, FilesKept
<1>3. FilesInv => FilesBounded BY DEF FilesInv, Bounded, FilesBounded, Limited
<1> QED BY <1>1, <1>2, <1>3, PTL DEF Spec

-----------------------------------------------------------------------------
(* Lines.  What is written is the text that was streamed.                  *)
Early == {"gate", "init", "head", "tail", "missed", "dispatch"}

(* Loggers that a statement does not proceed on.                           *)
Silent ==
  {l \in Loggers :
     l \in Disabled \/ (~Has("CreateLoggerAutomatically") /\ l \notin registered)}

(* What is known of a statement and of its logger's text s, where U are    *)
(* the silent loggers: before its first logger is dispatched it has no     *)
(* message, on that logger the text grows to the statement's own, and that *)
(* is the message on the others; no message and an empty one come of a     *)
(* silent first logger only.                                               *)
Known(fr, s, U) ==
  LET l == fr.stmt.loggers[fr.at]  own == <<fr.id, fr.id>> IN
  /\ fr.at = 1 /\ fr.pc \in Early => ~fr.first
  /\ fr.pc \in Late => fr.first
  /\ fr.pc = "missed" \/ (fr.pc \in {"head", "tail", "dispatch"} /\ ~fr.proceed) => l \in U
  /\ fr.at > 1 /\ (fr.pc \in {"rollfirst", "callback"} \/ (fr.pc = "dispatch" /\ fr.proceed))
       => l \notin U
  /\ fr.first => fr.msg \in {<<>>, own} /\ (fr.at = 1 => fr.msg = own)
  /\ fr.at > 1 /\ (~fr.first \/ fr.msg = <<>>) => fr.stmt.loggers[1] \in U
  /\ fr.pc = "head" => s = <<>>
  /\ fr.pc = "tail" /\ fr.proceed => s = <<fr.id>>
  /\ fr.pc = "dispatch" /\ fr.proceed => s = IF fr.at = 1 THEN own ELSE <<>>
  /\ fr.pc \in {"rollfirst", "callback"} => s = fr.msg

FrameOk(fr) ==
  /\ fr.pc \in {"gate", "head", "tail"} => fr.at = 1
  /\ fr.stmt.op \in {"write", "log"} /\ Range(fr.stmt.loggers) \cap spoiled = {} =>
       Known(fr, stream[fr.stmt.loggers[fr.at]], Silent)

(* A statement r within the message of s does not log to its first logger. *)
Nested(s, r) ==
  /\ s.inner # NoStmt
  /\ s.loggers[1] \notin Range(r.loggers)
  /\ Range(r.loggers) \subseteq Range(s.inner.loggers) \cup {Default}
  /\ r.level = "fatal" => s.inner.level = "fatal"

(* A thread of whose lines nothing is known.                               *)
Loose(t) == Crashing(t) \/ LogsToItself(stack[t][1].stmt)

ThreadOk(t) ==
  stack[t] # <<>> /\ ~Loose(t) =>
    /\ \A i \in 1 .. Len(stack[t]) : FrameOk(stack[t][i])
    /\ \A i \in 2 .. Len(stack[t]) - 1 : stack[t][i].pc # "tail"
    /\ stack[t][1].pc = "tail" =>
         \A i \in 2 .. Len(stack[t]) : Nested(stack[t][1].stmt, stack[t][i].stmt)

(* The loggers a statement is writing to.                                  *)
Written(fr) == IF fr.stmt.op = "write" THEN Holds(fr) ELSE {}

(* Text in a logger's stream is that of a statement that has its lock.     *)
TextHeld ==
  \A l \in Loggers \ spoiled : stream[l] # <<>> =>
    \E t \in Threads : \E i \in 1 .. Len(stack[t]) : l \in Written(stack[t][i])

LinesInv ==
  /\ \A t \in Threads : ThreadOk(t)
  /\ TextHeld
  /\ LinesIntact

(* A step leaves the loggers alone that others have locked.                *)
Discreet(t) ==
  /\ \A l \in Loggers : stream'[l] = stream[l] \/ (l = Logger(t) /\ CanTake(t, l))
  /\ \A l \in registered \ registered' : lock[l].owner = Free
  /\ Has("CreateLoggerAutomatically") \/ registered' \subseteq registered
  /\ spoiled \subseteq spoiled' /\ program' = program

(* A statement that goes on logs what it was to log.                       *)
Resembles(a, f) ==
  /\ f.stmt.loggers = a.stmt.loggers /\ f.stmt.inner = a.stmt.inner
  /\ f.stmt.level = a.stmt.level /\ (Crashes(f) <=> Crashes(a))

(* Loggers stay silent, and become so only where nobody has them locked.   *)
LEMMA SilentStays ==
  ASSUME NEW t \in Threads, Discreet(t)
  PROVE  /\ Silent \subseteq Silent'
         /\ \A l \in Silent' \ Silent : lock[l].owner = Free
BY DEF Discreet, Silent, Has

(* A statement that logs to itself does so for good.                       *)
LEMMA LogsStays ==
  ASSUME NEW t \in Threads, Discreet(t), NEW s, NEW r, LogsToItself(s),
         r.loggers = s.loggers, r.inner = s.inner, r.inner.level = s.inner.level
  PROVE  LogsToItself(r)'
BY DEF Discreet, LogsToItself, Has

(* The loggers of a statement.                                             *)
LEMMA InRange ==
  ASSUME NEW fr \in Frames, Shape(fr)
  PROVE  /\ fr.stmt.loggers[fr.at] \in Range(fr.stmt.loggers)
         /\ fr.stmt.loggers[1] \in Range(fr.stmt.loggers)
         /\ Range(fr.stmt.loggers) \subseteq Loggers
<1> DEFINE s == fr.stmt.loggers
<1>1. s \in Seq(Loggers) /\ fr.at \in Nat \ {0} /\ fr.at <= Len(s)
  BY DEF Frames, Framed, StatementsWith, Shape
<1> HIDE DEF s
<1>2. Len(s) \in Nat /\ DOMAIN s = 1 .. Len(s) /\ \A i \in 1 .. Len(s) : s[i] \in Loggers
  BY <1>1
<1>3. fr.at \in DOMAIN s /\ 1 \in DOMAIN s BY <1>1, <1>2
<1>4. Range(s) = {s[i] : i \in DOMAIN s} BY DEF Range
<1> QED BY <1>2, <1>3, <1>4 DEF s

(* A stack whose top is replaced,                                          *)
LEMMA BecomeStack ==
  ASSUME StacksInv, NEW t \in Threads, stack[t] # <<>>, NEW f \in Frames, Become(t, f)
  PROVE  /\ Len(stack'[t]) = Len(stack[t]) /\ stack'[t][Len(stack[t])] = f
         /\ \A i \in 1 .. Len(stack[t]) - 1 : stack'[t][i] = stack[t][i]
         /\ \A u \in Threads \ {t} : stack'[u] = stack[u]
<1> DEFINE st == stack[t]  n == Append(Front(st), f)
<1>1. st \in Seq(Frames) BY DEF StacksInv
<1>2. n \in Seq(Frames) /\ Len(n) = Len(st) /\ n[Len(st)] = f
      /\ \A i \in 1 .. Len(st) - 1 : n[i] = st[i]
  BY <1>1, BecomeSeq
<1>3. stack' = [stack EXCEPT ![t] = n] /\ DOMAIN stack = Threads BY DEF Become, StacksInv
<1> HIDE DEF n
<1>4. stack'[t] = n /\ \A u \in Threads \ {t} : stack'[u] = stack[u] BY <1>3
<1> QED BY <1>2, <1>4

(* taken off,                                                              *)
LEMMA PopStack ==
  ASSUME StacksInv, NEW t \in Threads, stack[t] # <<>>, Pop(t)
  PROVE  /\ stack'[t] \in Seq(Frames) /\ Len(stack'[t]) = Len(stack[t]) - 1
         /\ \A i \in 1 .. Len(stack[t]) - 1 : stack'[t][i] = stack[t][i]
         /\ \A u \in Threads \ {t} : stack'[u] = stack[u]
<1> DEFINE st == stack[t]  n == Front(st)
<1>1. st \in Seq(Frames) BY DEF StacksInv
<1>2. n \in Seq(Frames) /\ Len(n) = Len(st) - 1 /\ \A i \in 1 .. Len(st) - 1 : n[i] = st[i]
  BY <1>1, PopSeq
<1>3. stack' = [stack EXCEPT ![t] = n] /\ DOMAIN stack = Threads BY DEF Pop, StacksInv
<1> HIDE DEF n
<1>4. stack'[t] = n /\ \A u \in Threads \ {t} : stack'[u] = stack[u] BY <1>3
<1> QED BY <1>2, <1>4

(* or covered.                                                             *)
Covering(t, f, g) == stack' = [stack EXCEPT ![t] = Front(@) \o <<f, g>>]

LEMMA CoverStack ==
  ASSUME StacksInv, NEW t \in Threads, stack[t] # <<>>, NEW f \in Frames, NEW g \in Frames,
         Covering(t, f, g)
  PROVE  /\ Len(stack'[t]) = Len(stack[t]) + 1
         /\ stack'[t][Len(stack[t])] = f /\ stack'[t][Len(stack[t]) + 1] = g
         /\ \A i \in 1 .. Len(stack[t]) - 1 : stack'[t][i] = stack[t][i]
         /\ \A u \in Threads \ {t} : stack'[u] = stack[u]
<1> DEFINE st == stack[t]  n == Front(st) \o <<f, g>>
<1>1. st \in Seq(Frames) BY DEF StacksInv
<1>2. /\ Len(n) = Len(st) + 1 /\ n[Len(st)] = f /\ n[Len(st) + 1] = g
      /\ \A i \in 1 .. Len(st) - 1 : n[i] = st[i]
  <2>1. st # <<>> OBVIOUS
  <2> HIDE DEF st
  <2> QED BY <1>1, <2>1, CoverSeq
<1>3. stack' = [stack EXCEPT ![t] = n] /\ DOMAIN stack = Threads BY DEF StacksInv, Covering
<1> HIDE DEF n
<1>4. stack'[t] = n /\ \A u \in Threads \ {t} : stack'[u] = stack[u] BY <1>3
<1> QED BY <1>2, <1>4

(* A thread of which nothing is known remains so.                          *)
LEMMA LooseStays ==
  ASSUME NEW t \in Threads, Discreet(t), NEW u \in Threads, Loose(u),
         \A i \in DOMAIN stack[u] : Crashes(stack[u][i]) =>
           \E j \in DOMAIN stack'[u] : Crashes(stack'[u][j]),
         stack'[u][1].stmt.loggers = stack[u][1].stmt.loggers,
         stack'[u][1].stmt.inner = stack[u][1].stmt.inner
  PROVE  Loose(u)'
<1>1. CASE Crashing(u) BY <1>1 DEF Loose, Crashing, Crashes
<1>2. CASE LogsToItself(stack[u][1].stmt)
  <2> PICK s : s = stack[u][1].stmt OBVIOUS
  <2> PICK r : r = stack'[u][1].stmt OBVIOUS
  <2>1. LogsToItself(s) /\ r.loggers = s.loggers /\ r.inner = s.inner
    BY <1>2
  <2>2. LogsToItself(r)' BY <2>1, LogsStays
  <2> QED BY <2>2 DEF Loose
<1> QED BY <1>1, <1>2 DEF Loose

(* A statement that another thread's step, or one above it, leaves alone.  *)
LEMMA FrameStays ==
  ASSUME StacksInv, LockInv, NEW t \in Threads, Discreet(t), NEW u \in Threads,
         NEW i \in 1 .. Len(stack[u]), NEW fr, fr = stack[u][i], FrameOk(fr),
         \/ u # t
         \/ fr.pc \in Waiting /\ (fr.pc = "tail" => fr.stmt.loggers[1] # Logger(t))
  PROVE  FrameOk(fr)'
<1> DEFINE l == fr.stmt.loggers[fr.at]
<1>1. fr \in Frames /\ Shape(fr) /\ Crashes(fr) \in BOOLEAN
  <2>1. stack[u] \in Seq(Frames) /\ StackOk(stack[u]) BY DEF StacksInv
  <2> QED BY <2>1 DEF StackOk, Crashes
<1>2. l \in Loggers BY <1>1, InRange
<1>3. SUFFICES ASSUME fr.stmt.op \in {"write", "log"},
                      Range(fr.stmt.loggers) \cap spoiled' = {}
               PROVE  Known(fr, stream'[l], Silent')
  BY DEF FrameOk
<1>4. Known(fr, stream[l], Silent) BY <1>3 DEF FrameOk, Discreet
<1>5. Silent \subseteq Silent' /\ \A k \in Silent' \ Silent : lock[k].owner = Free
  BY SilentStays
<1>6. CASE u # t
  <2>1. ASSUME fr.pc \in {"head", "tail", "dispatch", "rollfirst", "callback"}
        PROVE  lock[l].owner = u
    <3>1. fr.stmt.op = "write" BY <1>1, <1>3, <2>1 DEF Shape, Allowed
    <3>2. l \in Holds(fr) BY <2>1, <3>1, HoldsFacts DEF HeldAt
    <3>3. l \in Locks BY <1>2 DEF Locks
    <3> QED BY <3>2, <3>3, HeldOwner
  <2>2. Free # u /\ Free # t BY LogWriterAssumption
  <2>3. fr.pc \in {"head", "tail", "dispatch", "rollfirst", "callback"} =>
          stream'[l] = stream[l] /\ (l \in Silent' => l \in Silent)
    BY <1>2, <1>5, <1>6, <2>1, <2>2 DEF Discreet, CanTake
  <2> PICK s, r, U, V : s = stream[l] /\ r = stream'[l] /\ U = Silent /\ V = Silent'
    OBVIOUS
  <2>4. Known(fr, s, U) /\ U \subseteq V BY <1>4, <1>5
  <2>5. /\ fr.pc \in {"head", "tail", "dispatch", "rollfirst", "callback"} => r = s
        /\ fr.pc \in {"dispatch", "rollfirst", "callback"} /\ fr.stmt.loggers[fr.at] \in V =>
             fr.stmt.loggers[fr.at] \in U
    BY <2>3
  <2>6. Known(fr, r, V) BY <2>4, <2>5 DEF Known
  <2> QED BY <2>6
<1>7. CASE fr.pc \in Waiting /\ (fr.pc = "tail" => fr.stmt.loggers[1] # Logger(t))
  <2>1. fr.pc = "tail" => l # Logger(t) BY <1>7 DEF FrameOk
  <2>2. fr.pc = "tail" => stream'[l] = stream[l] BY <1>2, <2>1 DEF Discreet
  <2> PICK s, r, U, V : s = stream[l] /\ r = stream'[l] /\ U = Silent /\ V = Silent'
    OBVIOUS
  <2>3. Known(fr, s, U) /\ U \subseteq V BY <1>4, <1>5
  <2>4. /\ fr.pc \in {"head", "tail", "dispatch", "rollfirst", "callback"} => r = s
        /\ fr.pc \notin {"dispatch", "rollfirst", "callback"}
    BY <1>7, <2>2 DEF Waiting
  <2>5. Known(fr, r, V) BY <2>3, <2>4 DEF Known
  <2> QED BY <2>5
<1> QED BY <1>6, <1>7

(* Other threads.                                                          *)
LEMMA OthersOk ==
  ASSUME StacksInv, LockInv, NEW t \in Threads, Discreet(t), NEW u \in Threads \ {t},
         stack'[u] = stack[u], ThreadOk(u)
  PROVE  ThreadOk(u)'
<1> SUFFICES ASSUME stack[u] # <<>>, ~Loose(u)' PROVE ThreadOk(u)' BY DEF ThreadOk
<1>1. ~Loose(u) BY LooseStays
<1>2. ASSUME NEW i \in 1 .. Len(stack[u]) PROVE FrameOk(stack[u][i])'
  <2> PICK fr : fr = stack[u][i] OBVIOUS
  <2>1. FrameOk(fr) BY <1>1 DEF ThreadOk
  <2>2. FrameOk(fr)' BY <2>1, FrameStays
  <2> QED BY <2>2
<1> QED BY <1>1, <1>2 DEF ThreadOk

(* Statements beneath the uppermost one.                                   *)
LEMMA BelowOk ==
  ASSUME StacksInv, LockInv, NEW t \in Threads, stack[t] # <<>>, Discreet(t), ThreadOk(t),
         ~Loose(t), NEW i \in 1 .. Len(stack[t]) - 1, NEW fr, fr = stack[t][i]
  PROVE  FrameOk(fr)'
<1>1. /\ Len(stack[t]) \in Nat \ {0} /\ StackOk(stack[t]) /\ Top(t) = stack[t][Len(stack[t])]
      /\ Top(t) \in Frames /\ Shape(Top(t)) /\ stack[t] \in Seq(Frames)
  BY TopFacts
<1>2. i \in 1 .. Len(stack[t]) /\ i + 1 \in 1 .. Len(stack[t]) BY <1>1
<1>3. fr.pc \in Waiting
  <2>1. Crashes(stack[t][i + 1]) \/ stack[t][i].pc \in Waiting BY <1>1 DEF StackOk
  <2>2. ~Crashing(t) BY DEF Loose
  <2>3. i + 1 \in DOMAIN stack[t] BY <1>1, <1>2
  <2> QED BY <2>1, <2>2, <2>3 DEF Crashing, Crashes
<1>4. ASSUME fr.pc = "tail" PROVE fr.stmt.loggers[1] # Logger(t)
  <2>1. i = 1
    <3>1. \A j \in 2 .. Len(stack[t]) - 1 : stack[t][j].pc # "tail" BY DEF ThreadOk
    <3>2. i \notin 2 .. Len(stack[t]) - 1 BY <1>4, <3>1
    <3> QED BY <1>1, <3>2
  <2>2. Len(stack[t]) \in 2 .. Len(stack[t]) BY <1>1, <2>1
  <2>3. Nested(stack[t][1].stmt, Top(t).stmt) BY <1>1, <1>4, <2>1, <2>2 DEF ThreadOk
  <2>4. Logger(t) \in Range(Top(t).stmt.loggers) BY <1>1, InRange DEF Logger
  <2> QED BY <2>1, <2>3, <2>4 DEF Nested
<1>5. FrameOk(fr) BY <1>2 DEF ThreadOk
<1> QED BY <1>2, <1>3, <1>4, <1>5, FrameStays

(* What a statement's step does to the texts, after which it writes to H.  *)
Texts(t, H) ==
  \A l \in Loggers :
    \/ l \in spoiled' \/ stream'[l] = <<>> \/ l \in H
    \/ stream'[l] = stream[l] /\ l \notin Written(Top(t))

(* Texts are still held.                                                   *)
LEMMA TextsKept ==
  ASSUME StacksInv, NEW t \in Threads, stack[t] # <<>>, TextHeld, Discreet(t),
         NEW H, Texts(t, H),
         \A l \in H : \E i \in 1 .. Len(stack'[t]) : l \in Written(stack'[t][i]),
         \A i \in 1 .. Len(stack[t]) - 1 : i \in 1 .. Len(stack'[t]) /\ stack'[t][i] = stack[t][i],
         \A u \in Threads \ {t} : stack'[u] = stack[u]
  PROVE  TextHeld'
<1> SUFFICES ASSUME NEW l \in Loggers, l \notin spoiled', stream'[l] # <<>>
             PROVE  \E u \in Threads : \E i \in 1 .. Len(stack'[u]) : l \in Written(stack'[u][i])
  BY DEF TextHeld, Written, Holds
<1>1. CASE l \in H BY <1>1
<1>2. CASE stream'[l] = stream[l] /\ l \notin Written(Top(t))
  <2>1. l \notin spoiled BY DEF Discreet
  <2>2. PICK u \in Threads : \E i \in 1 .. Len(stack[u]) : l \in Written(stack[u][i])
    BY <1>2, <2>1 DEF TextHeld
  <2>3. PICK i \in 1 .. Len(stack[u]) : l \in Written(stack[u][i]) BY <2>2
  <2>4. CASE u # t
    <3>1. stack'[u] = stack[u] BY <2>4
    <3> QED BY <2>3, <3>1
  <2>5. CASE u = t
    <3>1. Top(t) = stack[t][Len(stack[t])] /\ Len(stack[t]) \in Nat \ {0} BY TopFacts
    <3>2. i # Len(stack[t]) BY <1>2, <2>3, <2>5, <3>1
    <3>3. i \in 1 .. Len(stack[t]) - 1 BY <2>3, <2>5, <3>1, <3>2
    <3>4. i \in 1 .. Len(stack'[t]) /\ stack'[t][i] = stack[t][i] BY <3>3
    <3>5. l \in Written(stack'[t][i]) BY <2>3, <2>5, <3>4
    <3> QED BY <3>4, <3>5
  <2> QED BY <2>4, <2>5
<1> QED BY <1>1, <1>2 DEF Texts

(* A statement goes on.                                                    *)
LEMMA BecomeSane ==
  ASSUME StacksInv, LockInv, NEW t \in Threads, stack[t] # <<>>, ThreadOk(t), TextHeld,
         Discreet(t), NEW f \in Frames, Become(t, f), Resembles(Top(t), f), Texts(t, Written(f)),
         Loose(t) \/ FrameOk(f)'
  PROVE  ThreadOk(t)' /\ TextHeld'
<1> DEFINE k == Len(stack[t])
<1>1. /\ Len(stack'[t]) = k /\ stack'[t][k] = f
      /\ \A i \in 1 .. k - 1 : stack'[t][i] = stack[t][i]
      /\ \A u \in Threads \ {t} : stack'[u] = stack[u]
  BY BecomeStack
<1>2. /\ k \in Nat \ {0} /\ Top(t) = stack[t][k] /\ stack[t] \in Seq(Frames)
      /\ DOMAIN stack[t] = 1 .. k
  BY TopFacts
<1>3. stack'[t] \in Seq(Frames) /\ DOMAIN stack'[t] = 1 .. k
  <2>1. stack' = [stack EXCEPT ![t] = Append(Front(stack[t]), f)] BY DEF Become
  <2>2. Append(Front(stack[t]), f) \in Seq(Frames) BY <1>2, BecomeSeq
  <2>3. stack'[t] \in Seq(Frames) BY <2>1, <2>2 DEF StacksInv
  <2> QED BY <1>1, <2>3
<1> HIDE DEF k
<1>4. TextHeld'
  <2>1. \A l \in Written(f) : \E i \in 1 .. Len(stack'[t]) : l \in Written(stack'[t][i])
    BY <1>1, <1>2
  <2>2. \A i \in 1 .. Len(stack[t]) - 1 :
          i \in 1 .. Len(stack'[t]) /\ stack'[t][i] = stack[t][i]
    BY <1>1, <1>2 DEF k
  <2> DEFINE H == Written(f)
  <2> HIDE DEF H
  <2>3. Texts(t, H) /\ \A l \in H : \E i \in 1 .. Len(stack'[t]) : l \in Written(stack'[t][i])
    BY <2>1 DEF H
  <2> QED BY <1>1, <2>2, <2>3, TextsKept
<1>5. ThreadOk(t)'
  <2>1. SUFFICES ASSUME ~Loose(t)' PROVE ThreadOk(t)' BY DEF ThreadOk
  <2>2. ~Loose(t)
    <3>1. \A i \in DOMAIN stack[t] : Crashes(stack[t][i]) =>
            \E j \in DOMAIN stack'[t] : Crashes(stack'[t][j])
      BY <1>1, <1>2, <1>3 DEF Resembles
    <3>2. stack'[t][1].stmt.loggers = stack[t][1].stmt.loggers
          /\ stack'[t][1].stmt.inner = stack[t][1].stmt.inner
      <4>1. CASE k = 1
        <5> stack'[t][1] = f /\ stack[t][1] = Top(t) BY <1>1, <1>2, <4>1
        <5> QED BY DEF Resembles
      <4>2. CASE k # 1
        <5>1. 1 \in 1 .. k - 1 BY <1>2, <4>2
        <5>2. stack'[t][1] = stack[t][1] BY <1>1, <5>1
        <5> QED BY <5>2
      <4> QED BY <4>1, <4>2
    <3> QED BY <2>1, <3>1, <3>2, LooseStays
  <2>3. ASSUME NEW i \in 1 .. Len(stack'[t]) PROVE FrameOk(stack[t][i])'
    <3>1. CASE i = k BY <1>1, <2>2, <3>1
    <3>2. CASE i # k
      <4>1. i \in 1 .. Len(stack[t]) - 1 BY <1>1, <1>2, <3>2 DEF k
      <4> PICK fr : fr = stack[t][i] OBVIOUS
      <4>2. FrameOk(fr)' BY <2>2, <4>1, BelowOk
      <4>3. fr = stack'[t][i] BY <1>1, <4>1 DEF k
      <4> QED BY <4>2, <4>3
    <3> QED BY <3>1, <3>2
  <2>4. \A i \in 2 .. Len(stack'[t]) - 1 : stack'[t][i].pc # "tail"
    BY <1>1, <1>2, <2>2 DEF ThreadOk, k
  <2>5. ASSUME stack'[t][1].pc = "tail", NEW i \in 2 .. Len(stack'[t])
        PROVE  Nested(stack'[t][1].stmt, stack'[t][i].stmt)
    <3>1. stack'[t][1] = stack[t][1] /\ k >= 2 BY <1>1, <1>2, <2>5
    <3>2. i \in 2 .. Len(stack[t]) BY <1>1, <2>5 DEF k
    <3>3. Nested(stack[t][1].stmt, stack[t][i].stmt) BY <2>2, <2>5, <3>1, <3>2 DEF ThreadOk
    <3>4. stack'[t][i].stmt.loggers = stack[t][i].stmt.loggers
          /\ stack'[t][i].stmt.level = stack[t][i].stmt.level
      BY <1>1, <1>2, <2>5 DEF Resembles
    <3> QED BY <3>1, <3>3, <3>4 DEF Nested
  <2> QED BY <2>3, <2>4, <2>5 DEF ThreadOk
<1> QED BY <1>4, <1>5

(* One ends.                                                               *)
LEMMA PopSane ==
  ASSUME StacksInv, LockInv, NEW t \in Threads, stack[t] # <<>>, ThreadOk(t), TextHeld,
         Discreet(t), ~Crashes(Top(t)), Pop(t), Texts(t, {})
  PROVE  ThreadOk(t)' /\ TextHeld'
<1> DEFINE k == Len(stack[t])
<1>1. /\ stack'[t] \in Seq(Frames) /\ Len(stack'[t]) = k - 1
      /\ \A i \in 1 .. k - 1 : stack'[t][i] = stack[t][i]
      /\ \A u \in Threads \ {t} : stack'[u] = stack[u]
  BY PopStack
<1>2. /\ k \in Nat \ {0} /\ Top(t) = stack[t][k] /\ stack[t] \in Seq(Frames)
      /\ DOMAIN stack[t] = 1 .. k
  BY TopFacts
<1> HIDE DEF k
<1>3. DOMAIN stack'[t] = 1 .. k - 1 BY <1>1, <1>2
<1>4. TextHeld'
  <2>1. \A i \in 1 .. Len(stack[t]) - 1 :
          i \in 1 .. Len(stack'[t]) /\ stack'[t][i] = stack[t][i]
    BY <1>1, <1>2 DEF k
  <2> DEFINE H == {}
  <2> HIDE DEF H
  <2>2. Texts(t, H) /\ \A l \in H : \E i \in 1 .. Len(stack'[t]) : l \in Written(stack'[t][i])
    BY DEF H
  <2> QED BY <1>1, <2>1, <2>2, TextsKept
<1>5. ThreadOk(t)'
  <2>1. SUFFICES ASSUME stack'[t] # <<>>, ~Loose(t)' PROVE ThreadOk(t)' BY DEF ThreadOk
  <2>2. k - 1 \in Nat \ {0} BY <1>1, <1>2, <2>1
  <2>3. ~Loose(t)
    <3>1. \A i \in DOMAIN stack[t] : Crashes(stack[t][i]) =>
            \E j \in DOMAIN stack'[t] : Crashes(stack'[t][j])
      BY <1>1, <1>2, <1>3
    <3>2. stack'[t][1].stmt.loggers = stack[t][1].stmt.loggers
          /\ stack'[t][1].stmt.inner = stack[t][1].stmt.inner
      BY <1>1, <1>2, <2>2
    <3> QED BY <2>1, <3>1, <3>2, LooseStays
  <2>4. ASSUME NEW i \in 1 .. Len(stack'[t]) PROVE FrameOk(stack[t][i])'
    <3>1. i \in 1 .. Len(stack[t]) - 1 BY <1>1 DEF k
    <3> PICK fr : fr = stack[t][i] OBVIOUS
    <3>2. FrameOk(fr)' BY <2>3, <3>1, BelowOk
    <3>3. fr = stack'[t][i] BY <1>1, <3>1 DEF k
    <3> QED BY <3>2, <3>3
  <2>5. ASSUME NEW i \in 2 .. Len(stack'[t]) - 1 PROVE stack'[t][i].pc # "tail"
    <3>1. i \in 1 .. k - 1 /\ i \in 2 .. Len(stack[t]) - 1 BY <1>1, <1>2 DEF k
    <3>2. stack'[t][i] = stack[t][i] BY <1>1, <3>1
    <3> QED BY <2>3, <3>1, <3>2 DEF ThreadOk
  <2>6. ASSUME stack'[t][1].pc = "tail", NEW i \in 2 .. Len(stack'[t])
        PROVE  Nested(stack'[t][1].stmt, stack'[t][i].stmt)
    <3>0. 1 \in 1 .. k - 1 /\ i \in 1 .. k - 1 BY <1>1, <2>2, <2>6
    <3>1. stack'[t][1] = stack[t][1] /\ stack'[t][i] = stack[t][i] BY <1>1, <3>0
    <3>2. i \in 2 .. Len(stack[t]) BY <1>1, <1>2, <2>6 DEF k
    <3> QED BY <2>3, <2>6, <3>1, <3>2 DEF ThreadOk
  <2> QED BY <2>4, <2>5, <2>6 DEF ThreadOk
<1> QED BY <1>4, <1>5

(* Where s is executed from f, the thread's first statement or one above.  *)
Inside(t, f, s) ==
  /\ LET first == IF Len(stack[t]) = 1 THEN f ELSE stack[t][1]
     IN  first.pc = "tail" => Nested(first.stmt, s)
  /\ Len(stack[t]) # 1 => f.pc # "tail"

(* One executes another.                                                   *)
LEMMA CoverSane ==
  ASSUME StacksInv, LockInv, NEW t \in Threads, stack[t] # <<>>, ThreadOk(t), TextHeld,
         Discreet(t), NEW f \in Frames, NEW g \in Frames,
         Covering(t, f, g),
         Resembles(Top(t), f), Texts(t, Written(f)),
         Loose(t) \/ (FrameOk(f)' /\ FrameOk(g)' /\ Inside(t, f, g.stmt))
  PROVE  ThreadOk(t)' /\ TextHeld'
<1> DEFINE k == Len(stack[t])
<1>1. /\ Len(stack'[t]) = k + 1 /\ stack'[t][k] = f /\ stack'[t][k + 1] = g
      /\ \A i \in 1 .. k - 1 : stack'[t][i] = stack[t][i]
      /\ \A u \in Threads \ {t} : stack'[u] = stack[u]
  BY CoverStack
<1>2. /\ k \in Nat \ {0} /\ Top(t) = stack[t][k] /\ stack[t] \in Seq(Frames)
      /\ DOMAIN stack[t] = 1 .. k
  BY TopFacts
<1>3. stack'[t] \in Seq(Frames) /\ DOMAIN stack'[t] = 1 .. k + 1
  <2> DEFINE n == Front(stack[t]) \o <<f, g>>
  <2>1. n \in Seq(Frames)
    <3>1. Front(stack[t]) \in Seq(Frames) BY <1>2, PopSeq
    <3> QED BY <3>1
  <2> HIDE DEF n
  <2>2. stack' = [stack EXCEPT ![t] = n] BY DEF n, Covering
  <2>3. stack'[t] \in Seq(Frames) BY <2>1, <2>2 DEF StacksInv
  <2> QED BY <1>1, <2>3
<1> HIDE DEF k
<1>4. TextHeld'
  <2>1. \A l \in Written(f) : \E i \in 1 .. Len(stack'[t]) : l \in Written(stack'[t][i])
    BY <1>1, <1>2
  <2>2. \A i \in 1 .. Len(stack[t]) - 1 :
          i \in 1 .. Len(stack'[t]) /\ stack'[t][i] = stack[t][i]
    BY <1>1, <1>2 DEF k
  <2> DEFINE H == Written(f)
  <2> HIDE DEF H
  <2>3. Texts(t, H) /\ \A l \in H : \E i \in 1 .. Len(stack'[t]) : l \in Written(stack'[t][i])
    BY <2>1 DEF H
  <2> QED BY <1>1, <2>2, <2>3, TextsKept
<1>5. ThreadOk(t)'
  <2>1. SUFFICES ASSUME ~Loose(t)' PROVE ThreadOk(t)' BY DEF ThreadOk
  <2>2. ~Loose(t)
    <3>1. \A i \in DOMAIN stack[t] : Crashes(stack[t][i]) =>
            \E j \in DOMAIN stack'[t] : Crashes(stack'[t][j])
      <4> SUFFICES ASSUME NEW i \in 1 .. k, Crashes(stack[t][i])
                   PROVE  i \in 1 .. k + 1 /\ Crashes(stack'[t][i])
        BY <1>2, <1>3
      <4>1. CASE i = k BY <1>1, <1>2, <4>1 DEF Resembles
      <4>2. CASE i # k
        <5>1. i \in 1 .. k - 1 BY <1>2, <4>2
        <5> QED BY <1>1, <1>2, <5>1
      <4> QED BY <4>1, <4>2
    <3>2. stack'[t][1].stmt.loggers = stack[t][1].stmt.loggers
          /\ stack'[t][1].stmt.inner = stack[t][1].stmt.inner
      <4>1. CASE k = 1
        <5> stack'[t][1] = f /\ stack[t][1] = Top(t) BY <1>1, <1>2, <4>1
        <5> QED BY DEF Resembles
      <4>2. CASE k # 1
        <5>1. 1 \in 1 .. k - 1 BY <1>2, <4>2
        <5>2. stack'[t][1] = stack[t][1] BY <1>1, <5>1
        <5> QED BY <5>2
      <4> QED BY <4>1, <4>2
    <3> QED BY <2>1, <3>1, <3>2, LooseStays
  <2>3. ASSUME NEW i \in 1 .. Len(stack'[t]) PROVE FrameOk(stack[t][i])'
    <3>1. CASE i \in {k, k + 1} BY <1>1, <2>2, <3>1
    <3>2. CASE i \notin {k, k + 1}
      <4>1. i \in 1 .. Len(stack[t]) - 1 BY <1>1, <1>2, <3>2 DEF k
      <4> PICK fr : fr = stack[t][i] OBVIOUS
      <4>2. FrameOk(fr)' BY <2>2, <4>1, BelowOk
      <4>3. fr = stack'[t][i] BY <1>1, <4>1 DEF k
      <4> QED BY <4>2, <4>3
    <3> QED BY <3>1, <3>2
  <2>4. ASSUME NEW i \in 2 .. Len(stack'[t]) - 1 PROVE stack'[t][i].pc # "tail"
    <3>1. CASE i = k BY <1>1, <1>2, <2>2, <3>1 DEF k, Inside
    <3>2. CASE i # k
      <4>1. i \in 2 .. Len(stack[t]) - 1 /\ stack'[t][i] = stack[t][i]
        BY <1>1, <1>2, <3>2 DEF k
      <4> QED BY <2>2, <4>1 DEF ThreadOk
    <3> QED BY <3>1, <3>2
  <2>5. ASSUME stack'[t][1].pc = "tail", NEW i \in 2 .. Len(stack'[t])
        PROVE  Nested(stack'[t][1].stmt, stack'[t][i].stmt)
    <3>1. CASE k = 1
      <4>1. i = k + 1 /\ stack'[t][1] = f BY <1>1, <2>5, <3>1
      <4> QED BY <1>1, <2>2, <2>5, <3>1, <4>1 DEF Inside, k
    <3>2. CASE k # 1
      <4>1. stack'[t][1] = stack[t][1] BY <1>1, <1>2, <3>2
      <4>2. CASE i = k + 1 BY <1>1, <2>2, <2>5, <3>2, <4>1, <4>2 DEF Inside, k
      <4>3. CASE i # k + 1
        <5>1. i \in 2 .. Len(stack[t]) BY <1>1, <1>2, <2>5, <4>3 DEF k
        <5>2. Nested(stack[t][1].stmt, stack[t][i].stmt)
          BY <2>2, <2>5, <4>1, <5>1 DEF ThreadOk
        <5>3. stack'[t][i].stmt.loggers = stack[t][i].stmt.loggers
              /\ stack'[t][i].stmt.level = stack[t][i].stmt.level
          <6>1. CASE i = k BY <1>1, <1>2, <6>1 DEF Resembles
          <6>2. CASE i # k
            <7>1. i \in 1 .. k - 1 BY <1>1, <1>2, <4>3, <6>2
            <7> QED BY <1>1, <7>1
          <6> QED BY <6>1, <6>2
        <5> QED BY <4>1, <5>2, <5>3 DEF Nested
      <4> QED BY <4>2, <4>3
    <3> QED BY <3>1, <3>2
  <2> QED BY <2>3, <2>4, <2>5 DEF ThreadOk
<1> QED BY <1>4, <1>5

(* What the uppermost statement is writing to.                             *)
LEMMA WrittenFacts ==
  ASSUME NEW fr \in Frames, Shape(fr)
  PROVE  LET l == fr.stmt.loggers[fr.at]
         IN  /\ Written(fr) \cap Loggers \subseteq {l}
             /\ fr.stmt.op = "write" /\ fr.pc \in Late \cup {"head", "tail", "dispatch"} =>
                  l \in Written(fr)
             /\ fr.stmt.op # "write" \/ fr.pc \in {"gate", "init", "missed", "abort"} =>
                  Written(fr) = {}
<1> DEFINE l == fr.stmt.loggers[fr.at]
<1>1. l \in Loggers BY InRange
<1>2. HeldAt(Holds(fr), fr.stmt.op, fr.pc, l) BY HoldsFacts
<1>3. "storage" \notin Loggers BY LogWriterAssumption
<1> HIDE DEF l
<1>4. CASE fr.stmt.op # "write" BY <1>4 DEF Written
<1>5. CASE fr.stmt.op = "write"
  <2>1. Written(fr) = Holds(fr) BY <1>5 DEF Written
  <2>2. fr.pc \in {"gate", "init", "missed", "abort"} \/ fr.pc \in Late \cup {"head", "tail", "dispatch"}
    BY <1>5 DEF Frames, Shape, Allowed, Pcs, Late
  <2> QED BY <1>2, <1>3, <1>5, <2>1, <2>2 DEF HeldAt, Late, l
<1> QED BY <1>4, <1>5 DEF l

(* Where only the text of its logger changes.                              *)
LEMMA TextsOne ==
  ASSUME StacksInv, NEW t \in Threads, stack[t] # <<>>, NEW H,
         \A k \in Loggers \ {Logger(t)} : stream'[k] = stream[k],
         \/ Logger(t) \in H \/ Logger(t) \in spoiled' \/ stream'[Logger(t)] = <<>>
         \/ stream'[Logger(t)] = stream[Logger(t)] /\ Logger(t) \notin Written(Top(t))
  PROVE  Texts(t, H)
<1>1. Top(t) \in Frames /\ Shape(Top(t)) BY TopFacts
<1>2. Written(Top(t)) \cap Loggers \subseteq {Logger(t)} BY <1>1, WrittenFacts DEF Logger
<1> QED BY <1>2 DEF Texts

LEMMA DiscreetOne ==
  ASSUME NEW t \in Threads, UNCHANGED <<registered, program>>, spoiled \subseteq spoiled',
         \A k \in Loggers \ {Logger(t)} : stream'[k] = stream[k],
         stream'[Logger(t)] = stream[Logger(t)] \/ CanTake(t, Logger(t))
  PROVE  Discreet(t) /\ Silent' = Silent
BY DEF Discreet, Silent, Has

(* Where nothing but the stacks and the locks change.                      *)
LEMMA DiscreetNone ==
  ASSUME NEW t \in Threads, UNCHANGED <<stream, registered, spoiled, program>>
  PROVE  Discreet(t) /\ Silent' = Silent
BY DEF Discreet, Silent, Has

(* The logger of the uppermost statement can be taken again.               *)
LEMMA CanRetake ==
  ASSUME StacksInv, LockInv, NEW t \in Threads, stack[t] # <<>>,
         Logger(t) \in Written(Top(t))
  PROVE  CanTake(t, Logger(t))
<1>1. Logger(t) \in Loggers /\ Logger(t) \in Holds(Top(t)) BY TopFacts DEF Written
<1>2. Logger(t) \in Locks BY <1>1 DEF Locks
<1>3. lock[Logger(t)].owner = t BY <1>1, <1>2, Owner
<1> QED BY <1>3 DEF CanTake

(* A logger that a statement can lock has no text, unless it logs to       *)
(* itself.                                                                 *)
LEMMA NoText ==
  ASSUME StacksInv, LockInv, TextHeld, NEW t \in Threads, stack[t] # <<>>, ThreadOk(t),
         ~Loose(t), Logger(t) \notin spoiled, CanTake(t, Logger(t)),
         Logger(t) \notin Written(Top(t))
  PROVE  stream[Logger(t)] = <<>>
<1> DEFINE l == Logger(t)
<1>0. l \in Loggers /\ l \in Locks BY TopFacts DEF Locks
<1> HIDE DEF l
<1> SUFFICES ASSUME stream[l] # <<>> PROVE FALSE BY DEF l
<1>1. PICK u \in Threads : \E i \in 1 .. Len(stack[u]) : l \in Written(stack[u][i])
  BY <1>0 DEF TextHeld, l
<1>2. PICK i \in 1 .. Len(stack[u]) : l \in Written(stack[u][i]) BY <1>1
<1> PICK fr : fr = stack[u][i] OBVIOUS
<1>3. fr.stmt.op = "write" /\ l \in Holds(fr) BY <1>2 DEF Written
<1>4. lock[l].owner = u BY <1>0, <1>3, HeldOwner
<1>5. u = t BY <1>4, LogWriterAssumption DEF CanTake, l
<1>6. /\ Len(stack[t]) \in Nat \ {0} /\ StackOk(stack[t]) /\ Top(t) = stack[t][Len(stack[t])]
      /\ Top(t) \in Frames /\ Shape(Top(t)) /\ stack[t] \in Seq(Frames)
  BY TopFacts
<1>7. i \in 1 .. Len(stack[t]) - 1 /\ i + 1 \in 1 .. Len(stack[t])
  <2>1. i # Len(stack[t]) BY <1>2, <1>5, <1>6 DEF l
  <2> QED BY <1>5, <1>6, <2>1
<1>8. fr.pc \in Waiting
  <2>1. Crashes(stack[t][i + 1]) \/ stack[t][i].pc \in Waiting BY <1>6, <1>7 DEF StackOk
  <2>2. ~Crashing(t) BY DEF Loose
  <2>3. i + 1 \in DOMAIN stack[t] BY <1>6, <1>7
  <2> QED BY <1>5, <2>1, <2>2, <2>3 DEF Crashing, Crashes
<1>9. fr \in Frames /\ Shape(fr) BY <1>5, <1>6 DEF StackOk
<1>10. fr.pc = "tail" /\ l = fr.stmt.loggers[fr.at]
  BY <1>3, <1>8, <1>9, HoldsFacts DEF HeldAt, Waiting, Shape, Allowed
<1>11. i = 1
  <2>1. \A j \in 2 .. Len(stack[t]) - 1 : stack[t][j].pc # "tail" BY DEF ThreadOk
  <2>2. i \notin 2 .. Len(stack[t]) - 1 BY <1>5, <1>10, <2>1
  <2> QED BY <1>6, <1>7, <2>2
<1>12. FrameOk(fr) BY <1>5 DEF ThreadOk
<1>13. fr.at = 1 BY <1>10, <1>12 DEF FrameOk
<1>14. Len(stack[t]) \in 2 .. Len(stack[t]) BY <1>6, <1>7, <1>11
<1>15. Nested(stack[t][1].stmt, Top(t).stmt) BY <1>5, <1>6, <1>10, <1>11, <1>14 DEF ThreadOk
<1>16. l \in Range(Top(t).stmt.loggers) BY <1>6, InRange DEF Logger, l
<1> QED BY <1>5, <1>10, <1>11, <1>13, <1>15, <1>16 DEF Nested

(* A statement goes on: what is known of it follows from what was.         *)
LEMMA WriteSane ==
  ASSUME StacksInv, LockInv, NEW t \in Threads, stack[t] # <<>>, ThreadOk(t), TextHeld,
         Discreet(t), Silent' = Silent,
         NEW f \in Frames, Become(t, f), Resembles(Top(t), f), Texts(t, Written(f)),
         ~Loose(t) /\ FrameOk(Top(t)) /\ f.pc \in {"gate", "head", "tail"} => f.at = 1,
         Top(t).stmt.op \in {"write", "log"},
         ~Loose(t) /\ FrameOk(Top(t)) /\ Range(Top(t).stmt.loggers) \cap spoiled' = {}
           /\ Known(Top(t), stream[Logger(t)], Silent) =>
             Known(f, stream'[f.stmt.loggers[f.at]], Silent)
  PROVE  ThreadOk(t)' /\ TextHeld'
<1>1. ASSUME ~Loose(t) PROVE FrameOk(f)'
  <2>1. FrameOk(Top(t)) BY <1>1, TopFacts DEF ThreadOk
  <2>2. spoiled \subseteq spoiled' BY DEF Discreet
  <2>3. Range(f.stmt.loggers) \cap spoiled' = {} =>
          Known(f, stream'[f.stmt.loggers[f.at]], Silent)
    BY <1>1, <2>1, <2>2 DEF FrameOk, Resembles, Logger
  <2>4. f.pc \in {"gate", "head", "tail"} => f.at = 1 BY <1>1, <2>1
  <2> QED BY <2>3, <2>4 DEF FrameOk
<1> QED BY <1>1, BecomeSane

Sane(t) == Discreet(t) /\ ThreadOk(t)' /\ TextHeld'

(* Steps of a statement that leave the texts alone.                        *)
WriteGoes ==
  {<<"gate", "init">>, <<"rollfirst", "callback">>, <<"callback", "roll">>,
   <<"callback", "written">>, <<"roll", "written">>, <<"written", "release">>}

LEMMA GoSane ==
  ASSUME StacksInv, LockInv, NEW t \in Threads, stack[t] # <<>>, ThreadOk(t), TextHeld,
         UNCHANGED <<stream, registered, spoiled, program>>,
         NEW pc, <<Top(t).pc, pc>> \in WriteGoes, Top(t).stmt.op = "write", Go(t, pc)
  PROVE  Sane(t)
<1> DEFINE fr == Top(t)  f == [fr EXCEPT !.pc = pc]  l == Logger(t)
<1>0. fr \in Frames /\ Shape(fr) /\ l \in Loggers BY TopFacts
<1>1. pc \in Pcs /\ Allowed("write", pc) /\ pc \notin {"gate", "head", "tail"}
      /\ (pc = "init" <=> fr.pc = "gate") /\ pc \in Late \cup {"init"}
      /\ (pc \in Late => fr.pc \in Late) /\ (pc = "callback" => fr.pc = "rollfirst") /\ pc # "rollfirst"
      /\ fr.pc \in {"gate", "rollfirst", "callback", "roll", "written"}
  BY DEF WriteGoes, Pcs, Allowed, Late
<1>2. /\ f \in Frames /\ Shape(f) /\ f.pc = pc /\ f.id = fr.id /\ f.stmt = fr.stmt /\ f.at = fr.at
  BY <1>0, <1>1, GoFits DEF Fits
<1>3. f.first = fr.first /\ f.msg = fr.msg /\ f.proceed = fr.proceed
  BY <1>0 DEF Frames
<1>4. Become(t, f) BY DEF Go
<1>5. Discreet(t) /\ Silent' = Silent BY DiscreetNone
<1> HIDE DEF f
<1>6. Resembles(fr, f) BY <1>2 DEF Resembles, Crashes
<1>7. l \in Written(f) \/ l \notin Written(fr)
  <2>1. CASE pc = "init"
    <3>1. Written(fr) = {} BY <1>0, <1>1, <2>1, WrittenFacts
    <3> QED BY <3>1
  <2>2. CASE pc # "init"
    <3>1. f.stmt.op = "write" /\ f.pc \in Late BY <1>1, <1>2, <2>2
    <3>2. f.stmt.loggers[f.at] \in Written(f) BY <1>2, <3>1, WrittenFacts
    <3> QED BY <1>2, <3>2 DEF Logger
  <2> QED BY <2>1, <2>2
<1>8. Texts(t, Written(f))
  <2> DEFINE H == Written(f)
  <2> HIDE DEF H, fr
  <2>1. l \in H \/ l \notin Written(Top(t)) BY <1>7 DEF H, fr
  <2>2. Texts(t, H) BY <2>1, TextsOne
  <2> QED BY <2>2 DEF H
<1>9. ASSUME Known(fr, stream[l], Silent)
      PROVE  Known(f, stream'[f.stmt.loggers[f.at]], Silent)
  <2>1. stream'[f.stmt.loggers[f.at]] = stream[l] BY <1>2 DEF Logger
  <2> PICK s, U : s = stream[l] /\ U = Silent OBVIOUS
  <2>2. Known(fr, s, U) BY <1>9
  <2> HIDE DEF fr, l
  <2>3. Known(f, s, U)
    <3>1. CASE pc = "init" BY <1>1, <1>2, <1>3, <2>2, <3>1 DEF Known, Early, Late
    <3>2. CASE pc = "callback" BY <1>1, <1>2, <1>3, <2>2, <3>2 DEF Known, Early, Late
    <3>3. CASE pc \notin {"init", "callback"}
      <4>1. pc \in {"roll", "written", "release"} /\ fr.pc \in Late
        BY <1>1, <3>3 DEF Late
      <4>2. fr.first BY <2>2, <4>1 DEF Known
      <4> QED BY <1>2, <1>3, <2>2, <4>1, <4>2 DEF Known, Early, Late
    <3> QED BY <3>1, <3>2, <3>3
  <2> QED BY <2>1, <2>3
<1>10. ThreadOk(t)' /\ TextHeld'
  BY <1>1, <1>2, <1>4, <1>5, <1>6, <1>8, <1>9, WriteSane
<1> QED BY <1>5, <1>10 DEF Sane

(* The end of a statement that writes to no logger.                        *)
LEMMA EndSane ==
  ASSUME StacksInv, LockInv, NEW t \in Threads, stack[t] # <<>>, ThreadOk(t), TextHeld,
         Discreet(t), UNCHANGED stream, ~Crashes(Top(t)), Pop(t), Written(Top(t)) = {}
  PROVE  Sane(t)
<1>1. Texts(t, {}) BY DEF Texts
<1> QED BY <1>1, PopSane DEF Sane

(* A statement of another kind goes on.                                    *)
LEMMA OtherGoSane ==
  ASSUME StacksInv, LockInv, NEW t \in Threads, stack[t] # <<>>, ThreadOk(t), TextHeld,
         UNCHANGED <<stream, registered, spoiled, program>>,
         NEW pc \in Pcs \ {"gate", "head", "tail"}, Allowed(Top(t).stmt.op, pc),
         Top(t).stmt.op \notin {"write", "log"}, Go(t, pc)
  PROVE  Sane(t)
<1> DEFINE fr == Top(t)
<1> PICK f : f = [fr EXCEPT !.pc = pc] OBVIOUS
<1>0. fr \in Frames /\ Shape(fr) BY TopFacts
<1>1. f \in Frames /\ Shape(f) /\ f.pc = pc /\ f.stmt = fr.stmt BY <1>0, GoFits DEF Fits
<1>2. Become(t, f) BY DEF Go
<1>3. Discreet(t) BY DiscreetNone
<1>4. Resembles(fr, f) BY <1>1 DEF Resembles, Crashes
<1>5. Written(fr) = {} BY DEF Written
<1>6. Texts(t, Written(f)) BY <1>5 DEF Texts
<1>7. FrameOk(f)' BY <1>1 DEF FrameOk
<1>8. ThreadOk(t)' /\ TextHeld' BY <1>1, <1>2, <1>3, <1>4, <1>6, <1>7, BecomeSane
<1> QED BY <1>3, <1>8 DEF Sane

(* The macros' gates.                                                      *)
LEMMA GateSane ==
  ASSUME StacksInv, LockInv, NEW t \in Threads, ThreadOk(t), TextHeld,
         Normal(t) \/ Conditional(t) \/ EveryN(t) \/ AfterN(t) \/ NTimes(t)
  PROVE  Sane(t)
<1>1. /\ stack[t] # <<>> /\ Top(t).stmt.op = "write" /\ Top(t).pc = "gate"
      /\ Go(t, "init") \/ Pop(t)
      /\ UNCHANGED <<stream, registered, spoiled, program>>
  BY DEF Normal, Conditional, EveryN, AfterN, NTimes, Occasional, Gate, At, Running
<1>2. CASE Go(t, "init")
  <2>1. <<Top(t).pc, "init">> \in WriteGoes BY <1>1 DEF WriteGoes
  <2> QED BY <1>1, <1>2, <2>1, GoSane
<1>3. CASE Pop(t)
  <2>1. Written(Top(t)) = {} BY <1>1, TopFacts, WrittenFacts
  <2>2. Discreet(t) BY <1>1, DiscreetNone
  <2> QED BY <1>1, <1>3, <2>1, <2>2, EndSane DEF Crashes
<1> QED BY <1>1, <1>2, <1>3

(* Steps of statements of other kinds.                                     *)
LEMMA OtherSane ==
  ASSUME StacksInv, LockInv, NEW t \in Threads, ThreadOk(t), TextHeld,
         \/ FlushLogger(t) \/ FlushRoll(t) \/ FlushEnds(t) \/ FlushAll(t) \/ Configure(t)
         \/ Apply(t) \/ RemoveLogger(t) \/ Untracked(t) \/ Checkpoint(t) \/ Checked(t)
  PROVE  Sane(t)
<1>1. CASE FlushLogger(t)
  <2>1. PICK pc \in {"roll", "flushed"} :
          /\ stack[t] # <<>> /\ Top(t).stmt.op \in {"flush", "configure"} /\ Go(t, pc)
          /\ UNCHANGED <<stream, registered, spoiled, program>>
    BY <1>1 DEF FlushLogger, Running, Flushing
  <2>2. pc \in Pcs \ {"gate", "head", "tail"} /\ Allowed(Top(t).stmt.op, pc)
    BY <2>1 DEF Pcs, Allowed
  <2> QED BY <2>1, <2>2, OtherGoSane
<1>2. ASSUME FlushRoll(t) \/ Configure(t) \/ Checkpoint(t) \/ (FlushEnds(t) /\ ~Pop(t))
      PROVE  Sane(t)
  <2>1. PICK pc \in {"flushed", "reset", "handle", "apply"} :
          /\ stack[t] # <<>> /\ Go(t, pc)
          /\ \/ Top(t).stmt.op \in {"flush", "configure"} /\ pc = "flushed"
             \/ Top(t).stmt.op = "configure" /\ pc \in {"reset", "apply"}
             \/ Top(t).stmt.op \in {"checkpoint", "complete"} /\ pc = "handle"
          /\ UNCHANGED <<stream, registered, spoiled, program>>
    BY <1>2 DEF FlushRoll, Reopen, Configure, Checkpoint, FlushEnds, At, Tracking, Running
  <2>2. pc \in Pcs \ {"gate", "head", "tail"} /\ Allowed(Top(t).stmt.op, pc)
    BY <2>1 DEF Pcs, Allowed
  <2> QED BY <2>1, <2>2, OtherGoSane
<1>3. CASE \/ (FlushEnds(t) /\ Pop(t)) \/ FlushAll(t) \/ Apply(t) \/ Untracked(t) \/ Checked(t)
  <2>1. /\ stack[t] # <<>> /\ Pop(t) /\ Top(t).stmt.op \notin {"write", "crash"}
        /\ UNCHANGED <<stream, registered, spoiled, program>>
    BY <1>3 DEF FlushEnds, FlushAll, Apply, Untracked, Checked, Tracking, At, Running
  <2>2. Written(Top(t)) = {} BY <2>1 DEF Written
  <2>3. Discreet(t) BY <2>1, DiscreetNone
  <2> QED BY <2>1, <2>2, <2>3, EndSane DEF Crashes
<1>4. CASE RemoveLogger(t)
  <2>1. /\ stack[t] # <<>> /\ Pop(t) /\ Top(t).stmt.op = "remove"
        /\ lock[Logger(t)].owner = Free /\ registered' = registered \ {Logger(t)}
        /\ UNCHANGED <<stream, spoiled, program>>
    BY <1>4 DEF RemoveLogger, At, Running
  <2>2. Written(Top(t)) = {} BY <2>1 DEF Written
  <2>3. Discreet(t) BY <2>1 DEF Discreet
  <2> QED BY <2>1, <2>2, <2>3, EndSane DEF Crashes
<1> QED BY <1>1, <1>2, <1>3, <1>4

-----------------------------------------------------------------------------
(* A statement locks a logger, whose stream is empty.                      *)
LEMMA InitializeSane ==
  ASSUME StacksInv, LockInv, NEW t \in Threads, ThreadOk(t), TextHeld, InitializeLogger(t)
  PROVE  Sane(t)
<1> DEFINE fr == Top(t)  l == Logger(t)
<1> PICK f : f = [fr EXCEPT !.proceed = Enabled(l), !.pc = IF fr.at = 1 THEN "head" ELSE "dispatch"]
  OBVIOUS
<1>1. /\ stack[t] # <<>> /\ fr.stmt.op = "write" /\ fr.pc = "init" /\ Become(t, f)
      /\ l \in registered \/ Has("CreateLoggerAutomatically")
      /\ registered' = registered \cup {l} /\ CanTake(t, l)
      /\ UNCHANGED <<stream, spoiled, program>>
  BY DEF InitializeLogger, At, Running
<1>2. fr \in Frames /\ Shape(fr) /\ l \in Loggers BY <1>1, TopFacts
<1>3. /\ f \in Frames /\ f.stmt = fr.stmt /\ f.at = fr.at /\ f.id = fr.id /\ f.first = fr.first
      /\ f.msg = fr.msg /\ f.proceed = Enabled(l)
      /\ f.pc = IF fr.at = 1 THEN "head" ELSE "dispatch"
  <2>1. Enabled(l) \in BOOLEAN BY DEF Enabled
  <2> HIDE DEF fr
  <2> QED BY <1>2, <2>1 DEF Frames, Pcs
<1>4. Resembles(fr, f) BY <1>3 DEF Resembles, Crashes
<1>5. Discreet(t) /\ Silent' = Silent BY <1>1 DEF Discreet, Silent, Has
<1>6. Written(fr) = {} BY <1>1, <1>2, WrittenFacts
<1>7. Texts(t, Written(f)) BY <1>1, <1>6 DEF Texts
<1>8. ASSUME ~Loose(t), Range(fr.stmt.loggers) \cap spoiled' = {}, Known(fr, stream[l], Silent)
      PROVE  Known(f, stream'[f.stmt.loggers[f.at]], Silent)
  <2>1. l \notin spoiled BY <1>1, <1>2, <1>8, InRange DEF Logger
  <2>2. stream[l] = <<>> BY <1>1, <1>6, <1>8, <2>1, NoText
  <2>3. stream'[f.stmt.loggers[f.at]] = <<>> BY <1>1, <1>3, <2>2 DEF Logger
  <2>4. l \in Silent <=> ~Enabled(l) BY <1>1, <1>2 DEF Silent, Enabled
  <2>5. l = fr.stmt.loggers[fr.at] BY DEF Logger
  <2> PICK U : U = Silent OBVIOUS
  <2>6. Known(fr, <<>>, U) /\ (l \in U <=> ~Enabled(l)) BY <1>8, <2>2, <2>4
  <2> HIDE DEF fr, l
  <2>7. Known(f, <<>>, U) BY <1>1, <1>3, <2>5, <2>6 DEF Known, Early, Late
  <2> QED BY <2>3, <2>7
<1>9. f.pc \in {"gate", "head", "tail"} => f.at = 1 BY <1>3
<1>10. ThreadOk(t)' /\ TextHeld'
  BY <1>1, <1>3, <1>4, <1>5, <1>7, <1>8, <1>9, WriteSane
<1> QED BY <1>5, <1>10 DEF Sane

(* A name that is streamed twice.                                          *)
LEMMA Twice == ASSUME NEW S, NEW e \in S PROVE Append(<<e>>, e) = <<e, e>>
<1> PICK a : a = <<e>> OBVIOUS
<1> PICK c : c = <<e, e>> OBVIOUS
<1> PICK b : b = Append(a, e) OBVIOUS
<1>1. a \in Seq(S) /\ Len(a) = 1 /\ a[1] = e OBVIOUS
<1>2. c \in Seq(S) /\ Len(c) = 2 /\ c[1] = e /\ c[2] = e OBVIOUS
<1>3. /\ b \in Seq(S) /\ Len(b) = Len(a) + 1 /\ b[Len(a) + 1] = e
      /\ \A i \in 1 .. Len(a) : b[i] = a[i]
  BY <1>1, PushSeq
<1>4. Len(b) = 2 /\ b[1] = e /\ b[2] = e BY <1>1, <1>3
<1>5. \A i \in 1 .. Len(b) : b[i] = c[i] BY <1>2, <1>4
<1>6. b \in Seq(S) /\ c \in Seq(S) /\ Len(b) = Len(c) BY <1>1, <1>2, <1>3, <1>4
<1>7. b = c BY <1>5, <1>6, SeqEqual
<1> QED BY <1>7

(* A piece of the text is streamed.                                        *)
LEMMA StreamSane ==
  ASSUME StacksInv, LockInv, NEW t \in Threads, ThreadOk(t), TextHeld,
         StreamHead(t) \/ StreamTail(t)
  PROVE  Sane(t)
<1> DEFINE fr == Top(t)  l == Logger(t)
<1> PICK pc \in {"tail", "dispatch"} :
       /\ stack[t] # <<>> /\ fr.stmt.op = "write" /\ Go(t, pc)
       /\ fr.pc = IF pc = "tail" THEN "head" ELSE "tail"
       /\ UNCHANGED <<registered, spoiled, program>>
       /\ stream' = IF fr.proceed THEN [stream EXCEPT ![l] = Append(@, fr.id)] ELSE stream
  BY DEF StreamHead, StreamTail, Stream, At, Running
<1> PICK f : f = [fr EXCEPT !.pc = pc] OBVIOUS
<1>1. Become(t, f) BY DEF Go
<1>2. fr \in Frames /\ Shape(fr) /\ l \in Loggers BY TopFacts
<1>3. pc \in Pcs /\ Allowed("write", pc) BY DEF Pcs, Allowed
<1>4. f \in Frames /\ Shape(f) /\ f.pc = pc /\ f.id = fr.id /\ f.stmt = fr.stmt /\ f.at = fr.at
  BY <1>2, <1>3, GoFits DEF Fits
<1>5. f.first = fr.first /\ f.msg = fr.msg /\ f.proceed = fr.proceed
  BY <1>2 DEF Frames
<1>6. Resembles(fr, f) BY <1>4 DEF Resembles, Crashes
<1>7. l \in Written(fr) /\ l \in Written(f) /\ l \in Holds(fr)
  <2>1. l \in Written(fr) BY <1>2, WrittenFacts DEF Logger
  <2>2. f.stmt.op = "write" /\ f.pc \in {"tail", "dispatch"} BY <1>4
  <2>3. f.stmt.loggers[f.at] \in Written(f) BY <1>4, <2>2, WrittenFacts
  <2> QED BY <1>4, <2>1, <2>3 DEF Logger, Written
<1>8. CanTake(t, l) BY <1>7, CanRetake
<1>9. stream \in [Loggers -> Seq(Ids)] BY DEF StacksInv
<1>10. \A k \in Loggers \ {l} : stream'[k] = stream[k]
  <2> HIDE DEF l, fr
  <2> QED BY <1>9
<1>11. Discreet(t) /\ Silent' = Silent BY <1>8, <1>10, DiscreetOne
<1>12. Texts(t, Written(f))
  <2> DEFINE H == Written(f)
  <2>1. l \in H BY <1>7
  <2> HIDE DEF H
  <2>2. Texts(t, H) BY <1>10, <2>1, TextsOne
  <2> QED BY <2>2 DEF H
<1>13. ASSUME FrameOk(fr), Known(fr, stream[l], Silent)
       PROVE  Known(f, stream'[f.stmt.loggers[f.at]], Silent)
  <2>1. fr.at = 1 BY <1>13 DEF FrameOk
  <2>2. l = fr.stmt.loggers[fr.at] BY DEF Logger
  <2> PICK s, r, U : s = stream[l] /\ r = stream'[l] /\ U = Silent OBVIOUS
  <2>3. r = IF fr.proceed THEN Append(s, fr.id) ELSE s
    <3> HIDE DEF l, fr
    <3> QED BY <1>2, <1>9
  <2>4. Known(fr, s, U) BY <1>13
  <2> HIDE DEF fr, l
  <2>5. fr.proceed => s = IF pc = "tail" THEN <<>> ELSE <<fr.id>> BY <2>4 DEF Known
  <2>6. fr.proceed => r = IF pc = "tail" THEN <<fr.id>> ELSE <<fr.id, fr.id>>
    <3> PICK e \in Ids : e = fr.id BY <1>2 DEF Frames
    <3>1. Append(<<>>, e) = <<e>> OBVIOUS
    <3>2. Append(<<e>>, e) = <<e, e>> BY Twice
    <3> QED BY <2>3, <2>5, <3>1, <3>2
  <2>7. Known(f, r, U)
    <3>1. CASE pc = "tail" BY <1>4, <1>5, <2>1, <2>2, <2>4, <2>6, <3>1 DEF Known, Early, Late
    <3>2. CASE pc = "dispatch" BY <1>4, <1>5, <2>1, <2>2, <2>4, <2>6, <3>2 DEF Known, Early, Late
    <3> QED BY <3>1, <3>2
  <2> QED BY <1>4, <2>2, <2>7
<1>14. FrameOk(fr) => f.at = 1 BY <1>4 DEF FrameOk
<1>15. ThreadOk(t)' /\ TextHeld'
  BY <1>1, <1>4, <1>6, <1>11, <1>12, <1>13, <1>14, WriteSane
<1> QED BY <1>11, <1>15 DEF Sane

(* Arguments are streamed.                                                 *)
LEMMA ArgumentsSane ==
  ASSUME StacksInv, LockInv, NEW t \in Threads, ThreadOk(t), TextHeld, LogArguments(t)
  PROVE  Sane(t)
<1> DEFINE fr == Top(t)  l == Logger(t)  p == Enabled(l)
<1> PICK f : f = [fr EXCEPT !.proceed = p, !.stmt.op = "write", !.pc = "tail"] OBVIOUS
<1>1. /\ stack[t] # <<>> /\ fr.stmt.op = "log" /\ fr.pc = "gate" /\ CanTake(t, l)
      /\ stream' = [stream EXCEPT ![l] = Append(@, fr.id)]
      /\ \/ Pop(t) /\ spoiled' = spoiled \cup {l}
         \/ Become(t, f) /\ UNCHANGED spoiled
      /\ UNCHANGED <<registered, program>>
  BY DEF LogArguments, At, Running
<1>2. fr \in Frames /\ Shape(fr) /\ l \in Loggers BY <1>1, TopFacts
<1>3. stream \in [Loggers -> Seq(Ids)] BY DEF StacksInv
<1>4. stream'[l] = Append(stream[l], fr.id) /\ \A k \in Loggers \ {l} : stream'[k] = stream[k]
  <2> HIDE DEF l, fr
  <2> QED BY <1>1, <1>2, <1>3
<1>5. Discreet(t) /\ Silent' = Silent BY <1>1, <1>4, DiscreetOne
<1>6. Written(fr) = {} BY <1>1 DEF Written
<1>7. CASE Pop(t) /\ spoiled' = spoiled \cup {l}
  <2>1. Texts(t, {}) BY <1>1, <1>4, <1>7, TextsOne
  <2> QED BY <1>1, <1>5, <1>7, <2>1, PopSane DEF Crashes, Sane
<1>8. CASE Become(t, f) /\ UNCHANGED spoiled
  <2>1. p \in BOOLEAN BY DEF Enabled
  <2> HIDE DEF p
  <2>2. fr.stmt \in Framed BY <1>2 DEF Frames
  <2> DEFINE s == [fr.stmt EXCEPT !.op = "write"]
  <2>3. s \in Framed /\ s.op = "write" /\ s.loggers = fr.stmt.loggers /\ s.inner = fr.stmt.inner
        /\ s.level = fr.stmt.level
    BY <2>2 DEF Framed, StatementsWith, Operations
  <2>4. f = [fr EXCEPT !.proceed = p, !.stmt = s, !.pc = "tail"]
    BY <1>2 DEF Frames
  <2> HIDE DEF s
  <2>5. /\ f \in Frames /\ f.pc = "tail" /\ f.stmt = s /\ f.at = fr.at /\ f.id = fr.id
        /\ f.proceed = p /\ f.first = fr.first /\ f.msg = fr.msg /\ f.evaluated = fr.evaluated
    <3> HIDE DEF fr
    <3> QED BY <1>2, <2>1, <2>3, <2>4 DEF Frames, Pcs
  <2>6. Resembles(fr, f) BY <1>1, <2>3, <2>5 DEF Resembles, Crashes
  <2>7. Shape(f) BY <1>2, <2>3, <2>5 DEF Shape, Allowed
  <2>8. l \in Written(f)
    <3>1. f.stmt.op = "write" /\ f.pc = "tail" BY <2>3, <2>5
    <3>2. f.stmt.loggers[f.at] \in Written(f) BY <2>5, <2>7, <3>1, WrittenFacts
    <3> QED BY <2>3, <2>5, <3>2 DEF Logger
  <2>9. Texts(t, Written(f))
    <3> DEFINE H == Written(f)
    <3>1. l \in H BY <2>8
    <3> HIDE DEF H
    <3>2. Texts(t, H) BY <1>1, <1>4, <3>1, TextsOne
    <3> QED BY <3>2 DEF H
  <2>10. FrameOk(fr) => fr.at = 1 BY <1>1 DEF FrameOk
  <2>11. ASSUME ~Loose(t), FrameOk(fr), Range(fr.stmt.loggers) \cap spoiled' = {},
                Known(fr, stream[l], Silent)
         PROVE  Known(f, stream'[f.stmt.loggers[f.at]], Silent)
    <3>1. l \notin spoiled BY <1>2, <1>8, <2>11, InRange DEF Logger
    <3>2. stream[l] = <<>> BY <1>1, <1>6, <2>11, <3>1, NoText
    <3>3. stream'[f.stmt.loggers[f.at]] = <<fr.id>>
      <4>1. stream'[l] = <<fr.id>> BY <1>4, <3>2
      <4> QED BY <2>3, <2>5, <4>1 DEF Logger
    <3>4. ~p => l \in Silent BY <1>2 DEF Silent, Enabled, p
    <3>5. l = fr.stmt.loggers[fr.at] BY DEF Logger
    <3> PICK U : U = Silent OBVIOUS
    <3>6. Known(fr, <<>>, U) /\ (~p => l \in U) BY <2>11, <3>2, <3>4
    <3>7. fr.at = 1 BY <2>10, <2>11
    <3> HIDE DEF fr, l
    <3>8. Known(f, <<fr.id>>, U)
      BY <1>1, <2>3, <2>5, <3>5, <3>6, <3>7 DEF Known, Early, Late
    <3> QED BY <3>3, <3>8
  <2>12. ~Loose(t) /\ FrameOk(fr) => f.at = 1 BY <2>5, <2>10
  <2>13. ThreadOk(t)' /\ TextHeld'
    BY <1>1, <1>5, <1>8, <2>5, <2>6, <2>9, <2>11, <2>12, WriteSane
  <2> QED BY <1>5, <2>13 DEF Sane
<1> QED BY <1>1, <1>7, <1>8

(* The statement is dispatched to its logger.                              *)
LEMMA DispatchSane ==
  ASSUME StacksInv, LockInv, NEW t \in Threads, ThreadOk(t), TextHeld, Dispatch(t)
  PROVE  Sane(t)
<1> DEFINE fr == Top(t)  l == Logger(t)
<1> PICK msg : msg = IF fr.first THEN fr.msg ELSE stream[l] OBVIOUS
<1> PICK pc : pc = IF Has("StrictLogFileSizeCheck") /\ TooLarge(FileOf[l]) THEN "rollfirst"
                   ELSE "callback"
  OBVIOUS
<1> PICK f : f = [fr EXCEPT !.first = TRUE, !.msg = msg, !.pc = pc] OBVIOUS
<1>1. /\ stack[t] # <<>> /\ fr.stmt.op = "write" /\ fr.pc = "dispatch" /\ fr.proceed
      /\ Become(t, f) /\ pc \in {"rollfirst", "callback"}
      /\ stream' = IF fr.first THEN [stream EXCEPT ![l] = @ \o fr.msg] ELSE stream
      /\ UNCHANGED <<registered, spoiled, program>>
  BY DEF Dispatch, At, Running
<1>2. fr \in Frames /\ Shape(fr) /\ l \in Loggers BY <1>1, TopFacts
<1>3. fr.msg \in Seq(Ids) /\ stream \in [Loggers -> Seq(Ids)] /\ stream[l] \in Seq(Ids)
  BY <1>2 DEF Frames, StacksInv
<1>4. msg \in Seq(Ids) BY <1>3
<1>5. /\ f \in Frames /\ f.pc = pc /\ f.stmt = fr.stmt /\ f.at = fr.at /\ f.id = fr.id
      /\ f.first = TRUE /\ f.msg = msg /\ f.proceed = fr.proceed
      /\ f.evaluated = fr.evaluated
  <2> HIDE DEF fr
  <2> QED BY <1>1, <1>2, <1>4 DEF Frames, Pcs
<1>6. Resembles(fr, f) BY <1>5 DEF Resembles, Crashes
<1>7. l \in Written(fr) /\ l \in Written(f)
  <2>1. l \in Written(fr) BY <1>1, <1>2, WrittenFacts DEF Logger
  <2>2. Shape(f) BY <1>1, <1>2, <1>5 DEF Shape, Allowed
  <2>3. f.stmt.op = "write" /\ f.pc \in Late BY <1>1, <1>5 DEF Late
  <2>4. f.stmt.loggers[f.at] \in Written(f) BY <1>5, <2>2, <2>3, WrittenFacts
  <2> QED BY <1>5, <2>1, <2>4 DEF Logger
<1>8. CanTake(t, l) BY <1>1, <1>7, CanRetake
<1>9. \A k \in Loggers \ {l} : stream'[k] = stream[k]
  <2> HIDE DEF l, fr
  <2> QED BY <1>1, <1>3
<1>10. Discreet(t) /\ Silent' = Silent BY <1>1, <1>8, <1>9, DiscreetOne
<1>11. Texts(t, Written(f))
  <2> DEFINE H == Written(f)
  <2>1. l \in H BY <1>7
  <2> HIDE DEF H
  <2>2. Texts(t, H) BY <1>1, <1>9, <2>1, TextsOne
  <2> QED BY <2>2 DEF H
<1>12. ASSUME Known(fr, stream[l], Silent)
       PROVE  Known(f, stream'[f.stmt.loggers[f.at]], Silent)
  <2>1. l = fr.stmt.loggers[fr.at] BY DEF Logger
  <2> PICK s, r, U : s = stream[l] /\ r = stream'[l] /\ U = Silent OBVIOUS
  <2>2. r = IF fr.first THEN s \o fr.msg ELSE s
    <3> HIDE DEF l, fr
    <3> QED BY <1>1, <1>2, <1>3
  <2>3. Known(fr, s, U) BY <1>12
  <2>4. msg = IF fr.first THEN fr.msg ELSE s OBVIOUS
  <2>5. fr.at \in Nat \ {0} BY <1>2 DEF Frames
  <2> HIDE DEF fr, l
  <2>6. s = IF fr.at = 1 THEN <<fr.id, fr.id>> ELSE <<>> BY <1>1, <2>3 DEF Known
  <2>7. fr.first => fr.at > 1 BY <1>1, <2>3, <2>5 DEF Known, Early
  <2>8. r = msg
    <3>1. CASE ~fr.first BY <2>2, <2>4, <3>1
    <3>2. CASE fr.first
      <4>1. s = <<>> BY <2>5, <2>6, <2>7, <3>2
      <4>2. <<>> \o fr.msg = fr.msg BY <1>3
      <4> QED BY <2>2, <2>4, <3>2, <4>1, <4>2
    <3> QED BY <3>1, <3>2
  <2>9. /\ msg \in {<<>>, <<fr.id, fr.id>>} /\ (fr.at = 1 => msg = <<fr.id, fr.id>>)
        /\ fr.at > 1 /\ (~fr.first \/ msg = <<>>) => fr.stmt.loggers[1] \in U
        /\ fr.at > 1 => fr.stmt.loggers[fr.at] \notin U
    BY <1>1, <2>3, <2>4, <2>5, <2>6, <2>7 DEF Known
  <2>10. Known(f, r, U)
    BY <1>1, <1>5, <2>5, <2>8, <2>9 DEF Known, Early, Late
  <2> QED BY <1>5, <2>1, <2>10
<1>13. f.pc \notin {"gate", "head", "tail"} BY <1>1, <1>5
<1>14. ThreadOk(t)' /\ TextHeld'
  BY <1>1, <1>5, <1>6, <1>10, <1>11, <1>12, <1>13, WriteSane
<1> QED BY <1>10, <1>14 DEF Sane

(* A statement goes on with its next logger, or ends.                      *)
LEMMA AfterSane ==
  ASSUME StacksInv, LockInv, NEW t \in Threads, stack[t] # <<>>, ThreadOk(t), TextHeld,
         Discreet(t), Silent' = Silent, Top(t).stmt.op = "write", AfterLogger(t),
         \A k \in Loggers \ {Logger(t)} : stream'[k] = stream[k],
         \/ Logger(t) \in spoiled' \/ stream'[Logger(t)] = <<>>
         \/ stream'[Logger(t)] = stream[Logger(t)] /\ Logger(t) \notin Written(Top(t)),
         \/ Logger(t) \in spoiled'
         \/ Top(t).pc \in {"missed", "release"}
         \/ Top(t).pc = "dispatch" /\ ~Top(t).proceed
  PROVE  Sane(t)
<1> DEFINE fr == Top(t)  l == Logger(t)
<1> PICK f : f = [fr EXCEPT !.at = @ + 1, !.pc = "init", !.proceed = FALSE] OBVIOUS
<1>1. fr \in Frames /\ Shape(fr) BY TopFacts
<1>2. CASE Pop(t)
  <2>1. Texts(t, {}) BY TextsOne
  <2> QED BY <1>2, <2>1, PopSane DEF Crashes, Sane
<1>3. CASE fr.at < Len(LoggerIds(fr.stmt)) /\ Become(t, f)
  <2>0. /\ f \in Frames /\ f.pc = "init" /\ f.stmt = fr.stmt /\ f.at = fr.at + 1
        /\ f.id = fr.id /\ f.first = fr.first /\ f.msg = fr.msg /\ f.evaluated = fr.evaluated
    <3>1. fr.at \in Nat \ {0} BY <1>1 DEF Frames
    <3>2. fr.at + 1 \in Nat \ {0} /\ "init" \in Pcs /\ FALSE \in BOOLEAN BY <3>1 DEF Pcs
    <3> HIDE DEF fr
    <3> QED BY <1>1, <3>2 DEF Frames
  <2>1. /\ f \in Frames /\ f.pc = "init" /\ f.stmt = fr.stmt /\ f.at = fr.at + 1 /\ f.at > 1
        /\ f.id = fr.id /\ f.first = fr.first /\ f.msg = fr.msg /\ f.evaluated = fr.evaluated
    <3>1. fr.at \in Nat \ {0} BY <1>1 DEF Frames
    <3> QED BY <2>0, <3>1
  <2>2. Resembles(fr, f) BY <2>1 DEF Resembles, Crashes
  <2>3. Texts(t, Written(f))
    <3> DEFINE H == Written(f)
    <3> HIDE DEF H
    <3>1. Texts(t, H) BY TextsOne
    <3> QED BY <3>1 DEF H
  <2>4. ASSUME Range(fr.stmt.loggers) \cap spoiled' = {}, Known(fr, stream[l], Silent)
        PROVE  Known(f, stream'[f.stmt.loggers[f.at]], Silent)
    <3>1. l \notin spoiled' BY <1>1, <2>4, InRange DEF Logger
    <3>2. fr.pc \in {"missed", "release"} \/ (fr.pc = "dispatch" /\ ~fr.proceed)
      BY <3>1
    <3>3. l = fr.stmt.loggers[fr.at] /\ fr.at \in Nat \ {0} BY <1>1 DEF Logger, Frames
    <3> PICK s, r, U : s = stream[l] /\ r = stream'[f.stmt.loggers[f.at]] /\ U = Silent OBVIOUS
    <3>4. Known(fr, s, U) BY <2>4
    <3> HIDE DEF fr, l
    <3>5. fr.first => fr.msg \in {<<>>, <<fr.id, fr.id>>} BY <3>4 DEF Known
    <3>6. ~fr.first \/ fr.msg = <<>> => fr.stmt.loggers[1] \in U
      <4>1. CASE fr.at > 1 BY <3>4, <4>1 DEF Known
      <4>2. CASE fr.at = 1
        <5>1. CASE fr.pc = "release"
          <6>1. fr.first /\ fr.msg = <<fr.id, fr.id>> BY <3>4, <4>2, <5>1 DEF Known, Late
          <6> QED BY <6>1
        <5>2. CASE fr.pc # "release" BY <3>2, <3>3, <3>4, <4>2, <5>2 DEF Known
        <5> QED BY <5>1, <5>2
      <4> QED BY <3>3, <4>1, <4>2
    <3>7. Known(f, r, U) BY <2>1, <3>5, <3>6 DEF Known, Early, Late
    <3> QED BY <3>7
  <2>5. f.pc \notin {"gate", "head", "tail"} BY <2>1
  <2>6. ThreadOk(t)' /\ TextHeld'
    BY <1>3, <2>1, <2>2, <2>3, <2>4, <2>5, WriteSane
  <2> QED BY <2>6 DEF Sane
<1> QED BY <1>2, <1>3 DEF AfterLogger

(* Where a logger is left.                                                 *)
LEMMA LeaveSane ==
  ASSUME StacksInv, LockInv, NEW t \in Threads, ThreadOk(t), TextHeld,
         \/ Skip(t) \/ Missed(t) \/ CallbackThrows(t)
         \/ Release(t) /\ AfterLogger(t)
  PROVE  Sane(t)
<1> DEFINE l == Logger(t)
<1>1. stack[t] # <<>> BY DEF Skip, Missed, CallbackThrows, Release, At, Running
<1>2. l \in Loggers /\ stream \in [Loggers -> Seq(Ids)] /\ Top(t) \in Frames /\ Shape(Top(t))
  BY <1>1, TopFacts DEF StacksInv
<1>3. CASE Skip(t) \/ (Release(t) /\ AfterLogger(t))
  <2>1. /\ Top(t).stmt.op = "write" /\ AfterLogger(t)
        /\ Top(t).pc = "release" \/ (Top(t).pc = "dispatch" /\ ~Top(t).proceed)
        /\ stream' = [stream EXCEPT ![l] = <<>>]
        /\ UNCHANGED <<registered, spoiled, program>>
    BY <1>3 DEF Skip, Release, At
  <2>2. l \in Written(Top(t)) BY <1>2, <2>1, WrittenFacts DEF Logger, Late
  <2>3. CanTake(t, l) BY <1>1, <2>2, CanRetake
  <2>4. stream'[l] = <<>> /\ \A k \in Loggers \ {l} : stream'[k] = stream[k]
    <3> HIDE DEF l
    <3> QED BY <1>2, <2>1
  <2>5. Discreet(t) /\ Silent' = Silent BY <2>1, <2>3, <2>4, DiscreetOne
  <2> QED BY <1>1, <2>1, <2>4, <2>5, AfterSane
<1>4. CASE Missed(t)
  <2>1. /\ Top(t).stmt.op = "write" /\ AfterLogger(t) /\ Top(t).pc = "missed"
        /\ UNCHANGED <<stream, registered, spoiled, program>>
    BY <1>4 DEF Missed, At
  <2>2. l \notin Written(Top(t)) BY <1>2, <2>1, WrittenFacts
  <2>3. Discreet(t) /\ Silent' = Silent BY <2>1, DiscreetNone
  <2> QED BY <1>1, <2>1, <2>2, <2>3, AfterSane
<1>5. CASE CallbackThrows(t)
  <2>1. /\ Top(t).pc \in {"callback", "written"} /\ AfterLogger(t)
        /\ spoiled' = spoiled \cup {l}
        /\ UNCHANGED <<stream, registered, program>>
    BY <1>5 DEF CallbackThrows
  <2>2. Top(t).stmt.op = "write"
    <3>1. Top(t).stmt.op \in Operations \cup {"crash"}
      BY <1>2 DEF Frames, Framed, StatementsWith
    <3> QED BY <1>2, <2>1, <3>1 DEF Shape, Allowed, Operations
  <2>3. Discreet(t) /\ Silent' = Silent BY <2>1, DiscreetOne
  <2> QED BY <1>1, <2>1, <2>2, <2>3, AfterSane
<1> QED BY <1>3, <1>4, <1>5

(* Lines are written, files rolled and Storage's lock released.            *)
LEMMA WriteGoSane ==
  ASSUME StacksInv, LockInv, NEW t \in Threads, ThreadOk(t), TextHeld,
         RollFirst(t) \/ Callback(t) \/ Roll(t) \/ Undispatch(t)
  PROVE  Sane(t)
<1>1. PICK pc \in {"callback", "written", "roll", "release"} :
        /\ stack[t] # <<>> /\ Top(t).stmt.op = "write" /\ Go(t, pc)
        /\ \/ Top(t).pc = "rollfirst" /\ pc = "callback"
           \/ Top(t).pc = "callback" /\ pc \in {"roll", "written"}
           \/ Top(t).pc = "roll" /\ pc = "written"
           \/ Top(t).pc = "written" /\ pc = "release"
        /\ UNCHANGED <<stream, registered, spoiled, program>>
  BY DEF RollFirst, Callback, Roll, Undispatch, Reopen, At, Running
<1>2. <<Top(t).pc, pc>> \in WriteGoes BY <1>1 DEF WriteGoes
<1> QED BY <1>1, <1>2, GoSane

-----------------------------------------------------------------------------
(* A statement is executed from the uppermost one.                         *)
LEMMA ExecuteSane ==
  ASSUME StacksInv, LockInv, NEW t \in Threads, stack[t] # <<>>, ThreadOk(t), TextHeld,
         Discreet(t), NEW fr, Fits(Top(t), fr), Resembles(Top(t), fr), NEW s \in Plain,
         Execute(t, fr, s), Texts(t, Written(fr)),
         ~Loose(t) /\ FrameOk(Top(t)) => FrameOk(fr)' /\ Inside(t, fr, s)
  PROVE  Sane(t)
<1> PICK f : f = [fr EXCEPT !.calls = @ + 1] OBVIOUS
<1> PICK g : g = Frame(Within(fr), s) OBVIOUS
<1>1. /\ f \in Frames /\ f.pc = fr.pc /\ f.id = fr.id /\ f.stmt = fr.stmt /\ f.at = fr.at
      /\ f.first = fr.first /\ f.msg = fr.msg /\ f.proceed = fr.proceed
  <2>1. fr \in Frames BY DEF Fits
  <2>2. fr.calls + 1 \in Nat BY <2>1 DEF Frames
  <2> QED BY <2>1, <2>2 DEF Frames
<1>2. g \in Frames /\ g.stmt = s /\ g.at = 1 /\ g.pc = "gate"
  BY FrameFresher DEF Fits, Fresher
<1>3. g.first = FALSE
  <2> PICK w : w = Within(fr) OBVIOUS
  <2>1. g = Frame(w, s) OBVIOUS
  <2> QED BY <2>1 DEF Frame
<1>4. Covering(t, f, g) BY DEF Execute, Covering
<1>5. Resembles(Top(t), f) BY <1>1 DEF Resembles, Crashes
<1>6. Written(f) = Written(fr) BY <1>1 DEF Written, Holds
<1>7. Texts(t, Written(f))
  <2> DEFINE H == Written(f)
  <2>1. H = Written(fr) BY <1>6
  <2> HIDE DEF H
  <2>2. Texts(t, H) BY <2>1
  <2> QED BY <2>2 DEF H
<1>8. FrameOk(g)' BY <1>2, <1>3 DEF FrameOk, Known, Early, Late
<1>9. ASSUME ~Loose(t) PROVE FrameOk(f)' /\ Inside(t, f, g.stmt)
  <2>1. FrameOk(Top(t)) BY <1>9, TopFacts DEF ThreadOk
  <2>2. FrameOk(fr)' /\ Inside(t, fr, s) BY <1>9, <2>1
  <2>3. FrameOk(f)' BY <1>1, <2>2 DEF FrameOk, Known
  <2>4. Inside(t, f, g.stmt) BY <1>1, <1>2, <2>2 DEF Inside
  <2> QED BY <2>3, <2>4
<1>10. ThreadOk(t)' /\ TextHeld' BY <1>1, <1>2, <1>4, <1>5, <1>7, <1>8, <1>9, CoverSane
<1> QED BY <1>10 DEF Sane

LEMMA AtLeastTwo == ASSUME NEW k \in Nat \ {0}, k # 1 PROVE k \in 2 .. k
OBVIOUS

(* Within a message that is streamed the library logs to loggers other     *)
(* than the statement's first.                                             *)
LEMMA CalledInside ==
  ASSUME StacksInv, NEW t \in Threads, stack[t] # <<>>, ThreadOk(t), ~Loose(t),
         NEW fr, fr.pc # "tail", NEW l \in Loggers,
         \/ l = Logger(t)
         \/ l = Default /\ Logger(t) \notin registered /\ ~Has("CreateLoggerAutomatically")
         \/ l = Default /\ Top(t).stmt.level = "fatal"
                        /\ ~Has("DisableApplicationAbortOnFatalLog")
  PROVE  Inside(t, fr, Internal(l))
<1> SUFFICES ASSUME Len(stack[t]) # 1, stack[t][1].pc = "tail"
             PROVE  Nested(stack[t][1].stmt, Internal(l))
  BY DEF Inside
<1> PICK s : s = stack[t][1].stmt OBVIOUS
<1> PICK r : r = Top(t).stmt OBVIOUS
<1>1. /\ Len(stack[t]) \in Nat \ {0} /\ Top(t) = stack[t][Len(stack[t])]
      /\ Top(t) \in Frames /\ Shape(Top(t))
  BY TopFacts
<1>2. Len(stack[t]) \in 2 .. Len(stack[t]) BY <1>1, AtLeastTwo
<1>3. Nested(s, r) BY <1>1, <1>2 DEF ThreadOk
<1>4. Logger(t) \in Range(r.loggers) BY <1>1, InRange DEF Logger
<1>5. ~LogsToItself(s) BY DEF Loose
<1>6. /\ Internal(l).level = "info" /\ Internal(l).loggers = <<l>>
  BY DEF Internal
<1>7. Range(Internal(l).loggers) = {l}
  <2>1. DOMAIN <<l>> = {1} /\ <<l>>[1] = l OBVIOUS
  <2> QED BY <1>6, <2>1 DEF Range
<1>8. l # s.loggers[1] /\ l \in Range(s.inner.loggers) \cup {Default}
  <2>1. CASE l = Logger(t) BY <1>3, <1>4, <2>1 DEF Nested
  <2>2. CASE l = Default /\ Logger(t) \notin registered /\ ~Has("CreateLoggerAutomatically")
    <3>1. SUFFICES ASSUME s.loggers[1] = Default PROVE FALSE BY <2>2
    <3>2. Logger(t) \in Range(s.inner.loggers) BY <1>3, <1>4, <3>1 DEF Nested
    <3> QED BY <1>3, <1>5, <2>2, <3>1, <3>2 DEF LogsToItself, Nested
  <2>3. CASE l = Default /\ r.level = "fatal" /\ ~Has("DisableApplicationAbortOnFatalLog")
    <3>1. SUFFICES ASSUME s.loggers[1] = Default PROVE FALSE BY <2>3
    <3> QED BY <1>3, <1>5, <2>3, <3>1 DEF LogsToItself, Nested
  <2> QED BY <2>1, <2>2, <2>3
<1>9. s.inner # NoStmt BY <1>3 DEF Nested
<1> QED BY <1>6, <1>7, <1>8, <1>9 DEF Nested

(* The library logs from within a statement.                               *)
LEMMA CallSane ==
  ASSUME StacksInv, LockInv, NEW t \in Threads, ThreadOk(t), TextHeld,
         \/ LoggerMissing(t) \/ Report(t)
         \/ Release(t) /\ Call(t, "abort", Internal(Default))
            /\ Top(t).stmt.level = "fatal" /\ ~Has("DisableApplicationAbortOnFatalLog")
  PROVE  Sane(t)
<1> DEFINE top == Top(t)  l == Logger(t)
<1> PICK pc \in {"missed", "checked", "abort"}, d \in {Default, l} :
      /\ Call(t, pc, Internal(d)) /\ stack[t] # <<>>
      /\ \/ /\ pc = "missed" /\ d = Default /\ top.stmt.op = "write" /\ top.pc = "init"
            /\ l \notin registered /\ ~Has("CreateLoggerAutomatically") /\ UNCHANGED stream
         \/ /\ pc = "checked" /\ d = l /\ top.stmt.op \in {"checkpoint", "complete"}
            /\ UNCHANGED stream
         \/ /\ pc = "abort" /\ d = Default /\ top.stmt.op = "write" /\ top.pc = "release"
            /\ top.stmt.level = "fatal" /\ ~Has("DisableApplicationAbortOnFatalLog")
            /\ stream' = [stream EXCEPT ![l] = <<>>]
      /\ UNCHANGED <<registered, spoiled, program>>
  BY DEF LoggerMissing, Report, Release, Tracking, At, Running
<1> PICK fr : fr = [top EXCEPT !.pc = pc] OBVIOUS
<1>1. top \in Frames /\ Shape(top) /\ l \in Loggers /\ d \in Loggers
  BY TopFacts, LogWriterAssumption
<1>2. pc \in Pcs /\ Allowed(top.stmt.op, pc) BY DEF Pcs, Allowed
<1>3. Fits(top, fr) /\ fr.pc = pc /\ fr.id = top.id /\ fr.stmt = top.stmt /\ fr.at = top.at
  BY <1>1, <1>2, GoFits
<1>4. fr.first = top.first /\ fr.msg = top.msg /\ fr.proceed = top.proceed
  BY <1>1 DEF Frames
<1>5. Resembles(top, fr) BY <1>3 DEF Resembles, Crashes
<1>6. Execute(t, fr, Internal(d)) /\ Internal(d) \in Plain BY <1>1, InternalPlain DEF Call
<1>7. stream \in [Loggers -> Seq(Ids)] BY DEF StacksInv
<1>8. /\ \A k \in Loggers \ {l} : stream'[k] = stream[k]
      /\ stream'[l] = <<>> \/ (stream'[l] = stream[l] /\ Written(top) = {})
      /\ stream'[l] = stream[l] \/ l \in Written(top)
  <2>1. CASE UNCHANGED stream /\ (top.stmt.op # "write" \/ top.pc = "init")
    BY <1>1, <2>1, WrittenFacts
  <2>2. CASE /\ stream' = [stream EXCEPT ![l] = <<>>]
             /\ top.stmt.op = "write" /\ top.pc = "release"
    <3>1. l \in Written(top) BY <1>1, <2>2, WrittenFacts DEF Late, Logger
    <3> HIDE DEF l, top
    <3> QED BY <1>1, <1>7, <2>2, <3>1
  <2> QED BY <2>1, <2>2
<1>9. stream'[l] = stream[l] \/ CanTake(t, l) BY <1>8, CanRetake
<1>10. Discreet(t) /\ Silent' = Silent BY <1>8, <1>9, DiscreetOne
<1>11. Texts(t, Written(fr))
  <2> DEFINE H == Written(fr)
  <2> HIDE DEF H
  <2>1. Texts(t, H) BY <1>8, TextsOne
  <2> QED BY <2>1 DEF H
<1>12. ASSUME FrameOk(top) PROVE FrameOk(fr)'
  <2> SUFFICES ASSUME Range(top.stmt.loggers) \cap spoiled = {}, top.stmt.op = "write"
               PROVE  Known(fr, stream'[fr.stmt.loggers[fr.at]], Silent')
    BY <1>3 DEF FrameOk
  <2>1. Known(top, stream[l], Silent) BY <1>12 DEF FrameOk, Logger
  <2>2. l = top.stmt.loggers[top.at] BY DEF Logger
  <2>3. pc = "missed" => l \in Silent BY <1>1 DEF Silent
  <2>4. (pc = "missed" /\ top.pc = "init") \/ (pc = "abort" /\ top.pc = "release") OBVIOUS
  <2> PICK s, r, U : s = stream[l] /\ r = stream'[fr.stmt.loggers[fr.at]] /\ U = Silent OBVIOUS
  <2>5. Known(top, s, U) /\ (pc = "missed" => l \in U) BY <2>1, <2>3
  <2> HIDE DEF top, l
  <2>6. Known(fr, r, U) BY <1>3, <1>4, <2>2, <2>4, <2>5 DEF Known, Early, Late
  <2> QED BY <1>10, <2>6
<1>13. ASSUME ~Loose(t) PROVE Inside(t, fr, Internal(d))
  BY <1>1, <1>3, <1>13, CalledInside
<1>14. ~Loose(t) /\ FrameOk(Top(t)) => FrameOk(fr)' /\ Inside(t, fr, Internal(d))
  BY <1>12, <1>13
<1> QED BY <1>3, <1>5, <1>6, <1>10, <1>11, <1>14, ExecuteSane

(* A message evaluates a statement.                                        *)
LEMMA EvaluateSane ==
  ASSUME StacksInv, LockInv, NEW t \in Threads, ThreadOk(t), TextHeld, Evaluate(t)
  PROVE  Sane(t)
<1> DEFINE top == Top(t)  s == top.stmt.inner
<1> PICK fr : fr = [top EXCEPT !.evaluated = TRUE] OBVIOUS
<1>1. /\ stack[t] # <<>> /\ ~top.evaluated /\ top.pc \in {"init", "tail", "missed"}
      /\ Execute(t, fr, s) /\ UNCHANGED <<stream, registered, spoiled, program>>
  BY DEF Evaluate, Running
<1>2. top \in Frames /\ Shape(top) BY <1>1, TopFacts
<1>3. s # NoStmt /\ s \in Plain
  <2>1. s # NoStmt BY <1>1, <1>2 DEF Shape
  <2> QED BY <2>1, <1>2 DEF Frames, Framed, StatementsWith
<1>4. Len(stack[t]) = 1 /\ top = stack[t][1]
  <2>1. /\ Len(stack[t]) \in Nat \ {0} /\ top = stack[t][Len(stack[t])]
        /\ \A i \in 2 .. Len(stack[t]) : stack[t][i].stmt.inner = NoStmt
    BY <1>1, TopFacts DEF StackOk
  <2>2. Len(stack[t]) \notin 2 .. Len(stack[t]) BY <1>3, <2>1
  <2>3. Len(stack[t]) = 1 BY <2>1, <2>2, AtLeastTwo
  <2> QED BY <2>1, <2>3
<1>5. /\ fr \in Frames /\ fr.pc = top.pc /\ fr.stmt = top.stmt /\ fr.at = top.at
      /\ fr.id = top.id /\ fr.evaluated = TRUE /\ fr.first = top.first /\ fr.msg = top.msg
      /\ fr.proceed = top.proceed
  BY <1>2 DEF Frames
<1>6. Fits(top, fr) BY <1>2, <1>5 DEF Fits, Shape, Tracks, Crashes
<1>7. Resembles(top, fr) BY <1>5 DEF Resembles, Crashes
<1>8. Discreet(t) /\ Silent' = Silent BY <1>1, DiscreetNone
<1>9. Texts(t, Written(fr))
  <2>1. Written(fr) = Written(top) BY <1>5 DEF Written, Holds
  <2> DEFINE H == Written(fr)
  <2>2. H = Written(Top(t)) BY <2>1
  <2> HIDE DEF H
  <2>3. Texts(t, H) BY <1>1, <2>2 DEF Texts
  <2> QED BY <2>3 DEF H
<1>10. FrameOk(top) => FrameOk(fr)' BY <1>1, <1>5, <1>8 DEF FrameOk, Known
<1>11. ASSUME ~Loose(t) PROVE Inside(t, fr, s)
  <2>1. ~LogsToItself(top.stmt) BY <1>4, <1>11 DEF Loose
  <2>2. Nested(top.stmt, s) BY <1>3, <2>1 DEF LogsToItself, Nested
  <2> QED BY <1>4, <1>5, <2>2 DEF Inside
<1>12. ~Loose(t) /\ FrameOk(Top(t)) => FrameOk(fr)' /\ Inside(t, fr, s) BY <1>10, <1>11
<1> HIDE DEF s
<1> QED BY <1>1, <1>3, <1>6, <1>7, <1>8, <1>9, <1>12, ExecuteSane

(* A crash is reported.                                                    *)
LEMMA CrashReasonSane ==
  ASSUME StacksInv, LockInv, NEW t \in Threads, ThreadOk(t), TextHeld, logCrashReason(t)
  PROVE  Sane(t)
<1> DEFINE top == Top(t)
<1>1. PICK pc \in {"abort", "gate"} :
        /\ stack[t] # <<>> /\ top.stmt.op = "crash"
        /\ \E s \in {CrashReports[IF top.first THEN Len(CrashReports) ELSE 1]} :
             Execute(t, [top EXCEPT !.first = TRUE, !.pc = pc], s)
        /\ UNCHANGED <<stream, registered, spoiled, program>>
  BY DEF logCrashReason, At, Running
<1> PICK s : /\ s = CrashReports[IF top.first THEN Len(CrashReports) ELSE 1]
             /\ Execute(t, [top EXCEPT !.first = TRUE, !.pc = pc], s)
  BY <1>1
<1> PICK fr : fr = [top EXCEPT !.first = TRUE, !.pc = pc] OBVIOUS
<1>2. top \in Frames /\ Shape(top) /\ Top(t) = stack[t][Len(stack[t])]
      /\ Len(stack[t]) \in DOMAIN stack[t]
  BY <1>1, TopFacts
<1>3. s \in Plain
  <2> DEFINE i == Internal(Default)  fatal == [i EXCEPT !.level = "fatal"]
  <2>1. i \in Plain BY LogWriterAssumption, InternalPlain
  <2> HIDE DEF i
  <2>2. fatal \in Plain BY <2>1 DEF Plain, StatementsWith, Level
  <2> HIDE DEF fatal
  <2>3. CrashReports \in {<<i, fatal>>, <<fatal>>} BY DEF CrashReports, i, fatal
  <2> QED BY <2>1, <2>2, <2>3
<1>4. /\ fr \in Frames /\ fr.pc = pc /\ fr.stmt = top.stmt /\ fr.at = top.at
      /\ fr.evaluated = top.evaluated
  <2> HIDE DEF top
  <2> QED BY <1>2 DEF Frames, Pcs
<1>5. Fits(top, fr) BY <1>1, <1>2, <1>4 DEF Fits, Shape, Allowed, Tracks, Crashes
<1>6. Resembles(top, fr) BY <1>4 DEF Resembles, Crashes
<1>7. Discreet(t) BY <1>1, DiscreetNone
<1>8. Written(top) = {} BY <1>1 DEF Written
<1>9. Texts(t, Written(fr)) BY <1>1, <1>8 DEF Texts
<1>10. Loose(t) BY <1>1, <1>2 DEF Loose, Crashing
<1> QED BY <1>1, <1>3, <1>5, <1>6, <1>7, <1>9, <1>10, ExecuteSane

(* A thread begins a statement.                                            *)
LEMMA BeginSane ==
  ASSUME StacksInv, LockInv, NEW t \in Threads, TextHeld, Begin(t)
  PROVE  Sane(t)
<1>1. PICK s \in program.statements :
        /\ stack[t] = <<>>
        /\ stack' = [stack EXCEPT ![t] =
                       <<Frame([by |-> t, no |-> started'[t], path |-> <<>>], s)>>]
        /\ UNCHANGED <<stream, registered, spoiled, program>>
  BY DEF Begin
<1> PICK id : id = [by |-> t, no |-> started'[t], path |-> <<>>] OBVIOUS
<1> PICK g : g = Frame(id, s) OBVIOUS
<1>2. g.at = 1 /\ g.pc = "gate" /\ g.first = FALSE BY DEF Frame
<1>3. /\ stack'[t] = <<g>> /\ \A u \in Threads \ {t} : stack'[u] = stack[u]
  BY <1>1 DEF StacksInv
<1>4. Len(stack'[t]) = 1 /\ stack'[t][1] = g BY <1>3
<1>5. Discreet(t) BY <1>1, DiscreetNone
<1>6. FrameOk(g)' BY <1>2 DEF FrameOk, Known, Early, Late
<1>7. ThreadOk(t)'
  <2>1. \A i \in 1 .. Len(stack'[t]) : i = 1 BY <1>4
  <2>2. \A i \in 2 .. Len(stack'[t]) - 1 : FALSE BY <1>4
  <2>3. stack'[t][1].pc # "tail" BY <1>2, <1>4
  <2>4. \A i \in 1 .. Len(stack'[t]) : FrameOk(stack[t][i])'
    <3> SUFFICES ASSUME NEW i \in 1 .. Len(stack'[t]) PROVE FrameOk(stack[t][i])' OBVIOUS
    <3>1. stack'[t][i] = g BY <1>4, <2>1
    <3> QED BY <1>6, <3>1
  <2> QED BY <2>2, <2>3, <2>4 DEF ThreadOk
<1>8. TextHeld'
  <2> SUFFICES ASSUME NEW l \in Loggers, l \notin spoiled, stream[l] # <<>>
               PROVE  \E u \in Threads : \E i \in 1 .. Len(stack'[u]) : l \in Written(stack'[u][i])
    BY <1>1 DEF TextHeld, Written, Holds
  <2>1. PICK u \in Threads : \E i \in 1 .. Len(stack[u]) : l \in Written(stack[u][i])
    BY DEF TextHeld
  <2>2. Len(<<>>) = 0 OBVIOUS
  <2>3. u # t BY <1>1, <2>1, <2>2
  <2> QED BY <1>3, <2>1, <2>3
<1> QED BY <1>5, <1>7, <1>8 DEF Sane

(* A signal interrupts it.                                                 *)
LEMMA CrashSane ==
  ASSUME StacksInv, LockInv, NEW t \in Threads, TextHeld, Crash(t)
  PROVE  Sane(t)
<1>1. /\ stack[t] # <<>> /\ Len(stack'[t]) = Len(stack[t]) + 1
      /\ \A i \in 1 .. Len(stack[t]) : stack'[t][i] = stack[t][i]
      /\ Crashes(stack'[t][Len(stack[t]) + 1]) /\ Effect(t)
  BY CrashEffect
<1>2. UNCHANGED <<stream, registered, spoiled, program>> BY DEF Crash
<1>3. Discreet(t) BY <1>2, DiscreetNone
<1>4. Len(stack[t]) \in Nat \ {0} BY <1>1, TopFacts
<1>5. stack' \in [Threads -> Seq(Frames)] /\ \A u \in Threads \ {t} : stack'[u] = stack[u]
  BY <1>1 DEF Effect, Moves, Turn
<1>6. Loose(t)'
  <2>1. Len(stack[t]) + 1 \in DOMAIN stack'[t] BY <1>1, <1>4, <1>5
  <2> QED BY <1>1, <2>1 DEF Loose, Crashing, Crashes
<1>7. ThreadOk(t)' BY <1>6 DEF ThreadOk
<1>8. TextHeld'
  <2> SUFFICES ASSUME NEW l \in Loggers, l \notin spoiled, stream[l] # <<>>
               PROVE  \E u \in Threads : \E i \in 1 .. Len(stack'[u]) : l \in Written(stack'[u][i])
    BY <1>2 DEF TextHeld, Written, Holds
  <2>1. PICK u \in Threads : \E i \in 1 .. Len(stack[u]) : l \in Written(stack[u][i])
    BY DEF TextHeld
  <2>2. PICK i \in 1 .. Len(stack[u]) : l \in Written(stack[u][i]) BY <2>1
  <2>3. i \in 1 .. Len(stack'[u]) /\ stack'[u][i] = stack[u][i]
    <3>1. CASE u = t BY <1>1, <1>4, <2>2, <3>1
    <3>2. CASE u # t BY <1>5, <2>2, <3>2
    <3> QED BY <3>1, <3>2
  <2> QED BY <2>2, <2>3
<1> QED BY <1>3, <1>7, <1>8 DEF Sane

(* Every step, in sum.                                                     *)
LEMMA StepSane ==
  ASSUME StacksInv, LockInv, NEW t \in Threads, ThreadOk(t), TextHeld,
         Begin(t) \/ Step(t) \/ Crash(t), ~Abort(t)
  PROVE  Sane(t)
<1>1. CASE Begin(t) BY <1>1, BeginSane
<1>2. CASE Crash(t) BY <1>2, CrashSane
<1>3. CASE Normal(t) \/ Conditional(t) \/ EveryN(t) \/ AfterN(t) \/ NTimes(t)
  BY <1>3, GateSane
<1>4. CASE InitializeLogger(t) BY <1>4, InitializeSane
<1>5. CASE LoggerMissing(t) \/ Report(t) BY <1>5, CallSane
<1>6. CASE Evaluate(t) BY <1>6, EvaluateSane
<1>7. CASE StreamHead(t) \/ StreamTail(t) BY <1>7, StreamSane
<1>8. CASE LogArguments(t) BY <1>8, ArgumentsSane
<1>9. CASE Skip(t) \/ Missed(t) \/ CallbackThrows(t) BY <1>9, LeaveSane
<1>10. CASE Dispatch(t) BY <1>10, DispatchSane
<1>11. CASE RollFirst(t) \/ Callback(t) \/ Roll(t) \/ Undispatch(t) BY <1>11, WriteGoSane
<1>12. CASE Release(t)
  <2>1. CASE AfterLogger(t) BY <1>12, <2>1, LeaveSane
  <2>2. CASE ~AfterLogger(t)
    <3>1. /\ Call(t, "abort", Internal(Default)) /\ Top(t).stmt.level = "fatal"
          /\ ~Has("DisableApplicationAbortOnFatalLog")
      BY <1>12, <2>2 DEF Release
    <3> QED BY <1>12, <3>1, CallSane
  <2> QED BY <2>1, <2>2
<1>13. CASE \/ FlushLogger(t) \/ FlushRoll(t) \/ FlushEnds(t) \/ FlushAll(t) \/ Configure(t)
            \/ Apply(t) \/ RemoveLogger(t) \/ Untracked(t) \/ Checkpoint(t) \/ Checked(t)
  BY <1>13, OtherSane
<1>14. CASE logCrashReason(t) BY <1>14, CrashReasonSane
<1> QED BY <1>1, <1>2, <1>3, <1>4, <1>5, <1>6, <1>7, <1>8, <1>9, <1>10, <1>11, <1>12,
           <1>13, <1>14 DEF Step

(* What a file has and had of lines,                                       *)
Wrote(fl) == fl.past \o fl.text

LEMMA NoneMore == ASSUME NEW S, NEW p \in Seq(S), NEW x \in Seq(S) PROVE (p \o x) \o <<>> = p \o x
<1> DEFINE q == (p \o x) \o <<>>
<1>1. p \o x \in Seq(S) /\ q \in Seq(S) OBVIOUS
<1>2. Len(q) = Len(p \o x) OBVIOUS
<1>3. \A i \in 1 .. Len(q) : q[i] = (p \o x)[i] OBVIOUS
<1> HIDE DEF q
<1> QED BY <1>1, <1>2, <1>3, SeqEqual

(* which a line may be added to,                                           *)
Adds(s, r, e) == \A i \in DOMAIN s : s[i] = e \/ (i \in DOMAIN r /\ s[i] = r[i])

LEMMA AppendAdds ==
  ASSUME NEW S, NEW r \in Seq(S), NEW e \in S
  PROVE  /\ Adds(Append(r, e), r, e)
         /\ Append(r, e) \in Seq(S) /\ DOMAIN Append(r, e) = DOMAIN r \cup {Len(r) + 1}
         /\ Len(r) + 1 \notin DOMAIN r /\ Append(r, e)[Len(r) + 1] = e
         /\ \A i \in DOMAIN r : Append(r, e)[i] = r[i]
<1> DEFINE q == Append(r, e)
<1>1. /\ q \in Seq(S) /\ Len(q) = Len(r) + 1 /\ q[Len(r) + 1] = e /\ Len(r) \in Nat
      /\ \A i \in 1 .. Len(r) : q[i] = r[i]
  OBVIOUS
<1> HIDE DEF q
<1>2. DOMAIN q = 1 .. Len(r) + 1 /\ DOMAIN r = 1 .. Len(r) BY <1>1
<1>3. 1 .. Len(r) + 1 = 1 .. Len(r) \cup {Len(r) + 1} /\ Len(r) + 1 \notin 1 .. Len(r) BY <1>1
<1>4. Adds(q, r, e) BY <1>1, <1>2, <1>3 DEF Adds
<1> QED BY <1>1, <1>2, <1>3, <1>4 DEF q

LEMMA OneMore ==
  ASSUME NEW p \in Seq(LineSet), NEW x \in Seq(LineSet), NEW e \in LineSet
  PROVE  p \o Append(x, e) = Append(p \o x, e)
<1> DEFINE y == Append(x, e)  q == p \o y  r == Append(p \o x, e)
<1>1. y \in Seq(LineSet) /\ Len(y) = Len(x) + 1 /\ y[Len(x) + 1] = e
      /\ \A i \in 1 .. Len(x) : y[i] = x[i]
  OBVIOUS
<1> HIDE DEF y
<1>2. /\ Len(p) \in Nat /\ Len(x) \in Nat /\ q \in Seq(LineSet) /\ Len(q) = Len(p) + Len(x) + 1
      /\ \A i \in 1 .. Len(q) : q[i] = IF i <= Len(p) THEN p[i] ELSE y[i - Len(p)]
  BY <1>1
<1> DEFINE z == p \o x
<1>3. /\ z \in Seq(LineSet) /\ Len(z) = Len(p) + Len(x)
      /\ \A i \in 1 .. Len(z) : z[i] = IF i <= Len(p) THEN p[i] ELSE x[i - Len(p)]
  OBVIOUS
<1> HIDE DEF z
<1>4. /\ r \in Seq(LineSet) /\ Len(r) = Len(z) + 1 /\ r[Len(z) + 1] = e
      /\ \A i \in 1 .. Len(z) : r[i] = z[i]
  BY <1>3 DEF z
<1> HIDE DEF q, r
<1>5. ASSUME NEW i \in 1 .. Len(q) PROVE q[i] = r[i]
  <2>1. CASE i = Len(p) + Len(x) + 1
    <3>1. ~(i <= Len(p)) /\ i - Len(p) = Len(x) + 1 /\ i = Len(z) + 1 BY <1>2, <1>3, <2>1
    <3>2. q[i] = y[i - Len(p)] BY <1>2, <3>1
    <3> QED BY <1>1, <1>4, <3>1, <3>2
  <2>2. CASE i # Len(p) + Len(x) + 1
    <3>1. i \in 1 .. Len(z) BY <1>2, <1>3, <2>2
    <3>2. i > Len(p) => i - Len(p) \in 1 .. Len(x) BY <1>2, <1>3, <3>1
    <3>3. q[i] = IF i <= Len(p) THEN p[i] ELSE y[i - Len(p)] BY <1>2
    <3>4. r[i] = IF i <= Len(p) THEN p[i] ELSE x[i - Len(p)] BY <1>3, <1>4, <3>1
    <3>5. CASE i <= Len(p) BY <3>3, <3>4, <3>5
    <3>6. CASE i > Len(p)
      <4>1. y[i - Len(p)] = x[i - Len(p)] BY <1>1, <3>2, <3>6
      <4>2. ~(i <= Len(p)) BY <1>2, <3>1, <3>6
      <4> QED BY <3>3, <3>4, <4>1, <4>2
    <3>7. i <= Len(p) \/ i > Len(p) BY <1>2, <3>1
    <3> QED BY <3>5, <3>6, <3>7
  <2> QED BY <2>1, <2>2
<1>6. q = r BY <1>2, <1>3, <1>4, <1>5, SeqEqual
<1> QED BY <1>6 DEF q, r, y, z

(* is not changed by flushing, closing or opening it.                      *)
LEMMA WroteStays ==
  ASSUME NEW fl, Sound(fl)
  PROVE  /\ Wrote(Flushed(fl)) = Wrote(fl) /\ Wrote(Closed(fl)) = Wrote(fl)
         /\ Wrote(Reopened(fl)) = Wrote(fl) /\ Wrote(Closed(Flushed(fl))) = Wrote(fl)
<1>1. fl \in FileSet BY DEF Sound
<1>2. ASSUME NEW gl \in FileSet
      PROVE  /\ Flushed(gl) \in FileSet /\ Flushed(gl).past = gl.past /\ Flushed(gl).text = gl.text
             /\ Closed(gl).past = gl.past /\ Closed(gl).text = gl.text
  <2>1. Len(gl.text) \in Nat BY DEF FileSet
  <2> QED BY <2>1 DEF FileSet, Flushed, Closed
<1>3. Wrote(Reopened(fl)) = Wrote(fl)
  <2>1. CASE fl.open
    <3>1. Reopened(fl).past = fl.past /\ Reopened(fl).text = fl.text
      BY <1>1, <2>1 DEF Reopened, FileSet
    <3> QED BY <3>1 DEF Wrote
  <2>2. CASE ~fl.open
    <3>1. Reopened(fl).past = fl.past \o fl.text /\ Reopened(fl).text = <<>>
      BY <2>2 DEF Reopened
    <3>2. fl.past \in Seq(LineSet) /\ fl.text \in Seq(LineSet) BY <1>1 DEF FileSet
    <3> QED BY <3>1, <3>2, NoneMore DEF Wrote
  <2> QED BY <2>1, <2>2
<1> QED BY <1>1, <1>2, <1>3 DEF Wrote

(* A step that does not write leaves every file's lines.                   *)
LEMMA LinesStay ==
  ASSUME StacksInv, FilesInv, NEW t \in Threads, Begin(t) \/ Step(t) \/ Crash(t), ~Callback(t)
  PROVE  \A f \in Files : Lines(f)' = Lines(f)
<1> SUFFICES ASSUME NEW f \in Files PROVE Wrote(file'[f]) = Wrote(file[f])
  BY DEF Wrote, Lines
<1>0. Sound(file[f]) /\ DOMAIN file = Files BY DEF FilesInv
<1>1. CASE UNCHANGED file BY <1>1
<1>2. CASE Dispatch(t)
  <2>1. file' = file \/ file' = [file EXCEPT ![FileOf[Logger(t)]] = Closed(@)]
    BY <1>2 DEF Dispatch
  <2>2. file'[f] = file[f] \/ file'[f] = Closed(file[f]) BY <1>0, <2>1
  <2> QED BY <1>0, <2>2, WroteStays
<1>3. CASE RollFirst(t) \/ Roll(t) \/ FlushRoll(t)
  <2>1. file' = [file EXCEPT ![FileOf[Logger(t)]] = Reopened(@)]
    BY <1>3 DEF RollFirst, Roll, FlushRoll, Reopen
  <2>2. file'[f] = file[f] \/ file'[f] = Reopened(file[f]) BY <1>0, <2>1
  <2> QED BY <1>0, <2>2, WroteStays
<1>4. CASE FlushLogger(t)
  <2> PICK g : g = FileOf[Logger(t)] OBVIOUS
  <2>1. \/ file' = [file EXCEPT ![g] = Closed(Flushed(file[g]))]
        \/ file' = [file EXCEPT ![g] = Flushed(file[g])]
    BY <1>4 DEF FlushLogger
  <2>2. file'[f] \in {file[f], Closed(Flushed(file[f])), Flushed(file[f])} BY <1>0, <2>1
  <2> QED BY <1>0, <2>2, WroteStays
<1>5. CASE FlushAll(t)
  <2>1. file'[f] = Flushed(file[f]) BY <1>5 DEF FlushAll
  <2> QED BY <1>0, <2>1, WroteStays
<1>6. CASE Begin(t) \/ Crash(t) BY <1>1, <1>6 DEF Begin, Crash
<1>7. CASE \/ Normal(t) \/ Conditional(t) \/ EveryN(t) \/ AfterN(t) \/ NTimes(t)
           \/ InitializeLogger(t) \/ LoggerMissing(t) \/ Evaluate(t) \/ StreamHead(t)
           \/ StreamTail(t) \/ LogArguments(t) \/ Skip(t) \/ Missed(t)
  BY <1>1, <1>7 DEF Normal, Conditional, EveryN, AfterN, NTimes, Occasional, Gate,
      InitializeLogger, LoggerMissing, Evaluate, StreamHead, StreamTail, Stream, LogArguments,
      Skip, Missed
<1>8. CASE CallbackThrows(t) \/ Undispatch(t) \/ Release(t) \/ Abort(t) \/ FlushEnds(t)
  BY <1>1, <1>8 DEF CallbackThrows, Undispatch, Release, Abort, FlushEnds
<1>9. CASE \/ Apply(t) \/ Untracked(t) \/ Checkpoint(t) \/ Report(t) \/ Checked(t)
           \/ logCrashReason(t) \/ Configure(t) \/ RemoveLogger(t)
  BY <1>1, <1>9 DEF Apply, Untracked, Checkpoint, Report, Checked, logCrashReason, Configure,
      RemoveLogger
<1> QED BY <1>2, <1>3, <1>4, <1>5, <1>6, <1>7, <1>8, <1>9 DEF Step

(* A line that is intact remains so.                                       *)
LEMMA IntactStays ==
  ASSUME NEW t \in Threads, Discreet(t), NEW e, Intact(e)
  PROVE  Intact(e)'
<1> PICK s : s = e.top OBVIOUS
<1>1. LogsToItself(s) => LogsToItself(s)' BY LogsStays
<1>2. LogsToItself(e.top) => LogsToItself(e.top)' BY <1>1
<1>3. Range(e.stmt.loggers) \cap spoiled # {} => Range(e.stmt.loggers) \cap spoiled' # {}
  BY DEF Discreet
<1> QED BY <1>2, <1>3 DEF Intact

(* A line that is about to be written is intact.                           *)
LEMMA LineIntact ==
  ASSUME StacksInv, NEW t \in Threads, ThreadOk(t), At(t, {"write"}, "callback")
  PROVE  Intact(Line(t))
<1> PICK e : e = Line(t) OBVIOUS
<1> SUFFICES Intact(e) OBVIOUS
<1> DEFINE fr == Top(t)
<1>1. /\ stack[t] # <<>> /\ Len(stack[t]) \in 1 .. Len(stack[t]) /\ fr = stack[t][Len(stack[t])]
      /\ fr \in Frames /\ fr.pc = "callback" /\ fr.stmt.op = "write"
  BY TopFacts DEF At, Running
<1>2. /\ e.by = fr.id /\ e.stmt = fr.stmt /\ e.top = stack[t][1].stmt /\ e.crashed = Crashing(t)
      /\ e.to = fr.stmt.loggers[fr.at] /\ e.text = stream[fr.stmt.loggers[fr.at]]
  BY DEF Line, Logger
<1>3. CASE Loose(t) BY <1>2, <1>3 DEF Loose, Intact
<1>4. CASE Range(fr.stmt.loggers) \cap spoiled # {} BY <1>2, <1>4 DEF Intact
<1>5. CASE ~Loose(t) /\ Range(fr.stmt.loggers) \cap spoiled = {}
  <2>1. FrameOk(fr) BY <1>1, <1>5 DEF ThreadOk
  <2> PICK s : s = stream[fr.stmt.loggers[fr.at]] OBVIOUS
  <2> PICK U : U = Silent OBVIOUS
  <2>2. Known(fr, s, U) BY <1>1, <1>5, <2>1 DEF FrameOk
  <2>3. fr.at \in Nat \ {0} BY <1>1 DEF Frames
  <2> HIDE DEF fr
  <2>4. /\ s \in {<<>>, <<fr.id, fr.id>>}
        /\ s = <<>> => fr.stmt.loggers[1] # fr.stmt.loggers[fr.at]
    <3>1. s = fr.msg /\ fr.first /\ fr.msg \in {<<>>, <<fr.id, fr.id>>}
      BY <1>1, <2>2 DEF Known, Late
    <3>2. CASE fr.at = 1
      <4>1. <<fr.id, fr.id>> # <<>> OBVIOUS
      <4>2. fr.msg = <<fr.id, fr.id>> BY <2>2, <3>1, <3>2 DEF Known
      <4> QED BY <3>1, <4>1, <4>2
    <3>3. CASE fr.at # 1
      <4>1. fr.at > 1 BY <2>3, <3>3
      <4>2. fr.stmt.loggers[fr.at] \notin U BY <1>1, <2>2, <4>1 DEF Known
      <4>3. fr.msg = <<>> => fr.stmt.loggers[1] \in U BY <2>2, <4>1 DEF Known
      <4> QED BY <3>1, <4>2, <4>3
    <3> QED BY <3>2, <3>3
  <2>5. e.text = s /\ e.by = fr.id /\ e.to = fr.stmt.loggers[fr.at]
        /\ e.stmt.loggers[1] = fr.stmt.loggers[1]
    BY <1>2 DEF fr
  <2> QED BY <2>4, <2>5 DEF Intact
<1> QED BY <1>3, <1>4, <1>5

(* The callback adds the statement's line to its logger's file, if it can. *)
LEMMA LineAppended ==
  ASSUME StacksInv, FilesInv, NEW t \in Threads, Callback(t), NEW f \in Files
  PROVE  Lines(f)' = IF f = FileOf[Logger(t)] /\ Writes(f) THEN Append(Lines(f), Line(t))
                     ELSE Lines(f)
<1>0. stack[t] # <<>> BY DEF Callback, At, Running
<1> PICK g : g = FileOf[Logger(t)] OBVIOUS
<1> PICK e \in LineSet : e = Line(t) BY <1>0, LineOk
<1> DEFINE fl == file[g]  w == [fl EXCEPT !.text = Append(@, e)]
<1>1. IF Writes(g)
        THEN \/ file' = [file EXCEPT ![g] = Closed(Flushed(w))]
             \/ file' = [file EXCEPT ![g] = Flushed(w)] \/ file' = [file EXCEPT ![g] = w]
        ELSE file' = file
  BY DEF Callback
<1>2. DOMAIN file = Files /\ Sound(file[f]) BY DEF FilesInv
<1>3. CASE ~(f = g /\ Writes(f))
  <2>1. file'[f] = file[f] BY <1>1, <1>2, <1>3
  <2> QED BY <1>3, <2>1 DEF Lines
<1>4. CASE f = g /\ Writes(f)
  <2>0. file'[f] \in {Closed(Flushed(w)), Flushed(w), w} BY <1>1, <1>2, <1>4
  <2>1. fl \in FileSet /\ fl.past \in Seq(LineSet) /\ fl.text \in Seq(LineSet)
    BY <1>2, <1>4 DEF Sound, FileSet
  <2>2. w \in FileSet /\ w.text = Append(fl.text, e) /\ w.past = fl.past
    <3>1. Append(fl.text, e) \in Seq(LineSet) BY <2>1
    <3> HIDE DEF fl
    <3> QED BY <2>1, <3>1 DEF FileSet
  <2> HIDE DEF w
  <2>3. ASSUME NEW gl \in FileSet
        PROVE  /\ Flushed(gl) \in FileSet /\ Flushed(gl).past = gl.past
               /\ Flushed(gl).text = gl.text
               /\ Closed(gl).past = gl.past /\ Closed(gl).text = gl.text
    <3>1. Len(gl.text) \in Nat BY DEF FileSet
    <3> QED BY <3>1 DEF FileSet, Flushed, Closed
  <2>4. file'[f].past = fl.past /\ file'[f].text = Append(fl.text, e)
    BY <2>0, <2>2, <2>3
  <2>5. Lines(f)' = fl.past \o Append(fl.text, e) /\ Lines(f) = fl.past \o fl.text
    BY <1>4, <2>4 DEF Lines
  <2> PICK p \in Seq(LineSet), x \in Seq(LineSet) : p = fl.past /\ x = fl.text BY <2>1
  <2>6. Lines(f)' = p \o Append(x, e) /\ Lines(f) = p \o x BY <2>5
  <2>7. p \o Append(x, e) = Append(p \o x, e) BY OneMore
  <2> QED BY <1>4, <2>6, <2>7
<1> QED BY <1>3, <1>4

LEMMA LinesSeq == ASSUME FilesInv, NEW f \in Files PROVE Lines(f) \in Seq(LineSet)
<1>1. file[f].past \in Seq(LineSet) /\ file[f].text \in Seq(LineSet)
  BY DEF FilesInv, Sound, FileSet
<1> QED BY <1>1 DEF Lines

LEMMA LineAdded ==
  ASSUME StacksInv, FilesInv, NEW t \in Threads, Callback(t), NEW f \in Files
  PROVE  Adds(Lines(f)', Lines(f), Line(t))
<1>0. stack[t] # <<>> BY DEF Callback, At, Running
<1> PICK e \in LineSet : e = Line(t) BY <1>0, LineOk
<1> PICK s \in Seq(LineSet) : s = Lines(f) BY LinesSeq
<1>1. Adds(s, s, e) BY DEF Adds
<1>2. Adds(Append(s, e), s, e) BY AppendAdds
<1>3. Lines(f)' = s \/ Lines(f)' = Append(s, e) BY LineAppended
<1> QED BY <1>1, <1>2, <1>3

(* Every step keeps the lines intact.                                      *)
LEMMA LinesKept ==
  StacksInv /\ LockInv /\ FilesInv /\ LinesInv /\ [Next]_vars => LinesInv'
<1> SUFFICES ASSUME StacksInv, LockInv, FilesInv, LinesInv, [Next]_vars PROVE LinesInv' OBVIOUS
<1>1. ASSUME UNCHANGED <<stack, stream, file, registered, spoiled, program>> PROVE LinesInv'
  <2>1. \A t \in Threads : ThreadOk(t)'
    BY <1>1 DEF LinesInv, ThreadOk, Loose, Crashing, LogsToItself, Has, FrameOk, Silent
  <2>2. TextHeld' BY <1>1 DEF LinesInv, TextHeld
  <2>3. \A e : Intact(e)' <=> Intact(e)
    <3> TAKE e
    <3>1. \A s : LogsToItself(s)' <=> LogsToItself(s) BY <1>1 DEF LogsToItself, Has
    <3>2. LogsToItself(e.top)' <=> LogsToItself(e.top) BY <3>1
    <3> QED BY <1>1, <3>2 DEF Intact
  <2>4. \A f \in Files : Lines(f)' = Lines(f) BY <1>1 DEF Lines
  <2>5. LinesIntact'
    <3> SUFFICES ASSUME NEW f \in Files, NEW i \in DOMAIN Lines(f)' PROVE Intact(Lines(f)[i])'
      BY DEF LinesIntact
    <3> PICK e : e = Lines(f)'[i] OBVIOUS
    <3>1. i \in DOMAIN Lines(f) /\ e = Lines(f)[i] BY <2>4
    <3>2. Intact(Lines(f)[i]) BY <3>1 DEF LinesInv, LinesIntact
    <3>3. Intact(e)' BY <2>3, <3>1, <3>2
    <3> QED BY <3>3
  <2> QED BY <2>1, <2>2, <2>5 DEF LinesInv
<1>2. CASE UNCHANGED vars BY <1>1, <1>2 DEF vars
<1>3. ASSUME NEW t \in Threads, Begin(t) \/ Step(t) \/ Crash(t) PROVE LinesInv'
  <2>1. CASE Abort(t) BY <1>1, <2>1 DEF Abort
  <2>2. CASE ~Abort(t)
    <3>1. ThreadOk(t) /\ TextHeld /\ LinesIntact BY DEF LinesInv
    <3>2. Discreet(t) /\ ThreadOk(t)' /\ TextHeld' BY <1>3, <2>2, <3>1, StepSane DEF Sane
    <3>3. \A u \in Threads \ {t} : stack'[u] = stack[u]
      <4>1. CASE Begin(t) BY <4>1, BeginEffect
      <4>2. CASE Step(t) BY <4>2, OthersStay
      <4>3. CASE Crash(t) BY <4>3, CrashEffect DEF Effect, Moves, Turn
      <4> QED BY <1>3, <4>1, <4>2, <4>3
    <3>4. \A u \in Threads : ThreadOk(u)'
      <4> SUFFICES ASSUME NEW u \in Threads, u # t PROVE ThreadOk(u)' BY <3>2
      <4> QED BY <3>2, <3>3, OthersOk DEF LinesInv
    <3>5. LinesIntact'
      <4> SUFFICES ASSUME NEW f \in Files, NEW i \in DOMAIN Lines(f)'
                   PROVE  Intact(Lines(f)[i])'
        BY DEF LinesIntact
      <4> PICK e : e = Lines(f)'[i] OBVIOUS
      <4>1. Intact(e)
        <5>1. i \in DOMAIN Lines(f) => Intact(Lines(f)[i]) BY <3>1 DEF LinesIntact
        <5>2. CASE Callback(t)
          <6>1. Intact(Line(t)) BY <3>1, <5>2, LineIntact DEF Callback
          <6>2. Adds(Lines(f)', Lines(f), Line(t)) BY <5>2, LineAdded
          <6>3. e = Line(t) \/ (i \in DOMAIN Lines(f) /\ e = Lines(f)[i]) BY <6>2 DEF Adds
          <6> QED BY <5>1, <6>1, <6>3
        <5>3. CASE ~Callback(t)
          <6>1. Lines(f)' = Lines(f) BY <1>3, <5>3, LinesStay
          <6> QED BY <5>1, <6>1
        <5> QED BY <5>2, <5>3
      <4>2. Intact(e)' BY <3>2, <4>1, IntactStays
      <4> QED BY <4>2
    <3> QED BY <3>2, <3>4, <3>5 DEF LinesInv
  <2> QED BY <2>1, <2>2
<1> QED BY <1>2, <1>3 DEF Next

(* There are no statements at first and no lines.                          *)
LEMMA LinesFirst == Init => LinesInv
<1> SUFFICES ASSUME Init PROVE LinesInv OBVIOUS
<1>1. /\ \A t \in Threads : stack[t] = <<>>
      /\ \A l \in Loggers : stream[l] = <<>>
      /\ \A f \in Files : file[f].past = <<>> /\ file[f].text = <<>>
  BY DEF Init
<1>2. \A f \in Files : Lines(f) = <<>>
  <2>1. <<>> \o <<>> = <<>> OBVIOUS
  <2> QED BY <1>1, <2>1 DEF Lines
<1>3. LinesIntact BY <1>2 DEF LinesIntact
<1> QED BY <1>1, <1>3 DEF LinesInv, ThreadOk, TextHeld

(* However threads, nested statements and several loggers interleave, each *)
(* line of each file is the text of the statement that wrote it, the whole *)
(* of it and nothing else; but for the exceptions that Intact names        *)
(* (Writer, Logger::m_stream, LogDispatcher::dispatch).                    *)
THEOREM LinesStayIntact == Spec => []LinesIntact
<1>1. Init => StacksInv /\ LockInv /\ FilesInv /\ LinesInv
  BY StacksFirst, FilesFirst, LinesFirst
<1>2. StacksInv /\ LockInv /\ FilesInv /\ LinesInv /\ [Next]_vars =>
        (StacksInv /\ LockInv /\ FilesInv /\ LinesInv)'
  BY StacksKept, FilesKept, LinesKept
<1>3. LinesInv => LinesIntact BY DEF LinesInv
<1> QED BY <1>1, <1>2, <1>3, PTL DEF Spec

-----------------------------------------------------------------------------
(* Once each.  Where nothing of a logger of a frame has been written yet.  *)
Before == Early \cup {"rollfirst", "callback"}

(* Names of what a statement executes, itself or by what it executes.      *)
Below(id, fr) ==
  /\ id.by = fr.id.by /\ id.no = fr.id.no /\ Len(id.path) > Len(fr.id.path)
  /\ \A m \in 1 .. Len(fr.id.path) : id.path[m] = fr.id.path[m]

(* They have been counted,                                                 *)
Called(id, fr) == Below(id, fr) => id.path[Len(fr.id.path) + 1] <= fr.calls

(* unless a crash lies on the frame.                                       *)
Buried(st, i) == i < Len(st) /\ Crashes(st[i + 1])

(* A frame has written to the loggers before its own, at most to that.     *)
Behind(x, fr) == x.by = fr.id => x.at < fr.at \/ (x.at = fr.at /\ fr.pc \notin Before)

(* The frames of thread t's n-th statement are numbered.                   *)
Numbered(st, t, n) ==
  \A i \in 1 .. Len(st) :
    /\ st[i].id.by = t /\ st[i].id.no = n /\ Len(st[i].id.path) = i - 1
    /\ \A h \in 1 .. i - 1 : Buried(st, h) \/ Called(st[i].id, st[h])

(* A line is known to the frames.                                          *)
Noted(x, st) == \A i \in 1 .. Len(st) : Behind(x, st[i]) /\ (Buried(st, i) \/ Called(x.by, st[i]))

(* Every line there has been.                                              *)
Recorded == lost \cup UNION {Range(Lines(f)) : f \in Files}

NamesInv ==
  /\ \A t \in Threads : Numbered(stack[t], t, started[t])
  /\ \A x \in Recorded :
       /\ x \in LineSet /\ x.by.no <= started[x.by.by]
       /\ \A t \in Threads : Noted(x, stack[t])

(* From the line's being written until its statement lets go of the logger *)
Storing(t) ==
  stack[t] # <<>> /\ Top(t).stmt.op = "write" /\ Top(t).pc \in {"roll", "written", "release"}

(* it is in the file once, or refused.                                     *)
Copies(e, f) == {i \in DOMAIN Lines(f) : Lines(f)[i].by = e.by /\ Lines(f)[i].at = e.at}
Stored(e, f) ==
  IF e \in lost THEN Copies(e, f) = {}
  ELSE \E i \in Copies(e, f) : Copies(e, f) = {i} /\ Lines(f)[i] = e

StoredInv == \A t \in Threads : Storing(t) => Stored(Line(t), FileOf[Logger(t)])

(* Between the two steps of rolling a logger's file.                       *)
Rolling(fr, l) ==
  /\ fr.stmt.loggers[fr.at] = l
  /\ \/ fr.stmt.op = "write" /\ fr.pc \in {"rollfirst", "roll"}
     \/ fr.stmt.op \in {"flush", "configure"} /\ fr.pc = "roll"
Rolls(t, l) == stack[t] # <<>> /\ Rolling(Top(t), l)

(* A crash lies on them.                                                   *)
Stuck(l) == \E t \in Threads : \E i \in 1 .. Len(stack[t]) - 1 : Rolling(stack[t][i], l)

(* A logger that shares its file with no other.                            *)
Alone(l) == \A k \in Loggers \ {l} : FileOf[k] # FileOf[l]

Ready(l) ==
  LET fl == file[FileOf[l]]
  IN  IF \E t \in Threads : Rolls(t, l) THEN ~fl.open ELSE fl.open /\ ~fl.fail

RefusedInv ==
  /\ \A l \in Loggers : Alone(l) => Stuck(l) \/ Ready(l)
  /\ \A e \in lost : e.crashed \/ ~Alone(e.to)

OnceInv == NamesInv /\ StoredInv /\ RefusedInv

(* Frames that have gone on, but are the same.                             *)
Advances(a, f) ==
  /\ f.id = a.id /\ f.calls >= a.calls /\ (Crashes(f) <=> Crashes(a))
  /\ f.at = a.at + 1 \/ (f.at = a.at /\ (a.pc \notin Before => f.pc \notin Before))

LEMMA AdvancesFacts ==
  ASSUME NEW a \in Frames, NEW f \in Frames, Advances(a, f)
  PROVE  /\ \A x \in LineSet : Behind(x, a) => Behind(x, f)
         /\ \A id \in Ids : Called(id, a) => Called(id, f)
<1>1. /\ a.at \in Nat /\ f.at \in Nat /\ a.calls \in Nat /\ f.calls \in Nat
      /\ a.id.path \in Seq(Nat) /\ Len(a.id.path) \in Nat
  BY DEF Frames, Ids
<1>2. ASSUME NEW x \in LineSet, Behind(x, a) PROVE Behind(x, f)
  <2>1. x.at \in Nat BY DEF LineSet
  <2> QED BY <1>1, <1>2, <2>1 DEF Behind, Advances
<1>3. ASSUME NEW id \in Ids, Called(id, a), Below(id, f)
      PROVE  id.path[Len(f.id.path) + 1] <= f.calls
  <2>1. f.id = a.id /\ Below(id, a) BY <1>3 DEF Below, Advances
  <2>2. id.path \in Seq(Nat) /\ Len(a.id.path) + 1 \in 1 .. Len(id.path)
    BY <1>1, <2>1 DEF Ids, Below
  <2> DEFINE m == id.path[Len(a.id.path) + 1]
  <2>3. m \in Nat BY <2>2
  <2>4. m <= a.calls BY <1>3, <2>1 DEF Called
  <2>5. f.calls >= a.calls BY DEF Advances
  <2> HIDE DEF m
  <2>6. m <= f.calls BY <1>1, <2>3, <2>4, <2>5
  <2> QED BY <2>1, <2>6 DEF m
<1> QED BY <1>2, <1>3 DEF Called

(* The frames go on.                                                       *)
LEMMA AdvanceNamed ==
  ASSUME NEW st \in Seq(Frames), NEW n \in Seq(Frames), Len(n) = Len(st),
         \A i \in 1 .. Len(st) : Advances(st[i], n[i]), NEW t, NEW no, Numbered(st, t, no)
  PROVE  /\ Numbered(n, t, no)
         /\ \A x \in LineSet : Noted(x, st) => Noted(x, n)
<1>1. Len(st) \in Nat /\ \A i \in 1 .. Len(st) : st[i] \in Frames /\ n[i] \in Frames OBVIOUS
<1>2. \A i \in 1 .. Len(st) : n[i].id = st[i].id BY DEF Advances
<1>3. ASSUME NEW i \in 1 .. Len(st), Buried(st, i) PROVE Buried(n, i)
  <2>1. i + 1 \in 1 .. Len(st) BY <1>1, <1>3 DEF Buried
  <2> QED BY <1>3, <2>1 DEF Buried, Advances
<1>4. ASSUME NEW i \in 1 .. Len(st), NEW id \in Ids, Called(id, st[i]) PROVE Called(id, n[i])
  BY <1>1, <1>4, AdvancesFacts
<1>5. Numbered(n, t, no)
  <2> SUFFICES ASSUME NEW i \in 1 .. Len(n)
               PROVE  /\ n[i].id.by = t /\ n[i].id.no = no /\ Len(n[i].id.path) = i - 1
                      /\ \A h \in 1 .. i - 1 : Buried(n, h) \/ Called(n[i].id, n[h])
    BY DEF Numbered
  <2>1. st[i].id.by = t /\ st[i].id.no = no /\ Len(st[i].id.path) = i - 1 BY DEF Numbered
  <2>2. ASSUME NEW h \in 1 .. i - 1 PROVE Buried(n, h) \/ Called(n[i].id, n[h])
    <3>1. h \in 1 .. Len(st) BY <1>1
    <3>2. Buried(st, h) \/ Called(st[i].id, st[h]) BY DEF Numbered
    <3>3. st[i].id \in Ids BY <1>1 DEF Frames
    <3> QED BY <1>2, <1>3, <1>4, <3>1, <3>2, <3>3
  <2> QED BY <1>2, <2>1, <2>2
<1>6. ASSUME NEW x \in LineSet, Noted(x, st) PROVE Noted(x, n)
  <2> SUFFICES ASSUME NEW i \in 1 .. Len(st)
               PROVE  Behind(x, n[i]) /\ (Buried(n, i) \/ Called(x.by, n[i]))
    BY DEF Noted
  <2>1. Behind(x, st[i]) /\ (Buried(st, i) \/ Called(x.by, st[i])) BY <1>6 DEF Noted
  <2>2. x.by \in Ids BY DEF LineSet
  <2> QED BY <1>1, <1>3, <1>4, <2>1, <2>2, AdvancesFacts
<1> QED BY <1>5, <1>6

(* The last one ends.                                                      *)
LEMMA LeaveNamed ==
  ASSUME NEW st \in Seq(Frames), st # <<>>, NEW n \in Seq(Frames), Len(n) = Len(st) - 1,
         \A i \in 1 .. Len(st) - 1 : n[i] = st[i], ~Crashes(st[Len(st)]),
         NEW t, NEW no, Numbered(st, t, no)
  PROVE  /\ Numbered(n, t, no)
         /\ \A x : Noted(x, st) => Noted(x, n)
<1>1. Len(st) \in Nat \ {0} OBVIOUS
<1>2. ASSUME NEW i \in 1 .. Len(n), Buried(st, i) PROVE Buried(n, i)
  <2>1. i + 1 \in 1 .. Len(st) /\ Crashes(st[i + 1]) BY <1>1, <1>2 DEF Buried
  <2>2. i + 1 # Len(st) BY <2>1
  <2>3. i + 1 \in 1 .. Len(st) - 1 BY <1>1, <2>1, <2>2
  <2> QED BY <1>1, <2>1, <2>3 DEF Buried
<1>3. \A i \in 1 .. Len(n) : i \in 1 .. Len(st) /\ n[i] = st[i] BY <1>1
<1>4. \A i \in 1 .. Len(n) : \A h \in 1 .. i - 1 : h \in 1 .. Len(n) BY <1>1
<1>5. Numbered(n, t, no) BY <1>2, <1>3, <1>4 DEF Numbered
<1>6. \A x : Noted(x, st) => Noted(x, n) BY <1>2, <1>3 DEF Noted
<1> QED BY <1>5, <1>6

(* Another is executed: the last one has counted it, or it is a crash.     *)
NextId(fr) == [fr.id EXCEPT !.path = Append(@, fr.calls + 1)]

LEMMA NextFacts ==
  ASSUME NEW fr \in Frames
  PROVE  LET id == NextId(fr)  k == Len(fr.id.path)
         IN  /\ k \in Nat /\ id \in Ids /\ id.by = fr.id.by /\ id.no = fr.id.no
             /\ Len(id.path) = k + 1 /\ id.path[k + 1] = fr.calls + 1
             /\ \A m \in 1 .. k : id.path[m] = fr.id.path[m]
<1> DEFINE p == fr.id.path  q == Append(p, fr.calls + 1)
<1>1. p \in Seq(Nat) /\ fr.calls + 1 \in Nat /\ fr.id \in Ids BY DEF Frames, Ids
<1> HIDE DEF p
<1>2. /\ q \in Seq(Nat) /\ Len(q) = Len(p) + 1 /\ q[Len(p) + 1] = fr.calls + 1
      /\ Len(p) \in Nat /\ \A m \in 1 .. Len(p) : q[m] = p[m]
  BY <1>1
<1> HIDE DEF q
<1>3. NextId(fr) = [fr.id EXCEPT !.path = q] BY DEF NextId, q, p
<1>4. NextId(fr) \in Ids /\ NextId(fr).by = fr.id.by /\ NextId(fr).no = fr.id.no
      /\ NextId(fr).path = q
  BY <1>1, <1>2, <1>3 DEF Ids
<1> QED BY <1>2, <1>4 DEF p

(* Its name is new.                                                        *)
LEMMA NextFresh ==
  ASSUME NEW fr \in Frames, NEW id \in Ids, Called(id, fr), NEW g, g.id = NextId(fr)
  PROVE  id # g.id /\ ~Below(id, g)
<1> PICK k \in Nat : k = Len(fr.id.path) BY NextFacts
<1> PICK e \in Ids : e = NextId(fr) BY NextFacts
<1>1. /\ e.by = fr.id.by /\ e.no = fr.id.no /\ Len(e.path) = k + 1
      /\ e.path[k + 1] = fr.calls + 1 /\ \A m \in 1 .. k : e.path[m] = fr.id.path[m]
  BY NextFacts
<1>2. SUFFICES ASSUME id.by = e.by, id.no = e.no, Len(id.path) >= k + 1,
                      \A m \in 1 .. k + 1 : id.path[m] = e.path[m]
               PROVE  FALSE
  <2>1. id = e => /\ id.by = e.by /\ id.no = e.no /\ Len(id.path) >= k + 1
                  /\ \A m \in 1 .. k + 1 : id.path[m] = e.path[m]
    BY <1>1
  <2>2. Len(id.path) \in Nat BY DEF Ids
  <2>3. Below(id, g) => /\ id.by = e.by /\ id.no = e.no /\ Len(id.path) >= k + 1
                        /\ \A m \in 1 .. k + 1 : id.path[m] = e.path[m]
    BY <1>1, <2>2 DEF Below
  <2> QED BY <2>1, <2>3
<1>3. Len(id.path) \in Nat BY DEF Ids
<1>4. \A m \in 1 .. k : id.path[m] = fr.id.path[m] BY <1>1, <1>2
<1>5. Below(id, fr) BY <1>1, <1>2, <1>3, <1>4 DEF Below
<1>6. id.path[k + 1] <= fr.calls BY <1>5 DEF Called
<1>7. id.path[k + 1] = fr.calls + 1 BY <1>1, <1>2
<1>8. fr.calls \in Nat BY DEF Frames
<1> QED BY <1>6, <1>7, <1>8

(* It has been counted wherever the one that executes it has.              *)
LEMMA NextCalled ==
  ASSUME NEW fr \in Frames, NEW a \in Frames, Called(fr.id, a),
         Len(a.id.path) < Len(fr.id.path)
  PROVE  Called(NextId(fr), a)
<1> PICK k \in Nat : k = Len(fr.id.path) BY NextFacts
<1> PICK e \in Ids : e = NextId(fr) BY NextFacts
<1> PICK h \in Nat : h = Len(a.id.path) BY NextFacts
<1>1. /\ e.by = fr.id.by /\ e.no = fr.id.no /\ Len(e.path) = k + 1 /\ h < k
      /\ \A m \in 1 .. k : e.path[m] = fr.id.path[m]
  BY NextFacts
<1> SUFFICES ASSUME Below(e, a) PROVE e.path[h + 1] <= a.calls BY DEF Called
<1>2. \A m \in 1 .. h : fr.id.path[m] = a.id.path[m] BY <1>1 DEF Below
<1>3. Below(fr.id, a) BY <1>1, <1>2 DEF Below
<1>4. fr.id.path[h + 1] <= a.calls BY <1>3 DEF Called
<1>5. h + 1 \in 1 .. k BY <1>1
<1> QED BY <1>1, <1>4, <1>5

LEMMA PushNamed ==
  ASSUME NEW st \in Seq(Frames), st # <<>>, NEW n \in Seq(Frames), Len(n) = Len(st) + 1,
         \A i \in 1 .. Len(st) : Advances(st[i], n[i]),
         n[Len(st) + 1].id = NextId(st[Len(st)]),
         \/ Crashes(n[Len(st) + 1])
         \/ n[Len(st)].calls >= st[Len(st)].calls + 1,
         NEW t, NEW no, Numbered(st, t, no)
  PROVE  /\ Numbered(n, t, no)
         /\ \A x \in LineSet : Noted(x, st) => Noted(x, n)
<1> PICK k \in Nat \ {0} : k = Len(st) OBVIOUS
<1>1. /\ \A i \in 1 .. k : st[i] \in Frames /\ n[i] \in Frames
      /\ n[k + 1] \in Frames /\ k \in 1 .. k /\ Len(n) = k + 1
  OBVIOUS
<1>2. \A i \in 1 .. k : n[i].id = st[i].id BY DEF Advances
<1>3. ASSUME NEW i \in 1 .. k, Buried(st, i) PROVE Buried(n, i)
  <2>1. i + 1 \in 1 .. k BY <1>1, <1>3 DEF Buried
  <2> QED BY <1>1, <1>3, <2>1 DEF Buried, Advances
<1>4. ASSUME NEW i \in 1 .. k, NEW id \in Ids, Called(id, st[i]) PROVE Called(id, n[i])
  BY <1>1, <1>4, AdvancesFacts
<1> PICK top \in Frames : top = st[k] BY <1>1
<1> PICK g \in Frames : g = n[k + 1] BY <1>1
<1>5. /\ top.id.by = t /\ top.id.no = no /\ Len(top.id.path) = k - 1 /\ g.id = NextId(top)
      /\ n[k].id = top.id
  BY <1>1, <1>2 DEF Numbered
<1>6. /\ g.id \in Ids /\ g.id.by = t /\ g.id.no = no /\ Len(g.id.path) = k
      /\ g.id.path[k] = top.calls + 1
  BY <1>5, NextFacts
<1>7. ASSUME NEW h \in 1 .. k - 1 PROVE Buried(n, h) \/ Called(g.id, n[h])
  <2>1. h \in 1 .. k /\ st[h] \in Frames BY <1>1
  <2>2. Buried(st, h) \/ Called(top.id, st[h]) BY <1>1 DEF Numbered
  <2>3. Len(st[h].id.path) = h - 1 BY <2>1 DEF Numbered
  <2>4. Called(top.id, st[h]) => Called(g.id, st[h]) BY <1>5, <2>1, <2>3, NextCalled
  <2> QED BY <1>3, <1>4, <1>6, <2>1, <2>2, <2>4
<1>8. Buried(n, k) \/ Called(g.id, n[k])
  <2>1. CASE Crashes(g) BY <1>1, <2>1 DEF Buried
  <2>2. CASE n[k].calls >= top.calls + 1
    <3>1. Len(n[k].id.path) + 1 = k BY <1>5
    <3> QED BY <1>6, <2>2, <3>1 DEF Called
  <2> QED BY <2>1, <2>2
<1>9. Numbered(n, t, no)
  <2> SUFFICES ASSUME NEW i \in 1 .. k + 1
               PROVE  /\ n[i].id.by = t /\ n[i].id.no = no /\ Len(n[i].id.path) = i - 1
                      /\ \A h \in 1 .. i - 1 : Buried(n, h) \/ Called(n[i].id, n[h])
    BY <1>1 DEF Numbered
  <2>1. CASE i = k + 1
    <3>1. \A h \in 1 .. i - 1 : h \in 1 .. k - 1 \/ h = k BY <2>1
    <3> QED BY <1>6, <1>7, <1>8, <2>1, <3>1
  <2>2. CASE i \in 1 .. k
    <3>1. st[i].id.by = t /\ st[i].id.no = no /\ Len(st[i].id.path) = i - 1
      BY <2>2 DEF Numbered
    <3>2. ASSUME NEW h \in 1 .. i - 1 PROVE Buried(n, h) \/ Called(n[i].id, n[h])
      <4>1. h \in 1 .. k BY <2>2
      <4>2. Buried(st, h) \/ Called(st[i].id, st[h]) BY <2>2 DEF Numbered
      <4>3. st[i].id \in Ids BY <1>1, <2>2 DEF Frames
      <4> QED BY <1>2, <1>3, <1>4, <2>2, <4>1, <4>2, <4>3
    <3> QED BY <1>2, <2>2, <3>1, <3>2
  <2> QED BY <2>1, <2>2
<1>10. ASSUME NEW x \in LineSet, Noted(x, st) PROVE Noted(x, n)
  <2> SUFFICES ASSUME NEW i \in 1 .. k + 1
               PROVE  Behind(x, n[i]) /\ (Buried(n, i) \/ Called(x.by, n[i]))
    BY <1>1 DEF Noted
  <2>1. x.by \in Ids BY DEF LineSet
  <2>2. CASE i = k + 1
    <3>1. Called(x.by, top)
      <4>1. ~Buried(st, k) BY DEF Buried
      <4> QED BY <1>1, <1>10, <4>1 DEF Noted
    <3>2. x.by # g.id /\ ~Below(x.by, g) BY <1>5, <2>1, <3>1, NextFresh
    <3> QED BY <2>2, <3>2 DEF Behind, Called
  <2>3. CASE i \in 1 .. k
    <3>1. Behind(x, st[i]) /\ (Buried(st, i) \/ Called(x.by, st[i])) BY <1>10, <2>3 DEF Noted
    <3> QED BY <1>1, <1>3, <1>4, <2>1, <2>3, <3>1, AdvancesFacts
  <2> QED BY <2>2, <2>3
<1> QED BY <1>9, <1>10

(* How a step changes its thread's frames.                                 *)
Shaped(t) ==
  \/ \E f : Become(t, f) /\ Advances(Top(t), f)
  \/ Pop(t) /\ ~Crashes(Top(t))
  \/ \E fr \in Frames : \E s :
       Execute(t, fr, s) /\ Advances(Top(t), fr) /\ fr.calls = Top(t).calls

LEMMA AnyShaped ==
  ASSUME NEW t \in Threads
  PROVE  /\ \A f : Become(t, f) /\ Advances(Top(t), f) => Shaped(t)
         /\ Pop(t) /\ ~Crashes(Top(t)) => Shaped(t)
         /\ \A fr \in Frames : \A s :
              Execute(t, fr, s) /\ Advances(Top(t), fr) /\ fr.calls = Top(t).calls => Shaped(t)
<1>1. \A f : Become(t, f) /\ Advances(Top(t), f) => Shaped(t) BY DEF Shaped
<1>2. Pop(t) /\ ~Crashes(Top(t)) => Shaped(t) BY DEF Shaped
<1>3. \A fr \in Frames : \A s :
        Execute(t, fr, s) /\ Advances(Top(t), fr) /\ fr.calls = Top(t).calls => Shaped(t)
  BY DEF Shaped
<1> QED BY <1>1, <1>2, <1>3

LEMMA GoShaped ==
  ASSUME StacksInv, NEW t \in Threads, stack[t] # <<>>, NEW pc,
         Top(t).pc \notin Before => pc \notin Before, Go(t, pc)
  PROVE  Shaped(t)
<1> DEFINE f == [Top(t) EXCEPT !.pc = pc]
<1>1. Advances(Top(t), f)
  <2>1. Top(t) \in Frames BY TopFacts
  <2> QED BY <2>1 DEF Advances, Frames, Crashes
<1>2. Become(t, f) BY DEF Go
<1> HIDE DEF f
<1> QED BY <1>1, <1>2 DEF Shaped

LEMMA AfterShaped ==
  ASSUME StacksInv, NEW t \in Threads, stack[t] # <<>>, ~Crashes(Top(t)), AfterLogger(t)
  PROVE  Shaped(t)
<1> DEFINE f == [Top(t) EXCEPT !.at = @ + 1, !.pc = "init", !.proceed = FALSE]
<1>1. Advances(Top(t), f)
  <2>1. Top(t) \in Frames BY TopFacts
  <2> QED BY <2>1 DEF Advances, Frames, Crashes
<1>2. Become(t, f) \/ Pop(t) BY DEF AfterLogger
<1> HIDE DEF f
<1> QED BY <1>1, <1>2 DEF Shaped

LEMMA CallShaped ==
  ASSUME StacksInv, NEW t \in Threads, stack[t] # <<>>, NEW pc \in Pcs,
         Top(t).pc \notin Before => pc \notin Before, NEW s, Call(t, pc, s)
  PROVE  Shaped(t)
<1> DEFINE f == [Top(t) EXCEPT !.pc = pc]
<1>1. f \in Frames /\ Advances(Top(t), f) /\ f.calls = Top(t).calls
  <2>1. Top(t) \in Frames BY TopFacts
  <2> QED BY <2>1 DEF Advances, Frames, Crashes
<1>2. Execute(t, f, s) BY DEF Call
<1> HIDE DEF f
<1> QED BY <1>1, <1>2 DEF Shaped

(* So does every step of a statement.                                      *)
LEMMA StepShaped ==
  ASSUME StacksInv, NEW t \in Threads, Step(t), ~Abort(t)
  PROVE  stack[t] # <<>> /\ Shaped(t)
<1>0. stack[t] # <<>>
  <2>1. CASE \/ Normal(t) \/ Conditional(t) \/ EveryN(t) \/ AfterN(t) \/ NTimes(t)
             \/ InitializeLogger(t) \/ LoggerMissing(t) \/ Evaluate(t) \/ StreamHead(t)
             \/ StreamTail(t) \/ LogArguments(t) \/ Skip(t) \/ Missed(t) \/ Dispatch(t)
    BY <2>1 DEF Normal, Conditional, EveryN, AfterN, NTimes, Occasional, InitializeLogger,
        LoggerMissing, Evaluate, StreamHead, StreamTail, Stream, LogArguments, Skip, Missed,
        Dispatch, At, Running
  <2>2. CASE \/ RollFirst(t) \/ Callback(t) \/ Roll(t) \/ CallbackThrows(t) \/ Undispatch(t)
             \/ Release(t) \/ FlushLogger(t) \/ FlushRoll(t) \/ FlushEnds(t) \/ FlushAll(t)
    BY <2>2 DEF RollFirst, Reopen, Callback, Roll, CallbackThrows, Undispatch, Release,
        FlushLogger, FlushRoll, FlushEnds, FlushAll, At, Running
  <2>3. CASE \/ Configure(t) \/ Apply(t) \/ RemoveLogger(t) \/ Untracked(t) \/ Checkpoint(t)
             \/ Report(t) \/ Checked(t) \/ logCrashReason(t)
    BY <2>3 DEF Configure, Apply, RemoveLogger, Untracked, Checkpoint, Report, Checked,
        logCrashReason, Tracking, At, Running
  <2> QED BY <2>1, <2>2, <2>3 DEF Step
<1>01. Top(t) \in Frames /\ Shape(Top(t)) BY <1>0, TopFacts
<1>1. CASE Normal(t) \/ Conditional(t) \/ EveryN(t) \/ AfterN(t) \/ NTimes(t)
  <2>1. PICK b : Gate(t, b)
    BY <1>1 DEF Normal, Conditional, EveryN, AfterN, NTimes, Occasional
  <2>2. ~Crashes(Top(t)) /\ Top(t).pc = "gate" /\ (Go(t, "init") \/ Pop(t))
    BY <2>1 DEF Gate, At, Crashes
  <2>3. Top(t).pc \in Before BY <2>2 DEF Before, Early
  <2> QED BY <1>0, <2>2, <2>3, GoShaped DEF Shaped
<1>2. CASE InitializeLogger(t)
  <2> DEFINE pc == IF Top(t).at = 1 THEN "head" ELSE "dispatch"
             f == [Top(t) EXCEPT !.proceed = Enabled(Logger(t)), !.pc = pc]
  <2>1. Become(t, f) BY <1>2 DEF InitializeLogger
  <2>2. Top(t).pc \in Before BY <1>2 DEF InitializeLogger, At, Before, Early
  <2>3. Advances(Top(t), f) BY <1>01, <2>2 DEF Frames, Advances, Crashes
  <2> HIDE DEF f
  <2> QED BY <1>0, <2>1, <2>3, AnyShaped
<1>3. CASE LoggerMissing(t)
  BY <1>0, <1>3, CallShaped DEF LoggerMissing, At, Before, Early, Pcs
<1>4. CASE Report(t)
  <2>1. "checked" \in Pcs /\ "checked" \notin Before BY DEF Pcs, Before, Early
  <2> QED BY <1>0, <1>4, <2>1, CallShaped DEF Report
<1>5. CASE Evaluate(t)
  <2> DEFINE f == [Top(t) EXCEPT !.evaluated = TRUE]
  <2>1. Execute(t, f, Top(t).stmt.inner) BY <1>5 DEF Evaluate
  <2>2. f \in Frames /\ Advances(Top(t), f) /\ f.calls = Top(t).calls
    <3>1. f \in Frames BY <1>01 DEF Frames
    <3>2. f.id = Top(t).id /\ f.calls = Top(t).calls /\ f.at = Top(t).at /\ f.pc = Top(t).pc
          /\ f.stmt = Top(t).stmt /\ f.calls \in Nat
      BY <1>01 DEF Frames
    <3> QED BY <3>1, <3>2 DEF Advances, Crashes
  <2> HIDE DEF f
  <2> QED BY <1>0, <2>1, <2>2, AnyShaped
<1>6. CASE StreamHead(t) \/ StreamTail(t) \/ RollFirst(t) \/ Configure(t)
  <2>1. Top(t).pc \in Before /\ \E pc : Go(t, pc)
    BY <1>6 DEF StreamHead, StreamTail, Stream, RollFirst, Reopen, Configure, At, Before, Early
  <2> QED BY <1>0, <2>1, GoShaped
<1>7. CASE \/ Callback(t) \/ Roll(t) \/ Undispatch(t) \/ FlushLogger(t) \/ FlushRoll(t)
           \/ Checkpoint(t)
  <2>1. \E pc \in {"roll", "written", "release", "flushed", "handle"} : Go(t, pc)
    BY <1>7 DEF Callback, Roll, Reopen, Undispatch, FlushLogger, FlushRoll, Checkpoint
  <2> QED BY <1>0, <2>1, GoShaped DEF Before, Early
<1>8. CASE LogArguments(t)
  <2> DEFINE f == [Top(t) EXCEPT !.proceed = Enabled(Logger(t)), !.stmt.op = "write", !.pc = "tail"]
  <2>1. ~Crashes(Top(t)) /\ Top(t).pc \in Before /\ (Become(t, f) \/ Pop(t))
    BY <1>8 DEF LogArguments, At, Crashes, Before, Early
  <2>2. Advances(Top(t), f)
    <3>1. f.id = Top(t).id /\ f.calls = Top(t).calls /\ f.at = Top(t).at /\ f.stmt.op = "write"
      BY <1>01 DEF Frames, Framed, StatementsWith
    <3>2. Top(t).calls \in Nat BY <1>01 DEF Frames
    <3> QED BY <2>1, <3>1, <3>2 DEF Advances, Crashes
  <2> HIDE DEF f
  <2> QED BY <1>0, <2>1, <2>2, AnyShaped
<1>9. CASE Skip(t) \/ Missed(t) \/ CallbackThrows(t)
  <2>1. ~Crashes(Top(t)) /\ AfterLogger(t)
    BY <1>9, <1>01 DEF Skip, Missed, CallbackThrows, At, Crashes, Shape, Allowed
  <2> QED BY <1>0, <2>1, AfterShaped
<1>10. CASE Dispatch(t)
  <2> DEFINE roll == Has("StrictLogFileSizeCheck") /\ TooLarge(FileOf[Logger(t)])
             f == [Top(t) EXCEPT !.first = TRUE, !.msg = IF Top(t).first THEN @ ELSE stream[Logger(t)],
                     !.pc = IF roll THEN "rollfirst" ELSE "callback"]
  <2>1. Become(t, f) BY <1>10 DEF Dispatch
  <2>2. Top(t).pc \in Before BY <1>10 DEF Dispatch, At, Before, Early
  <2>3. Advances(Top(t), f) BY <1>01, <2>2 DEF Frames, Advances, Crashes
  <2> HIDE DEF f
  <2> QED BY <1>0, <2>1, <2>3, AnyShaped
<1>11. CASE Release(t)
  <2>1. ~Crashes(Top(t)) BY <1>11 DEF Release, At, Crashes
  <2>2. AfterLogger(t) \/ Call(t, "abort", Internal(Default)) BY <1>11 DEF Release
  <2>3. "abort" \in Pcs /\ "abort" \notin Before BY DEF Pcs, Before, Early
  <2> QED BY <1>0, <2>1, <2>2, <2>3, AfterShaped, CallShaped
<1>12. CASE FlushEnds(t)
  <2>1. ~Crashes(Top(t)) /\ (Pop(t) \/ Go(t, "apply")) BY <1>12 DEF FlushEnds, At, Crashes
  <2>2. "apply" \notin Before BY DEF Before, Early
  <2> QED BY <1>0, <2>1, <2>2, GoShaped DEF Shaped
<1>13. CASE FlushAll(t) \/ Apply(t) \/ RemoveLogger(t) \/ Untracked(t) \/ Checked(t)
  <2>1. ~Crashes(Top(t)) /\ Pop(t)
    BY <1>13 DEF FlushAll, Apply, RemoveLogger, Untracked, Checked, Tracking, At, Crashes
  <2> QED BY <1>0, <2>1, AnyShaped
<1>14. CASE logCrashReason(t)
  <2> DEFINE pc == IF Top(t).first \/ Len(CrashReports) = 1 THEN "abort" ELSE "gate"
             f == [Top(t) EXCEPT !.first = TRUE, !.pc = pc]
  <2>1. Top(t).pc = "gate" /\ \E s : Execute(t, f, s) BY <1>14 DEF logCrashReason, At
  <2>2. Top(t).pc \in Before /\ pc \in Pcs BY <2>1 DEF Before, Early, Pcs
  <2>3. f \in Frames /\ Advances(Top(t), f) /\ f.calls = Top(t).calls
    <3> HIDE DEF pc
    <3>1. f \in Frames BY <1>01, <2>2 DEF Frames
    <3>2. f.id = Top(t).id /\ f.calls = Top(t).calls /\ f.at = Top(t).at
          /\ f.stmt = Top(t).stmt /\ f.calls \in Nat
      BY <1>01 DEF Frames
    <3> QED BY <2>2, <3>1, <3>2 DEF Advances, Crashes
  <2> HIDE DEF f
  <2> QED BY <1>0, <2>1, <2>3, AnyShaped
<1> QED BY <1>1, <1>2, <1>3, <1>4, <1>5, <1>6, <1>7, <1>8, <1>9, <1>10, <1>11, <1>12, <1>13,
           <1>14 DEF Step

(* Names and lines remain known, whatever a statement does,                *)
LEMMA TopNext ==
  ASSUME StacksInv', NEW t \in Threads, stack'[t] # <<>>
  PROVE  Top(t)' \in Frames /\ Top(t)' = stack'[t][Len(stack'[t])] /\ stack'[t] \in Seq(Frames)
         /\ Len(stack'[t]) \in Nat \ {0}
<1>1. stack'[t] \in Seq(Frames) BY DEF StacksInv
<1> PICK n \in Seq(Frames) : n = stack'[t] BY <1>1
<1>2. Len(n) \in Nat \ {0} /\ Len(n) \in 1 .. Len(n) OBVIOUS
<1>3. Top(t)' = n[Len(n)] BY DEF Top, Last
<1> QED BY <1>1, <1>2, <1>3

LEMMA ShapedNamed ==
  ASSUME StacksInv, StacksInv', NEW t \in Threads, stack[t] # <<>>, Shaped(t),
         NEW no, Numbered(stack[t], t, no)
  PROVE  /\ Numbered(stack'[t], t, no)
         /\ \A x \in LineSet : Noted(x, stack[t]) => Noted(x, stack'[t])
<1>1. /\ stack[t] \in Seq(Frames) /\ Len(stack[t]) \in Nat \ {0}
      /\ Top(t) = stack[t][Len(stack[t])] /\ Top(t) \in Frames
      /\ stack'[t] \in Seq(Frames)
  BY TopFacts DEF StacksInv
<1> PICK st \in Seq(Frames) : st = stack[t] BY <1>1
<1> PICK n \in Seq(Frames) : n = stack'[t] BY <1>1
<1> PICK k \in Nat \ {0} : k = Len(st) BY <1>1
<1>2. \A a \in Frames : Advances(a, a) BY DEF Advances, Frames
<1>3. \A i \in 1 .. k : st[i] \in Frames OBVIOUS
<1>4. ASSUME NEW f, Become(t, f), Advances(Top(t), f)
      PROVE  Numbered(n, t, no) /\ \A x \in LineSet : Noted(x, st) => Noted(x, n)
  <2>1. f \in Frames BY <1>4, BecomeTop, TopNext
  <2>2. Len(n) = k /\ n[k] = f /\ \A i \in 1 .. k - 1 : n[i] = st[i] BY <1>4, <2>1, BecomeStack
  <2>3. ASSUME NEW i \in 1 .. k PROVE Advances(st[i], n[i])
    <3>1. CASE i = k BY <1>1, <1>4, <2>2, <3>1
    <3>2. CASE i # k
      <4>1. i \in 1 .. k - 1 BY <3>2
      <4> QED BY <1>2, <1>3, <2>2, <4>1
    <3> QED BY <3>1, <3>2
  <2> QED BY <2>2, <2>3, AdvanceNamed
<1>5. ASSUME Pop(t), ~Crashes(Top(t))
      PROVE  Numbered(n, t, no) /\ \A x \in LineSet : Noted(x, st) => Noted(x, n)
  <2>1. Len(n) = k - 1 /\ \A i \in 1 .. k - 1 : n[i] = st[i] BY <1>5, PopStack
  <2>2. st # <<>> /\ ~Crashes(st[Len(st)]) BY <1>1, <1>5
  <2> QED BY <2>1, <2>2, LeaveNamed
<1>6. ASSUME NEW fr \in Frames, NEW s, Execute(t, fr, s), Advances(Top(t), fr),
             fr.calls = Top(t).calls
      PROVE  Numbered(n, t, no) /\ \A x \in LineSet : Noted(x, st) => Noted(x, n)
  <2> DEFINE f == [fr EXCEPT !.calls = @ + 1]  g == Frame(Within(fr), s)
  <2>1. f \in Frames /\ f.id = fr.id /\ f.calls = fr.calls + 1 /\ f.at = fr.at
        /\ f.pc = fr.pc /\ f.stmt = fr.stmt /\ fr.calls \in Nat
    <3>1. fr.calls \in Nat /\ fr.calls + 1 \in Nat BY DEF Frames
    <3>2. f \in Frames BY <3>1 DEF Frames
    <3>3. f.id = fr.id /\ f.calls = fr.calls + 1 /\ f.at = fr.at /\ f.pc = fr.pc
          /\ f.stmt = fr.stmt
      BY DEF Frames
    <3> QED BY <3>1, <3>2, <3>3
  <2>2. Advances(Top(t), f) /\ f.calls >= Top(t).calls + 1
    BY <1>6, <2>1 DEF Advances, Crashes
  <2>3. g.id = NextId(Top(t))
    <3>1. Within(fr) = [fr.id EXCEPT !.path = Append(@, fr.calls + 1)] BY DEF Within
    <3>2. fr.id = Top(t).id BY <1>6 DEF Advances
    <3>3. g.id = Within(fr) BY DEF Frame
    <3> QED BY <1>6, <3>1, <3>2, <3>3 DEF NextId
  <2>4. stack' = [stack EXCEPT ![t] = Front(@) \o <<f, g>>] BY <1>6 DEF Execute
  <2> HIDE DEF f, g
  <2>5. g \in Frames
    <3>1. stack'[t] # <<>> /\ Top(t)' = g BY <2>4, CoverTop
    <3> QED BY <3>1, TopNext
  <2>6. Covering(t, f, g) BY <2>4 DEF Covering
  <2>7. Len(n) = k + 1 /\ n[k] = f /\ n[k + 1] = g /\ \A i \in 1 .. k - 1 : n[i] = st[i]
    BY <2>1, <2>5, <2>6, CoverStack
  <2>8. ASSUME NEW i \in 1 .. k PROVE Advances(st[i], n[i])
    <3>1. CASE i = k BY <1>1, <2>2, <2>7, <3>1
    <3>2. CASE i # k
      <4>1. i \in 1 .. k - 1 BY <3>2
      <4> QED BY <1>2, <1>3, <2>7, <4>1
    <3> QED BY <3>1, <3>2
  <2>9. st # <<>> /\ n[Len(st) + 1].id = NextId(st[Len(st)])
        /\ n[Len(st)].calls >= st[Len(st)].calls + 1
    BY <1>1, <2>2, <2>3, <2>7
  <2> QED BY <2>7, <2>8, <2>9, PushNamed
<1> QED BY <1>4, <1>5, <1>6 DEF Shaped

(* or a crash,                                                             *)
LEMMA CrashNamed ==
  ASSUME StacksInv, LockInv, StacksInv', NEW t \in Threads, Crash(t),
         NEW no, Numbered(stack[t], t, no)
  PROVE  /\ Numbered(stack'[t], t, no)
         /\ \A x \in LineSet : Noted(x, stack[t]) => Noted(x, stack'[t])
<1>0. /\ stack[t] # <<>> /\ Len(stack'[t]) = Len(stack[t]) + 1
      /\ \A i \in 1 .. Len(stack[t]) : stack'[t][i] = stack[t][i]
      /\ Crashes(stack'[t][Len(stack[t]) + 1])
  BY CrashEffect
<1>1. /\ stack[t] \in Seq(Frames) /\ Len(stack[t]) \in Nat \ {0}
      /\ Top(t) = stack[t][Len(stack[t])] /\ Top(t) \in Frames
      /\ stack'[t] \in Seq(Frames) /\ DOMAIN stack = Threads
  BY <1>0, TopFacts DEF StacksInv
<1> PICK st \in Seq(Frames) : st = stack[t] BY <1>1
<1> PICK n \in Seq(Frames) : n = stack'[t] BY <1>1
<1> PICK k \in Nat \ {0} : k = Len(st) BY <1>1
<1>2. \A a \in Frames : Advances(a, a) BY DEF Advances, Frames
<1>3. \A i \in 1 .. k : st[i] \in Frames /\ Advances(st[i], n[i]) BY <1>0, <1>2
<1> DEFINE g == Frame(Within(Top(t)), [Internal(Default) EXCEPT !.op = "crash"])
<1>4. g.id = NextId(Top(t)) BY DEF Frame, Within, NextId
<1>5. stack' = [stack EXCEPT ![t] = Append(@, g)] BY DEF Crash
<1> HIDE DEF g
<1>6. n = Append(st, g) BY <1>1, <1>5
<1>7. n[k + 1] = g
  <2>1. st \in Seq(Frames \cup {g}) OBVIOUS
  <2> QED BY <1>6, <2>1
<1>8. st # <<>> /\ n[Len(st) + 1].id = NextId(st[Len(st)]) /\ Crashes(n[Len(st) + 1])
      /\ Len(n) = Len(st) + 1
  BY <1>0, <1>1, <1>4, <1>7
<1> QED BY <1>3, <1>8, PushNamed

(* or a first statement.                                                   *)
LEMMA BeginNamed ==
  ASSUME StacksInv, NEW t \in Threads, Begin(t)
  PROVE  /\ Numbered(stack'[t], t, started'[t]) /\ started'[t] = started[t] + 1
         /\ \A u \in Threads \ {t} : started'[u] = started[u]
         /\ \A x \in LineSet : x.by.no <= started[x.by.by] => Noted(x, stack'[t])
<1>1. /\ stack[t] = <<>> /\ started' = [started EXCEPT ![t] = @ + 1]
      /\ started \in [Threads -> Nat] /\ DOMAIN stack = Threads
  BY DEF Begin, StacksInv
<1>2. started'[t] = started[t] + 1 /\ started[t] \in Nat
      /\ \A u \in Threads \ {t} : started'[u] = started[u]
  BY <1>1
<1> PICK s : stack' = [stack EXCEPT ![t] = <<Frame([by |-> t, no |-> started'[t], path |-> <<>>], s)>>]
  BY DEF Begin
<1> DEFINE id == [by |-> t, no |-> started'[t], path |-> <<>>]  g == Frame(id, s)
<1>3. g.id = id /\ g.id.by = t /\ g.id.no = started'[t] /\ Len(g.id.path) = 0 BY DEF Frame
<1>4. stack'[t] = <<g>> BY <1>1
<1> HIDE DEF g
<1>5. Len(stack'[t]) = 1 /\ stack'[t][1] = g BY <1>4
<1>6. Numbered(stack'[t], t, started'[t])
  <2> SUFFICES ASSUME NEW i \in 1 .. 1
               PROVE  /\ g.id.by = t /\ g.id.no = started'[t] /\ Len(g.id.path) = i - 1
                      /\ \A h \in 1 .. i - 1 : FALSE
    BY <1>5 DEF Numbered
  <2> QED BY <1>3
<1>7. ASSUME NEW x \in LineSet, x.by.no <= started[x.by.by] PROVE Noted(x, stack'[t])
  <2>1. x.by.no \in Nat BY DEF LineSet, Ids
  <2>2. x.by # g.id /\ ~Below(x.by, g) BY <1>2, <1>3, <1>7, <2>1 DEF Below
  <2> QED BY <1>5, <2>2 DEF Noted, Behind, Called
<1> QED BY <1>2, <1>6, <1>7

(* What is recorded: only the callback adds to it, its statement's line.   *)
LEMMA LostStays ==
  ASSUME NEW t \in Threads, Begin(t) \/ Step(t) \/ Crash(t), ~Callback(t)
  PROVE  lost' = lost
<1>1. CASE \/ Begin(t) \/ Crash(t) \/ Normal(t) \/ Conditional(t) \/ EveryN(t) \/ AfterN(t)
           \/ NTimes(t) \/ InitializeLogger(t) \/ LoggerMissing(t) \/ Evaluate(t)
  BY <1>1 DEF Begin, Crash, Normal, Conditional, EveryN, AfterN, NTimes, Occasional, Gate,
      InitializeLogger, LoggerMissing, Evaluate
<1>2. CASE \/ StreamHead(t) \/ StreamTail(t) \/ LogArguments(t) \/ Skip(t) \/ Missed(t)
           \/ Dispatch(t) \/ RollFirst(t) \/ Roll(t) \/ CallbackThrows(t) \/ Undispatch(t)
           \/ Release(t) \/ Abort(t)
  BY <1>2 DEF StreamHead, StreamTail, Stream, LogArguments, Skip, Missed, Dispatch, RollFirst,
      Roll, Reopen, CallbackThrows, Undispatch, Release, Abort
<1>3. CASE \/ FlushLogger(t) \/ FlushRoll(t) \/ FlushEnds(t) \/ FlushAll(t) \/ Configure(t)
           \/ Apply(t) \/ RemoveLogger(t) \/ Untracked(t) \/ Checkpoint(t) \/ Report(t)
           \/ Checked(t) \/ logCrashReason(t)
  BY <1>3 DEF FlushLogger, FlushRoll, Reopen, FlushEnds, FlushAll, Configure, Apply,
      RemoveLogger, Untracked, Checkpoint, Report, Checked, logCrashReason
<1> QED BY <1>1, <1>2, <1>3 DEF Step

LEMMA RecordedStep ==
  ASSUME StacksInv, FilesInv, NEW t \in Threads, Begin(t) \/ Step(t) \/ Crash(t),
         NEW x \in Recorded'
  PROVE  x \in Recorded \/ (Callback(t) /\ x = Line(t))
<1>1. CASE x \in lost'
  <2>1. CASE Callback(t)
    <3>1. lost' \subseteq lost \cup {Line(t)} BY <2>1 DEF Callback
    <3> QED BY <1>1, <2>1, <3>1 DEF Recorded
  <2>2. CASE ~Callback(t) BY <1>1, <2>2, LostStays DEF Recorded
  <2> QED BY <2>1, <2>2
<1>2. CASE x \notin lost'
  <2>1. PICK f \in Files : x \in Range(Lines(f)') BY <1>2 DEF Recorded
  <2>2. PICK i \in DOMAIN (Lines(f)') : x = Lines(f)'[i] BY <2>1 DEF Range
  <2>3. \A j \in DOMAIN Lines(f) : Lines(f)[j] \in Recorded BY DEF Recorded, Range
  <2>4. CASE Callback(t)
    <3>1. Adds(Lines(f)', Lines(f), Line(t)) BY <2>4, LineAdded
    <3> QED BY <2>2, <2>3, <2>4, <3>1 DEF Adds
  <2>5. CASE ~Callback(t)
    <3>1. Lines(f)' = Lines(f) BY <2>5, LinesStay
    <3> QED BY <2>2, <2>3, <3>1
  <2> QED BY <2>4, <2>5
<1> QED BY <1>1, <1>2

(* The line that is written is new to the frames, which know it then.      *)
LEMMA LineNamed ==
  ASSUME StacksInv, StacksInv', NamesInv, NEW t \in Threads, Callback(t), NEW u \in Threads,
         stack'[u] = stack[u] \/ u = t
  PROVE  Noted(Line(t), stack'[u]) /\ Line(t).by.no <= started[Line(t).by.by]
<1>0. /\ stack[t] # <<>> /\ Top(t).pc = "callback"
      /\ \E pc \in {"roll", "written"} : Go(t, pc)
  BY DEF Callback, At, Running
<1> PICK st \in Seq(Frames) : st = stack[t] BY TopFacts, <1>0
<1> PICK k \in Nat \ {0} : k = Len(st) BY <1>0, TopFacts
<1> PICK top \in Frames : top = st[k] /\ top = Top(t) BY <1>0, TopFacts
<1> PICK x \in LineSet : x = Line(t) BY <1>0, LineOk
<1>1. x.by = top.id /\ x.at = top.at BY DEF Line
<1>2. Numbered(st, t, started[t]) BY DEF NamesInv
<1>3. top.id.by = t /\ top.id.no = started[t] /\ Len(top.id.path) = k - 1 /\ top.id \in Ids
      /\ top.at \in Nat /\ started[t] \in Nat
  <2>1. k \in 1 .. Len(st) OBVIOUS
  <2> QED BY <1>2, <2>1 DEF Numbered, Frames, StacksInv
<1>4. x.by.no <= started[x.by.by] BY <1>1, <1>3
<1>5. CASE u # t
  <2>1. stack[u] \in Seq(Frames) /\ Numbered(stack[u], u, started[u]) BY DEF StacksInv, NamesInv
  <2> PICK r \in Seq(Frames) : r = stack[u] BY <2>1
  <2>2. ASSUME NEW i \in 1 .. Len(r) PROVE Behind(x, r[i]) /\ Called(x.by, r[i])
    <3>1. r[i].id.by = u BY <2>1 DEF Numbered
    <3> QED BY <1>1, <1>3, <1>5, <3>1 DEF Behind, Called, Below
  <2>3. stack'[u] = r BY <1>5
  <2>4. Noted(x, r) BY <2>2 DEF Noted
  <2> QED BY <1>4, <2>3, <2>4
<1>6. CASE u = t
  <2> PICK pc \in {"roll", "written"} : Go(t, pc) BY <1>0
  <2> DEFINE f == [top EXCEPT !.pc = pc]
  <2>1. f \in Frames /\ f.id = top.id /\ f.at = top.at /\ f.pc = pc /\ f.calls = top.calls
        /\ (Crashes(f) <=> Crashes(top))
    BY DEF Frames, Pcs, Crashes
  <2>2. Become(t, f) BY DEF Go
  <2> HIDE DEF f
  <2> PICK n \in Seq(Frames) : n = stack'[t] BY DEF StacksInv
  <2>3. Len(n) = k /\ n[k] = f /\ \A i \in 1 .. k - 1 : n[i] = st[i]
    BY <1>0, <2>1, <2>2, BecomeStack
  <2>4. ASSUME NEW i \in 1 .. k - 1
        PROVE  Behind(x, n[i]) /\ (Buried(n, i) \/ Called(x.by, n[i]))
    <3>1. i \in 1 .. Len(st) /\ k \in 1 .. Len(st) /\ i \in 1 .. k - 1 /\ i # k OBVIOUS
    <3>2. Len(st[i].id.path) = i - 1 BY <1>2, <3>1 DEF Numbered
    <3>3. x.by # st[i].id BY <1>1, <1>3, <3>1, <3>2
    <3>4. Buried(st, i) \/ Called(top.id, st[i]) BY <1>2, <3>1 DEF Numbered
    <3>5. Buried(st, i) => Buried(n, i)
      <4>1. CASE i = k - 1
        <5>1. i + 1 = k /\ i < k BY <4>1
        <5>2. Crashes(st[k]) => Crashes(n[k]) BY <2>1, <2>3
        <5> QED BY <2>3, <5>1, <5>2 DEF Buried
      <4>2. CASE i # k - 1
        <5>1. i + 1 \in 1 .. k - 1 BY <4>2
        <5> QED BY <2>3, <5>1 DEF Buried
      <4> QED BY <4>1, <4>2
    <3> QED BY <1>1, <2>3, <3>3, <3>4, <3>5 DEF Behind
  <2>5. Behind(x, n[k]) /\ Called(x.by, n[k])
    <3>1. pc \notin Before BY DEF Before, Early
    <3>2. ~Below(x.by, f) BY <1>1, <1>3, <2>1 DEF Below
    <3> QED BY <1>1, <2>1, <2>3, <3>1, <3>2 DEF Behind, Called
  <2>6. Noted(x, n)
    <3>1. \A i \in 1 .. k : i \in 1 .. k - 1 \/ i = k OBVIOUS
    <3> QED BY <2>3, <2>4, <2>5, <3>1 DEF Noted
  <2> QED BY <1>4, <1>6, <2>6
<1> QED BY <1>5, <1>6

LEMMA NamesKept ==
  ASSUME StacksInv, LockInv, FilesInv, StacksInv', NamesInv, NEW t \in Threads,
         Begin(t) \/ Step(t) \/ Crash(t)
  PROVE  NamesInv'
<1>1. \A u \in Threads \ {t} : stack'[u] = stack[u]
  <2>1. CASE Begin(t) BY <2>1, BeginEffect
  <2>2. CASE Step(t) BY <2>2, OthersStay
  <2>3. CASE Crash(t) BY <2>3, CrashEffect DEF Effect, Moves, Turn
  <2> QED BY <2>1, <2>2, <2>3
<1>2. \A u \in Threads : Numbered(stack[u], u, started[u]) BY DEF NamesInv
<1>3. /\ Numbered(stack'[t], t, started'[t])
      /\ \A u \in Threads \ {t} : started'[u] = started[u]
      /\ started[t] <= started'[t]
      /\ \A x \in LineSet : Noted(x, stack[t]) /\ x.by.no <= started[x.by.by] =>
           Noted(x, stack'[t])
  <2>0. started[t] \in Nat BY DEF StacksInv
  <2>1. CASE Begin(t) BY <2>0, <2>1, BeginNamed
  <2>2. CASE Abort(t)
    <3>1. stack' = stack /\ started' = started BY <2>2 DEF Abort
    <3> QED BY <1>2, <2>0, <3>1
  <2>3. CASE Step(t) /\ ~Abort(t)
    <3>1. stack[t] # <<>> /\ Shaped(t) BY <2>3, StepShaped
    <3>2. started' = started BY <2>3, StepEffect DEF Effect
    <3>3. /\ Numbered(stack'[t], t, started[t])
          /\ \A x \in LineSet : Noted(x, stack[t]) => Noted(x, stack'[t])
      <4>1. Numbered(stack[t], t, started[t]) BY <1>2
      <4> QED BY <3>1, <4>1, ShapedNamed
    <3> QED BY <2>0, <3>2, <3>3
  <2>4. CASE Crash(t)
    <3>1. started' = started BY <2>4, CrashEffect DEF Effect
    <3> QED BY <1>2, <2>0, <2>4, <3>1, CrashNamed
  <2> QED BY <2>1, <2>2, <2>3, <2>4
<1>4. \A u \in Threads : Numbered(stack'[u], u, started'[u]) BY <1>1, <1>2, <1>3
<1>5. ASSUME NEW x \in Recorded'
      PROVE  /\ x \in LineSet /\ x.by.no <= started'[x.by.by]
             /\ \A u \in Threads : Noted(x, stack'[u])
  <2>1. /\ x \in LineSet /\ x.by.no <= started[x.by.by]
        /\ \A u \in Threads : Noted(x, stack'[u])
    <3>1. CASE x \in Recorded
      <4>1. x \in LineSet /\ x.by.no <= started[x.by.by]
            /\ \A u \in Threads : Noted(x, stack[u])
        BY <3>1 DEF NamesInv
      <4> QED BY <1>1, <1>3, <4>1
    <3>2. CASE Callback(t) /\ x = Line(t)
      <4>1. x \in LineSet BY <3>2, LineOk DEF Callback, At, Running
      <4> QED BY <1>1, <3>2, <4>1, LineNamed
    <3> QED BY <3>1, <3>2, RecordedStep
  <2>2. x.by.by \in Threads /\ x.by.no \in Nat BY <2>1 DEF LineSet, Ids
  <2>3. started[x.by.by] \in Nat /\ started'[x.by.by] \in Nat BY <2>2 DEF StacksInv
  <2>4. started[x.by.by] <= started'[x.by.by] BY <1>3, <2>2, <2>3
  <2> QED BY <2>1, <2>2, <2>3, <2>4
<1> QED BY <1>4, <1>5 DEF NamesInv

(* What is to be written does not change while it is.                      *)
LEMMA GoLine ==
  ASSUME StacksInv, NEW t \in Threads, stack[t] # <<>>, NEW pc \in Pcs, Go(t, pc),
         UNCHANGED stream
  PROVE  Line(t)' = Line(t) /\ Logger(t)' = Logger(t)
<1> DEFINE f == [Top(t) EXCEPT !.pc = pc]
<1>1. f \in Frames /\ f.id = Top(t).id /\ f.stmt = Top(t).stmt /\ f.at = Top(t).at
  BY TopFacts DEF Frames
<1>2. Become(t, f) BY DEF Go
<1> HIDE DEF f
<1>3. Top(t)' = f BY <1>2, BecomeTop
<1> PICK k \in Nat \ {0} : k = Len(stack[t]) BY TopFacts
<1>4. /\ Len(stack'[t]) = k /\ stack'[t][k] = f
      /\ \A i \in 1 .. k - 1 : stack'[t][i] = stack[t][i]
  BY <1>1, <1>2, BecomeStack
<1>5. stack[t][k] = Top(t) /\ DOMAIN stack[t] = 1 .. k /\ stack[t] \in Seq(Frames) BY TopFacts
<1>6. DOMAIN stack'[t] = 1 .. k
  <2>1. stack' = [stack EXCEPT ![t] = Append(Front(stack[t]), f)] BY <1>2 DEF Become
  <2>2. Append(Front(stack[t]), f) \in Seq(Frames) BY <1>1, <1>5, BecomeSeq
  <2>3. stack'[t] \in Seq(Frames) BY <2>1, <2>2 DEF StacksInv
  <2> QED BY <1>4, <2>3
<1>7. \A i \in 1 .. k : stack'[t][i].stmt = stack[t][i].stmt
  <2> SUFFICES ASSUME NEW i \in 1 .. k PROVE stack'[t][i].stmt = stack[t][i].stmt OBVIOUS
  <2>1. CASE i = k BY <1>1, <1>4, <1>5, <2>1
  <2>2. CASE i # k
    <3>1. i \in 1 .. k - 1 BY <2>2
    <3> QED BY <1>4, <3>1
  <2> QED BY <2>1, <2>2
<1>8. Crashing(t)' = Crashing(t) BY <1>5, <1>6, <1>7 DEF Crashing
<1>9. stack'[t][1].stmt = stack[t][1].stmt
  <2>1. 1 \in 1 .. k OBVIOUS
  <2> QED BY <1>7, <2>1
<1>10. Logger(t)' = Logger(t) BY <1>1, <1>3 DEF Logger
<1>11. stream'[Logger(t)'] = stream[Logger(t)] BY <1>10
<1> QED BY <1>1, <1>3, <1>8, <1>9, <1>10, <1>11 DEF Line

(* A line of another name does not count,                                  *)
LEMMA StoredStays ==
  ASSUME FilesInv, NEW e, NEW f \in Files, Stored(e, f), NEW t \in Threads,
         Begin(t) \/ Step(t) \/ Crash(t), StacksInv, Callback(t) => Line(t).by # e.by
  PROVE  Stored(e, f)'
<1> PICK s \in Seq(LineSet) : s = Lines(f) BY LinesSeq
<1>1. e \in lost' <=> e \in lost
  <2>1. CASE Callback(t)
    <3>1. lost' \in {lost, lost \cup {Line(t)}} BY <2>1 DEF Callback
    <3> QED BY <2>1, <3>1
  <2>2. CASE ~Callback(t) BY <2>2, LostStays
  <2> QED BY <2>1, <2>2
<1>2. CASE Lines(f)' = s
  <2>1. Copies(e, f)' = Copies(e, f) BY <1>2 DEF Copies
  <2> QED BY <1>1, <1>2, <2>1 DEF Stored
<1>3. CASE Callback(t) /\ Lines(f)' = Append(s, Line(t))
  <2> PICK x \in LineSet : x = Line(t) BY <1>3, LineOk DEF Callback, At, Running
  <2> PICK n : n = Append(s, x) OBVIOUS
  <2>1. /\ DOMAIN n = DOMAIN s \cup {Len(s) + 1} /\ n[Len(s) + 1] = x
        /\ \A i \in DOMAIN s : n[i] = s[i]
    BY AppendAdds
  <2>2. Lines(f)' = n /\ x.by # e.by BY <1>3
  <2>3. Copies(e, f)' = {i \in DOMAIN n : n[i].by = e.by /\ n[i].at = e.at}
    BY <2>2 DEF Copies
  <2>4. Copies(e, f)' = Copies(e, f) BY <2>1, <2>2, <2>3 DEF Copies
  <2>5. \A i \in Copies(e, f) : n[i] = s[i] BY <2>1 DEF Copies
  <2> QED BY <1>1, <2>2, <2>4, <2>5 DEF Stored
<1>4. Lines(f)' = s \/ (Callback(t) /\ Lines(f)' = Append(s, Line(t)))
  BY LinesStay, LineAppended
<1> QED BY <1>2, <1>3, <1>4

(* and when a line is written there is none of its own yet.                *)
LEMMA StoredFirst ==
  ASSUME StacksInv, FilesInv, NamesInv, NEW t \in Threads, Callback(t)
  PROVE  Stored(Line(t), FileOf[Logger(t)])' /\ Line(t)' = Line(t) /\ Logger(t)' = Logger(t)
<1>0. /\ stack[t] # <<>> /\ Top(t).pc = "callback" /\ UNCHANGED stream
      /\ \E pc \in {"roll", "written"} : Go(t, pc)
  BY DEF Callback, At, Running
<1>1. Line(t)' = Line(t) /\ Logger(t)' = Logger(t)
  <2>1. \E pc \in Pcs : Go(t, pc) BY <1>0 DEF Pcs
  <2> QED BY <1>0, <2>1, GoLine
<1> PICK e \in LineSet : e = Line(t) BY <1>0, LineOk
<1> PICK f \in Files : f = FileOf[Logger(t)]
  <2>1. Logger(t) \in Loggers BY <1>0, TopFacts
  <2> QED BY <2>1, LogWriterAssumption
<1> PICK s \in Seq(LineSet) : s = Lines(f) BY LinesSeq
<1>2. ASSUME NEW x \in Recorded PROVE ~(x.by = e.by /\ x.at = e.at)
  <2>1. Noted(x, stack[t]) /\ x \in LineSet BY <1>2 DEF NamesInv
  <2>2. Len(stack[t]) \in 1 .. Len(stack[t]) /\ Top(t) = stack[t][Len(stack[t])]
        /\ Top(t) \in Frames
    BY <1>0, TopFacts
  <2>3. Behind(x, Top(t)) BY <2>1, <2>2 DEF Noted
  <2>4. Top(t).pc \in Before BY <1>0 DEF Before
  <2>5. e.by = Top(t).id /\ e.at = Top(t).at BY DEF Line
  <2>6. x.at \in Nat /\ e.at \in Nat BY <2>1 DEF LineSet
  <2> QED BY <2>3, <2>4, <2>5, <2>6 DEF Behind
<1>3. e \notin lost BY <1>2 DEF Recorded
<1>4. \A i \in DOMAIN s : s[i] \in Recorded BY DEF Recorded, Range
<1>5. CASE Writes(f)
  <2>1. lost' = lost BY <1>5 DEF Callback
  <2>2. Lines(f)' = Append(s, e) BY <1>5, LineAppended
  <2> PICK n : n = Append(s, e) OBVIOUS
  <2>3. /\ DOMAIN n = DOMAIN s \cup {Len(s) + 1} /\ n[Len(s) + 1] = e
        /\ \A i \in DOMAIN s : n[i] = s[i]
    BY AppendAdds
  <2>4. Copies(e, f)' = {i \in DOMAIN n : n[i].by = e.by /\ n[i].at = e.at}
    BY <2>2 DEF Copies
  <2>5. Copies(e, f)' = {Len(s) + 1} BY <1>2, <1>4, <2>3, <2>4
  <2>6. Lines(f)'[Len(s) + 1] = e BY <2>2, <2>3
  <2>7. Stored(e, f)' BY <1>3, <2>1, <2>5, <2>6 DEF Stored
  <2> QED BY <1>1, <2>7
<1>6. CASE ~Writes(f)
  <2>1. lost' = lost \cup {e} BY <1>6 DEF Callback
  <2>2. Lines(f)' = s BY <1>6, LineAppended
  <2>3. Copies(e, f)' = {} BY <1>2, <1>4, <2>2 DEF Copies
  <2>4. Stored(e, f)' BY <2>1, <2>3 DEF Stored
  <2> QED BY <1>1, <2>4
<1> QED BY <1>5, <1>6

(* A line is stored from then on, whatever the threads do.                 *)
LEMMA StoredKept ==
  ASSUME StacksInv, LockInv, FilesInv, LinesInv, NamesInv, StoredInv, NEW t \in Threads,
         Begin(t) \/ Step(t) \/ Crash(t)
  PROVE  StoredInv'
<1> SUFFICES ASSUME NEW u \in Threads, Storing(u)'
             PROVE  Stored(Line(u), FileOf[Logger(u)])'
  BY DEF StoredInv
<1>1. ASSUME Storing(u), Line(u)' = Line(u), Logger(u)' = Logger(u),
             Callback(t) => Line(t).by # Line(u).by
      PROVE  Stored(Line(u), FileOf[Logger(u)])'
  <2> PICK e : e = Line(u) OBVIOUS
  <2> PICK f \in Files : f = FileOf[Logger(u)]
    <3>1. Logger(u) \in Loggers BY <1>1, TopFacts DEF Storing
    <3> QED BY <3>1, LogWriterAssumption
  <2>1. Stored(e, f) BY <1>1 DEF StoredInv
  <2>2. Stored(e, f)' BY <1>1, <2>1, StoredStays
  <2> QED BY <1>1, <2>2
<1>2. CASE u # t
  <2>1. stack'[u] = stack[u]
    <3>1. CASE Begin(t) BY <1>2, <3>1, BeginEffect
    <3>2. CASE Step(t) BY <1>2, <3>2, OthersStay
    <3>3. CASE Crash(t) BY <1>2, <3>3, CrashEffect DEF Effect, Moves, Turn
    <3> QED BY <3>1, <3>2, <3>3
  <2>2. Storing(u) /\ Logger(u)' = Logger(u) BY <2>1 DEF Storing, Top, Logger
  <2>3. Logger(u) \in Loggers /\ Logger(u) \in Locks BY <2>2, TopFacts DEF Storing, Locks
  <2>4. lock[Logger(u)].owner = u
    <3>1. Logger(u) \in Holds(Top(u)) BY <2>2, HoldsFacts DEF Storing, HeldAt, Logger
    <3> QED BY <2>2, <2>3, <3>1, Owner DEF Storing
  <2>5. stream'[Logger(u)] = stream[Logger(u)]
    <3>1. CASE Abort(t) BY <3>1 DEF Abort
    <3>2. CASE ~Abort(t)
      <4>1. Discreet(t) BY <3>2, StepSane DEF LinesInv, Sane
      <4>2. ~CanTake(t, Logger(u))
        <5>1. u # Free BY LogWriterAssumption
        <5> QED BY <1>2, <2>4, <5>1 DEF CanTake
      <4> QED BY <2>3, <4>1, <4>2 DEF Discreet
    <3> QED BY <3>1, <3>2
  <2>6. Line(u)' = Line(u)
    <3>1. stream'[Logger(u)'] = stream[Logger(u)] BY <2>2, <2>5
    <3> QED BY <2>1, <2>2, <3>1 DEF Line, Top, Crashing
  <2>7. Callback(t) => Line(t).by # Line(u).by
    <3>1. ASSUME NEW v \in Threads, stack[v] # <<>> PROVE Line(v).by.by = v
      <4>1. Len(stack[v]) \in 1 .. Len(stack[v]) /\ Top(v) = stack[v][Len(stack[v])]
        BY <3>1, TopFacts
      <4> QED BY <4>1 DEF NamesInv, Numbered, Line
    <3>2. Callback(t) => stack[t] # <<>> BY DEF Callback, At, Running
    <3> QED BY <1>2, <2>2, <3>1, <3>2 DEF Storing
  <2> QED BY <1>1, <2>2, <2>6, <2>7
<1>3. CASE u = t
  <2>1. Step(t)
    <3>1. ~Begin(t)
      <4>1. Begin(t) => stack'[t] # <<>> /\ Top(t)'.pc = "gate" BY BeginEffect DEF Top, Last
      <4> QED BY <1>3, <4>1 DEF Storing
    <3>2. ~Crash(t)
      <4>1. Crash(t) => Crashes(Top(t)') BY CrashEffect DEF Top, Last
      <4> QED BY <1>3, <4>1 DEF Storing, Crashes
    <3> QED BY <3>1, <3>2
  <2>2. Dispatches(t) BY <1>3, <2>1, StepLate DEF Storing, TopLate, Late
  <2>3. CASE Callback(t) BY <1>3, <2>3, StoredFirst
  <2>4. CASE Roll(t) \/ Undispatch(t)
    <3>1. /\ stack[t] # <<>> /\ Top(t).stmt.op = "write" /\ Top(t).pc \in {"roll", "written"}
          /\ UNCHANGED stream /\ \E pc \in Pcs : Go(t, pc)
      BY <2>4 DEF Roll, Reopen, Undispatch, At, Running, Pcs
    <3>2. Storing(t) BY <3>1 DEF Storing
    <3>3. Line(t)' = Line(t) /\ Logger(t)' = Logger(t) BY <3>1, GoLine
    <3>4. ~Callback(t) BY <3>1 DEF Callback, At
    <3> QED BY <1>1, <1>3, <3>2, <3>3, <3>4
  <2>5. CASE FlushLogger(t)
    <3>1. stack[t] # <<>> /\ Top(t).stmt.op # "write" /\ \E pc : Go(t, pc)
      BY <2>5 DEF FlushLogger, Flushing, Running
    <3> QED BY <1>3, <3>1, GoTop DEF Storing
  <2>6. CASE RollFirst(t)
    <3>1. stack[t] # <<>> /\ Go(t, "callback") BY <2>6 DEF RollFirst, Reopen, At, Running
    <3> QED BY <1>3, <3>1, GoTop DEF Storing
  <2>7. CASE Dispatch(t)
    <3> DEFINE roll == Has("StrictLogFileSizeCheck") /\ TooLarge(FileOf[Logger(t)])
               f == [Top(t) EXCEPT !.first = TRUE, !.msg = IF Top(t).first THEN @ ELSE stream[Logger(t)],
                       !.pc = IF roll THEN "rollfirst" ELSE "callback"]
    <3>1. stack[t] # <<>> /\ Become(t, f) BY <2>7 DEF Dispatch, At, Running
    <3>2. f.pc \in {"rollfirst", "callback"} BY <3>1, TopFacts DEF Frames
    <3> HIDE DEF f
    <3> QED BY <1>3, <3>1, <3>2, BecomeTop DEF Storing
  <2> QED BY <2>2, <2>3, <2>4, <2>5, <2>6, <2>7 DEF Dispatches
<1> QED BY <1>2, <1>3

-----------------------------------------------------------------------------
(* A file that one logger has to itself is open, but while it is rolled.   *)
LEMMA RollingHolds == ASSUME NEW fr, NEW l, Rolling(fr, l) PROVE l \in Holds(fr)
  BY HoldsFacts DEF Rolling, HeldAt

LEMMA RollsOwns ==
  ASSUME StacksInv, LockInv, NEW t \in Threads, NEW l \in Loggers, Rolls(t, l)
  PROVE  lock[l].owner = t /\ Logger(t) = l
<1>1. l \in Locks BY DEF Locks
<1>2. l \in Holds(Top(t)) /\ stack[t] # <<>> /\ Logger(t) = l
  BY RollingHolds DEF Rolls, Rolling, Logger
<1> QED BY <1>1, <1>2, Owner

(* Nobody rolls what a thread may lock, unless it does itself.             *)
LEMMA NobodyRolls ==
  ASSUME StacksInv, LockInv, NEW t \in Threads, NEW l \in Loggers, CanTake(t, l), ~Rolls(t, l)
  PROVE  \A u \in Threads : ~Rolls(u, l)
<1> SUFFICES ASSUME NEW u \in Threads, Rolls(u, l) PROVE FALSE OBVIOUS
<1>1. lock[l].owner = u /\ u # t /\ u # Free BY RollsOwns, LogWriterAssumption
<1> QED BY <1>1 DEF CanTake

(* A roll goes on where it was, and only with opening the file.            *)
LEMMA RollActs ==
  ASSUME NEW t \in Threads, Step(t), Top(t).pc \in {"rollfirst", "roll"}
  PROVE  RollFirst(t) \/ Roll(t) \/ FlushRoll(t)
<1>1. ~(\/ Normal(t) \/ Conditional(t) \/ EveryN(t) \/ AfterN(t) \/ NTimes(t)
        \/ InitializeLogger(t) \/ LoggerMissing(t) \/ Evaluate(t) \/ StreamHead(t)
        \/ StreamTail(t) \/ LogArguments(t) \/ Skip(t) \/ Missed(t) \/ Dispatch(t))
  BY DEF Normal, Conditional, EveryN, AfterN, NTimes, Occasional, Gate, InitializeLogger,
      LoggerMissing, Evaluate, StreamHead, StreamTail, Stream, LogArguments, Skip, Missed,
      Dispatch, At
<1>2. ~(\/ Callback(t) \/ CallbackThrows(t) \/ Undispatch(t) \/ Release(t) \/ Abort(t)
        \/ FlushLogger(t) \/ FlushEnds(t) \/ FlushAll(t) \/ Configure(t) \/ Apply(t)
        \/ RemoveLogger(t) \/ Untracked(t) \/ Checkpoint(t) \/ Report(t) \/ Checked(t)
        \/ logCrashReason(t))
  BY DEF Callback, CallbackThrows, Undispatch, Release, Abort, FlushLogger, Flushing, FlushEnds,
      FlushAll, Configure, Apply, RemoveLogger, Untracked, Checkpoint, Report, Checked,
      logCrashReason, Tracking, At
<1> QED BY <1>1, <1>2 DEF Step

(* One that a crash lies on stays under it.                                *)
LEMMA StuckStays ==
  ASSUME StacksInv, LockInv, NEW t \in Threads, Begin(t) \/ Step(t) \/ Crash(t), NEW l, Stuck(l)
  PROVE  Stuck(l)'
<1> PICK u \in Threads : \E i \in 1 .. Len(stack[u]) - 1 : Rolling(stack[u][i], l) BY DEF Stuck
<1> PICK i \in 1 .. Len(stack[u]) - 1 : Rolling(stack[u][i], l) OBVIOUS
<1>1. SUFFICES i \in 1 .. Len(stack'[u]) - 1 /\ stack'[u][i] = stack[u][i] BY DEF Stuck
<1>2. CASE u # t
  <2>1. CASE Begin(t) BY <1>2, <2>1, BeginEffect
  <2>2. CASE Step(t) BY <1>2, <2>2, OthersStay
  <2>3. CASE Crash(t) BY <1>2, <2>3, CrashEffect DEF Effect, Moves, Turn
  <2> QED BY <2>1, <2>2, <2>3
<1>3. CASE u = t
  <2>1. stack[t] # <<>> /\ Len(stack[t]) \in Nat
    <3>1. stack[t] \in Seq(Frames) BY DEF StacksInv
    <3> QED BY <1>3, <3>1
  <2>2. ~Begin(t) BY <2>1 DEF Begin
  <2>3. CASE Abort(t) BY <1>3, <2>3 DEF Abort
  <2>4. CASE Crash(t)
    <3>1. Len(stack'[t]) = Len(stack[t]) + 1
          /\ \A j \in 1 .. Len(stack[t]) : stack'[t][j] = stack[t][j]
      BY <2>4, CrashEffect
    <3> QED BY <1>3, <2>1, <3>1
  <2>5. CASE Step(t) /\ ~Abort(t)
    <3>1. Shaped(t) BY <2>5, StepShaped
    <3>2. StacksInv'
      <4>1. Effect(t) BY <2>5, StepEffect
      <4> QED BY <4>1, EffectKeeps
    <3>3. ASSUME NEW f, Become(t, f), Advances(Top(t), f)
          PROVE  i \in 1 .. Len(stack'[t]) - 1 /\ stack'[t][i] = stack[t][i]
      <4>1. f \in Frames BY <2>1, <3>2, <3>3, BecomeTop, TopNext
      <4> QED BY <1>3, <2>1, <3>3, <4>1, BecomeStack
    <3>4. ASSUME NEW fr \in Frames, NEW s, Execute(t, fr, s)
          PROVE  i \in 1 .. Len(stack'[t]) - 1 /\ stack'[t][i] = stack[t][i]
      <4> DEFINE f == [fr EXCEPT !.calls = @ + 1]  g == Frame(Within(fr), s)
      <4>1. f \in Frames
        <5>1. fr.calls + 1 \in Nat BY DEF Frames
        <5> QED BY <5>1 DEF Frames
      <4>2. stack' = [stack EXCEPT ![t] = Front(@) \o <<f, g>>] BY <3>4 DEF Execute
      <4> HIDE DEF f, g
      <4>3. g \in Frames
        <5>1. stack'[t] # <<>> /\ Top(t)' = g BY <2>1, <4>2, CoverTop
        <5> QED BY <3>2, <5>1, TopNext
      <4>4. Len(stack'[t]) = Len(stack[t]) + 1
            /\ \A j \in 1 .. Len(stack[t]) - 1 : stack'[t][j] = stack[t][j]
        BY <2>1, <4>1, <4>2, <4>3, CoverStack DEF Covering
      <4> QED BY <1>3, <2>1, <4>4
    <3>5. ASSUME Pop(t), ~Crashes(Top(t))
          PROVE  i \in 1 .. Len(stack'[t]) - 1 /\ stack'[t][i] = stack[t][i]
      <4>1. Len(stack'[t]) = Len(stack[t]) - 1
            /\ \A j \in 1 .. Len(stack[t]) - 1 : stack'[t][j] = stack[t][j]
        BY <2>1, <3>5, PopStack
      <4>2. i + 1 # Len(stack[t])
        <5>1. Crashes(stack[t][i + 1]) \/ stack[t][i].pc \in Waiting
          BY <1>3, <2>1, TopFacts DEF StackOk
        <5>2. stack[t][i].pc \notin Waiting BY <1>3 DEF Rolling, Waiting
        <5>3. Top(t) = stack[t][Len(stack[t])] BY <2>1, TopFacts
        <5> QED BY <3>5, <5>1, <5>2, <5>3
      <4> QED BY <1>3, <2>1, <4>1, <4>2
    <3> QED BY <1>3, <3>1, <3>3, <3>4, <3>5 DEF Shaped
  <2> QED BY <1>3, <2>2, <2>3, <2>4, <2>5
<1> QED BY <1>2, <1>3
(* Flushing neither opens nor closes, closing closes, and opening opens.   *)
LEMMA OpenFacts ==
  ASSUME NEW gl \in FileSet
  PROVE  /\ Flushed(gl) \in FileSet /\ Flushed(gl).open = gl.open /\ Flushed(gl).fail = gl.fail
         /\ gl.open => ~Closed(gl).open
         /\ ~gl.open => Reopened(gl).open /\ ~Reopened(gl).fail
<1>1. Len(gl.text) \in Nat BY DEF FileSet
<1>2. Flushed(gl) \in FileSet /\ Flushed(gl).open = gl.open /\ Flushed(gl).fail = gl.fail
  BY <1>1 DEF FileSet, Flushed
<1>3. gl.open => ~Closed(gl).open BY <1>1 DEF FileSet, Closed
<1>4. ~gl.open => Reopened(gl).open /\ ~Reopened(gl).fail BY DEF Reopened
<1> QED BY <1>2, <1>3, <1>4

(* A file that nothing happens to,                                         *)
LEMMA ReadyStays ==
  ASSUME NEW l \in Loggers, Ready(l), NEW t \in Threads, Rolls(t, l)' <=> Rolls(t, l),
         \A u \in Threads \ {t} : stack'[u] = stack[u],
         file'[FileOf[l]].open = file[FileOf[l]].open, file'[FileOf[l]].fail = file[FileOf[l]].fail
  PROVE  Ready(l)'
<1>1. \A u \in Threads : Rolls(u, l)' <=> Rolls(u, l) BY DEF Rolls, Top
<1>2. (\E u \in Threads : Rolls(u, l)') <=> (\E u \in Threads : Rolls(u, l)) BY <1>1
<1> QED BY <1>2 DEF Ready

(* and one that nobody else rolls.                                         *)
LEMMA ReadyAfter ==
  ASSUME NEW l \in Loggers, NEW t \in Threads, \A u \in Threads \ {t} : stack'[u] = stack[u],
         \A u \in Threads \ {t} : ~Rolls(u, l),
         IF Rolls(t, l)' THEN ~file'[FileOf[l]].open
                         ELSE file'[FileOf[l]].open /\ ~file'[FileOf[l]].fail
  PROVE  Ready(l)'
<1>1. \A u \in Threads \ {t} : ~Rolls(u, l)' BY DEF Rolls, Top
<1>2. (\E u \in Threads : Rolls(u, l)') <=> Rolls(t, l)' BY <1>1
<1> QED BY <1>2 DEF Ready

(* The file is opened again.                                               *)
LEMMA ReopenReady ==
  ASSUME StacksInv, LockInv, FilesInv, NEW t \in Threads, RollFirst(t) \/ Roll(t) \/ FlushRoll(t),
         \A u \in Threads \ {t} : stack'[u] = stack[u],
         NEW l \in Loggers, Alone(l), Ready(l)
  PROVE  Ready(l)'
<1>1. /\ stack[t] # <<>> /\ file' = [file EXCEPT ![FileOf[Logger(t)]] = Reopened(@)]
      /\ \E pc \in {"callback", "written", "flushed"} : Go(t, pc)
      /\ \/ Top(t).stmt.op = "write" /\ Top(t).pc \in {"rollfirst", "roll"}
         \/ Top(t).stmt.op \in {"flush", "configure"} /\ Top(t).pc = "roll"
  BY DEF RollFirst, Roll, FlushRoll, Reopen, At, Running
<1>2. Logger(t) \in Loggers BY <1>1, TopFacts
<1>3. ~Rolls(t, l)'
  <2>1. Top(t)'.pc \in {"callback", "written", "flushed"} BY <1>1, GoTop
  <2> QED BY <2>1 DEF Rolls, Rolling
<1> PICK f \in Files : f = FileOf[l] BY LogWriterAssumption
<1>4. DOMAIN file = Files /\ file[f] \in FileSet BY DEF FilesInv, Sound
<1>5. CASE Logger(t) = l
  <2>1. Rolls(t, l) BY <1>1, <1>5 DEF Rolls, Rolling, Logger
  <2>2. lock[l].owner = t BY <2>1, RollsOwns
  <2>3. \A u \in Threads \ {t} : ~Rolls(u, l) BY <2>2, RollsOwns
  <2>4. ~file[f].open BY <2>1 DEF Ready
  <2>5. file'[f] = Reopened(file[f]) BY <1>1, <1>4, <1>5
  <2>6. file'[f].open /\ ~file'[f].fail BY <1>4, <2>4, <2>5, OpenFacts
  <2> QED BY <1>3, <2>3, <2>6, ReadyAfter
<1>6. CASE Logger(t) # l
  <2>1. ~Rolls(t, l) BY <1>6 DEF Rolls, Rolling, Logger
  <2>2. FileOf[Logger(t)] # f BY <1>2, <1>6 DEF Alone
  <2>3. file'[f] = file[f] BY <1>1, <2>2
  <2> QED BY <1>3, <2>1, <2>3, ReadyStays
<1> QED BY <1>5, <1>6

(* The file is closed, by a thread that may, if that goes on to open it.   *)
LEMMA CloseReady ==
  ASSUME StacksInv, LockInv, FilesInv, NEW t \in Threads, stack[t] # <<>>,
         \A u \in Threads \ {t} : stack'[u] = stack[u],
         NEW fr, Become(t, fr), fr.stmt = Top(t).stmt, fr.at = Top(t).at,
         Top(t).pc \notin {"rollfirst", "roll"}, CanTake(t, Logger(t)),
         NEW gl, file'[FileOf[Logger(t)]] = gl,
         \A e \in Files \ {FileOf[Logger(t)]} : file'[e] = file[e],
         Writes(FileOf[Logger(t)]) =>
           IF Rolling(fr, Logger(t)) THEN ~gl.open ELSE gl.open /\ ~gl.fail,
         NEW l \in Loggers, Alone(l), Ready(l)
  PROVE  Ready(l)'
<1>1. Logger(t) \in Loggers BY TopFacts
<1>2. stack'[t] # <<>> /\ Top(t)' = fr BY BecomeTop
<1>3. ~Rolls(t, l) BY DEF Rolls, Rolling
<1> PICK f \in Files : f = FileOf[l] BY LogWriterAssumption
<1>4. CASE Logger(t) = l
  <2>1. \A u \in Threads : ~Rolls(u, l) BY <1>3, <1>4, NobodyRolls
  <2>2. Writes(f) BY <2>1 DEF Ready, Writes
  <2>3. file'[f] = gl BY <1>4
  <2>4. Rolls(t, l)' <=> Rolling(fr, l) BY <1>2 DEF Rolls
  <2> QED BY <1>4, <2>1, <2>2, <2>3, <2>4, ReadyAfter
<1>5. CASE Logger(t) # l
  <2>1. ~Rolls(t, l)' BY <1>2, <1>5 DEF Rolls, Rolling, Logger
  <2>2. FileOf[Logger(t)] # f BY <1>1, <1>5 DEF Alone
  <2>3. file'[f] = file[f] BY <2>2
  <2> QED BY <1>3, <2>1, <2>3, ReadyStays
<1> QED BY <1>4, <1>5
(* One file changes.                                                       *)
LEMMA OneChanges ==
  ASSUME FilesInv, NEW f \in Files, NEW gl, file' = [file EXCEPT ![f] = gl]
  PROVE  file'[f] = gl /\ \A e \in Files \ {f} : file'[e] = file[e]
<1>1. DOMAIN file = Files BY DEF FilesInv
<1> QED BY <1>1

(* The lock of what the top writes.                                        *)
LEMMA MayTake ==
  ASSUME StacksInv, LockInv, NEW t \in Threads, stack[t] # <<>>, Logger(t) \in Holds(Top(t))
  PROVE  CanTake(t, Logger(t))
<1>1. Logger(t) \in Loggers /\ Logger(t) \in Locks BY TopFacts DEF Locks
<1>2. lock[Logger(t)].owner = t BY <1>1, Owner
<1> QED BY <1>2 DEF CanTake

LEMMA DispatchReady ==
  ASSUME StacksInv, LockInv, FilesInv, NEW t \in Threads, Dispatch(t),
         \A u \in Threads \ {t} : stack'[u] = stack[u],
         NEW l \in Loggers, Alone(l), Ready(l)
  PROVE  Ready(l)'
<1> DEFINE k == Logger(t)  f == FileOf[k]
           roll == Has("StrictLogFileSizeCheck") /\ TooLarge(f)
           g == [Top(t) EXCEPT !.first = TRUE, !.msg = IF Top(t).first THEN @ ELSE stream[k],
                               !.pc = IF roll THEN "rollfirst" ELSE "callback"]
           gl == IF roll THEN Closed(file[f]) ELSE file[f]
<1>1. /\ stack[t] # <<>> /\ Top(t).stmt.op = "write" /\ Top(t).pc = "dispatch" /\ Become(t, g)
      /\ file' = IF roll THEN [file EXCEPT ![f] = Closed(file[f])] ELSE file
  BY DEF Dispatch, At, Running
<1>2. k \in Loggers /\ f \in Files /\ Top(t) \in Frames BY <1>1, TopFacts, LogWriterAssumption
<1>3. g.pc = (IF roll THEN "rollfirst" ELSE "callback") /\ g.stmt = Top(t).stmt /\ g.at = Top(t).at
  <2> HIDE DEF roll
  <2> QED BY <1>2 DEF Frames
<1>4. CanTake(t, k)
  <2>1. k \in Holds(Top(t)) BY <1>1, HoldsFacts DEF HeldAt, Logger
  <2> QED BY <1>1, <2>1, MayTake
<1>5. file'[f] = gl /\ \A e \in Files \ {f} : file'[e] = file[e]
  <2>1. CASE roll
    <3>1. file' = [file EXCEPT ![f] = gl] BY <1>1, <2>1
    <3> HIDE DEF f, gl, roll
    <3> QED BY <1>2, <3>1, OneChanges
  <2>2. CASE ~roll BY <1>1, <2>2
  <2> QED BY <2>1, <2>2
<1>6. Writes(f) => IF Rolling(g, k) THEN ~gl.open ELSE gl.open /\ ~gl.fail
  <2>1. Rolling(g, k) <=> roll
    <3> HIDE DEF g, roll
    <3> QED BY <1>1, <1>3 DEF Rolling, Logger
  <2>2. file[f] \in FileSet BY <1>2 DEF FilesInv, Sound
  <2> HIDE DEF g, roll
  <2>3. CASE roll BY <2>1, <2>2, <2>3, OpenFacts DEF Writes
  <2>4. CASE ~roll BY <2>1, <2>4 DEF Writes
  <2> QED BY <2>3, <2>4
<1> HIDE DEF g, gl, roll
<1> QED BY <1>1, <1>3, <1>4, <1>5, <1>6, CloseReady

LEMMA CallbackReady ==
  ASSUME StacksInv, LockInv, FilesInv, NEW t \in Threads, Callback(t),
         \A u \in Threads \ {t} : stack'[u] = stack[u],
         NEW l \in Loggers, Alone(l), Ready(l)
  PROVE  Ready(l)'
<1>0. /\ stack[t] # <<>> /\ Top(t).stmt.op = "write" /\ Top(t).pc = "callback"
  BY DEF Callback, At, Running
<1> PICK k \in Loggers : k = Logger(t) BY <1>0, TopFacts
<1> PICK f \in Files : f = FileOf[k] BY LogWriterAssumption
<1> PICK e \in LineSet : e = Line(t) BY <1>0, LineOk
<1> DEFINE w == [file[f] EXCEPT !.text = Append(@, e)]
<1>1. file[f] \in FileSet BY DEF FilesInv, Sound
<1>2. w \in FileSet /\ w.open = file[f].open /\ w.fail = file[f].fail
  <2> PICK fl \in FileSet : fl = file[f] BY <1>1
  <2>1. Append(fl.text, e) \in Seq(LineSet) BY DEF FileSet
  <2> QED BY <2>1 DEF FileSet
<1>3. \/ ~Writes(f) /\ file' = file /\ Go(t, "written")
      \/ file' = [file EXCEPT ![f] = Closed(Flushed(w))] /\ Go(t, "roll")
      \/ file' = [file EXCEPT ![f] = Flushed(w)] /\ Go(t, "written")
      \/ file' = [file EXCEPT ![f] = w] /\ Go(t, "written")
  BY DEF Callback
<1> HIDE DEF w
<1> PICK gl : gl = file'[f] OBVIOUS
<1>4. PICK pc \in {"roll", "written"} :
        /\ Go(t, pc)
        /\ \/ ~Writes(f) /\ file' = file
           \/ pc = "roll" /\ file' = [file EXCEPT ![f] = Closed(Flushed(w))]
           \/ pc = "written" /\ file' = [file EXCEPT ![f] = Flushed(w)]
           \/ pc = "written" /\ file' = [file EXCEPT ![f] = w]
  BY <1>3
<1>5. \A d \in Files \ {f} : file'[d] = file[d] BY <1>4, OneChanges
<1> DEFINE g == [Top(t) EXCEPT !.pc = pc]
<1>6. g.pc = pc /\ g.stmt = Top(t).stmt /\ g.at = Top(t).at BY <1>0, TopFacts DEF Frames
<1>7. Become(t, g) BY <1>4 DEF Go
<1>8. CanTake(t, k)
  <2>1. k \in Holds(Top(t)) BY <1>0, HoldsFacts DEF HeldAt, Logger
  <2> QED BY <1>0, <2>1, MayTake
<1> HIDE DEF g
<1>9. Writes(f) => IF Rolling(g, k) THEN ~gl.open ELSE gl.open /\ ~gl.fail
  <2>1. Rolling(g, k) <=> pc = "roll" BY <1>0, <1>6 DEF Rolling, Logger
  <2>2. SUFFICES ASSUME Writes(f) PROVE IF pc = "roll" THEN ~gl.open ELSE gl.open /\ ~gl.fail
    BY <2>1
  <2>3. w.open /\ ~w.fail BY <1>2, <2>2 DEF Writes
  <2>4. Flushed(w) \in FileSet /\ Flushed(w).open /\ ~Flushed(w).fail BY <1>2, <2>3, OpenFacts
  <2>5. ~Closed(Flushed(w)).open BY <2>4, OpenFacts
  <2>6. CASE pc = "roll" /\ file' = [file EXCEPT ![f] = Closed(Flushed(w))]
    <3>1. gl = Closed(Flushed(w)) BY <2>6, OneChanges
    <3> QED BY <2>5, <2>6, <3>1
  <2>7. CASE pc = "written" /\ file' = [file EXCEPT ![f] = Flushed(w)]
    <3>1. gl = Flushed(w) BY <2>7, OneChanges
    <3> QED BY <2>4, <2>7, <3>1
  <2>8. CASE pc = "written" /\ file' = [file EXCEPT ![f] = w]
    <3>1. gl = w BY <2>8, OneChanges
    <3> QED BY <2>3, <2>8, <3>1
  <2> QED BY <1>4, <2>2, <2>6, <2>7, <2>8
<1> QED BY <1>0, <1>5, <1>6, <1>7, <1>8, <1>9, CloseReady

LEMMA FlushReady ==
  ASSUME StacksInv, LockInv, FilesInv, NEW t \in Threads, FlushLogger(t),
         \A u \in Threads \ {t} : stack'[u] = stack[u],
         NEW l \in Loggers, Alone(l), Ready(l)
  PROVE  Ready(l)'
<1>0. /\ stack[t] # <<>> /\ Top(t).stmt.op \in {"flush", "configure"}
      /\ Top(t).pc \in {"gate", "reset"} /\ CanTake(t, Logger(t))
  BY DEF FlushLogger, Flushing, Running
<1> PICK k \in Loggers : k = Logger(t) BY <1>0, TopFacts
<1> PICK f \in Files : f = FileOf[k] BY LogWriterAssumption
<1> PICK fl : fl = Flushed(file[f]) OBVIOUS
<1>1. file[f] \in FileSet BY DEF FilesInv, Sound
<1> PICK gl, pc : /\ file' = [file EXCEPT ![f] = gl] /\ Go(t, pc)
                  /\ (pc = "roll" /\ gl = Closed(fl)) \/ (pc = "flushed" /\ gl = fl)
  <2> DEFINE large == TooLarge(f)  x == IF large THEN Closed(fl) ELSE fl
             y == IF large THEN "roll" ELSE "flushed"
  <2>1. file' = [file EXCEPT ![f] = x] /\ Go(t, y) BY DEF FlushLogger
  <2>2. (y = "roll" /\ x = Closed(fl)) \/ (y = "flushed" /\ x = fl)
    <3> HIDE DEF large
    <3> QED OBVIOUS
  <2> HIDE DEF x, y
  <2> QED BY <2>1, <2>2
<1>2. file'[f] = gl /\ \A d \in Files \ {f} : file'[d] = file[d] BY OneChanges
<1> DEFINE g == [Top(t) EXCEPT !.pc = pc]
<1>3. g.pc = pc /\ g.stmt = Top(t).stmt /\ g.at = Top(t).at BY <1>0, TopFacts DEF Frames
<1>4. Become(t, g) BY DEF Go
<1> HIDE DEF g
<1>5. Writes(f) => IF Rolling(g, k) THEN ~gl.open ELSE gl.open /\ ~gl.fail
  <2>1. Rolling(g, k) <=> pc = "roll" BY <1>0, <1>3 DEF Rolling, Logger
  <2>2. fl \in FileSet /\ fl.open = file[f].open /\ fl.fail = file[f].fail BY <1>1, OpenFacts
  <2>3. fl.open => ~Closed(fl).open BY <2>2, OpenFacts
  <2> QED BY <2>1, <2>2, <2>3 DEF Writes
<1> QED BY <1>0, <1>2, <1>3, <1>4, <1>5, CloseReady
(* A step that opens and closes nothing neither begins a roll nor ends one.*)
LEMMA PlainReady ==
  ASSUME StacksInv, LockInv, FilesInv, NEW t \in Threads, Step(t), ~Abort(t),
         ~(Dispatch(t) \/ Callback(t) \/ FlushLogger(t) \/ RollFirst(t) \/ Roll(t) \/ FlushRoll(t)),
         \A u \in Threads \ {t} : stack'[u] = stack[u],
         NEW l \in Loggers, Ready(l)
  PROVE  Ready(l)'
<1> PICK f \in Files : f = FileOf[l] BY LogWriterAssumption
<1>1. file'[f].open = file[f].open /\ file'[f].fail = file[f].fail
  <2>1. CASE FlushAll(t)
    <3>1. file'[f] = Flushed(file[f]) BY <2>1 DEF FlushAll
    <3>2. file[f] \in FileSet BY DEF FilesInv, Sound
    <3> QED BY <3>1, <3>2, OpenFacts
  <2>2. CASE \/ Normal(t) \/ Conditional(t) \/ EveryN(t) \/ AfterN(t) \/ NTimes(t)
             \/ InitializeLogger(t) \/ LoggerMissing(t) \/ Evaluate(t) \/ StreamHead(t)
             \/ StreamTail(t) \/ LogArguments(t) \/ Skip(t) \/ Missed(t)
    BY <2>2 DEF Normal, Conditional, EveryN, AfterN, NTimes, Occasional, Gate,
        InitializeLogger, LoggerMissing, Evaluate, StreamHead, StreamTail, Stream, LogArguments,
        Skip, Missed
  <2>3. CASE CallbackThrows(t) \/ Undispatch(t) \/ Release(t) \/ FlushEnds(t)
    BY <2>3 DEF CallbackThrows, Undispatch, Release, FlushEnds
  <2>4. CASE \/ Apply(t) \/ Untracked(t) \/ Checkpoint(t) \/ Report(t) \/ Checked(t)
             \/ logCrashReason(t) \/ Configure(t) \/ RemoveLogger(t)
    BY <2>4 DEF Apply, Untracked, Checkpoint, Report, Checked, logCrashReason, Configure,
        RemoveLogger
  <2> QED BY <2>1, <2>2, <2>3, <2>4 DEF Step
<1>2. ~Rolls(t, l) BY RollActs DEF Rolls, Rolling
<1>3. ~Rolls(t, l)'
  <2> SUFFICES ASSUME Rolls(t, l)' PROVE FALSE OBVIOUS
  <2>1. TopLate(t)' /\ Top(t)'.pc \in {"rollfirst", "roll"} BY DEF Rolls, Rolling, TopLate, Late
  <2>2. Undispatch(t) BY <2>1, StepLate DEF Dispatches
  <2>3. stack[t] # <<>> /\ Go(t, "release") BY <2>2 DEF Undispatch, At, Running
  <2> QED BY <2>1, <2>3, GoTop
<1> QED BY <1>1, <1>2, <1>3, ReadyStays

(* Every step leaves it ready, but a crash within a roll.                  *)
LEMMA ReadyKept ==
  ASSUME StacksInv, LockInv, FilesInv, NEW t \in Threads, Begin(t) \/ Step(t) \/ Crash(t),
         NEW l \in Loggers, Alone(l), Ready(l)
  PROVE  Stuck(l)' \/ Ready(l)'
<1>1. \A u \in Threads \ {t} : stack'[u] = stack[u]
  <2>1. CASE Begin(t) BY <2>1, BeginEffect
  <2>2. CASE Step(t) BY <2>2, OthersStay
  <2>3. CASE Crash(t) BY <2>3, CrashEffect DEF Effect, Moves, Turn
  <2> QED BY <2>1, <2>2, <2>3
<1>2. CASE Begin(t)
  <2>1. stack[t] = <<>> /\ UNCHANGED file BY <1>2 DEF Begin
  <2>2. Top(t)'.pc = "gate" BY <1>2, BeginEffect DEF Top, Last
  <2>3. ~Rolls(t, l) /\ ~Rolls(t, l)' BY <2>1, <2>2 DEF Rolls, Rolling
  <2> QED BY <1>1, <2>1, <2>3, ReadyStays
<1>3. CASE Crash(t)
  <2> PICK k \in Nat \ {0} : k = Len(stack[t]) BY <1>3, TopFacts, CrashEffect
  <2>1. /\ UNCHANGED file /\ stack[t] # <<>> /\ Top(t) = stack[t][k] /\ Len(stack'[t]) = k + 1
        /\ stack'[t][k] = stack[t][k] /\ Crashes(stack'[t][k + 1])
    <3>1. UNCHANGED file BY <1>3 DEF Crash
    <3>2. /\ stack[t] # <<>> /\ Len(stack'[t]) = k + 1 /\ Crashes(stack'[t][k + 1])
          /\ \A i \in 1 .. k : stack'[t][i] = stack[t][i]
      BY <1>3, CrashEffect
    <3>3. k \in 1 .. k OBVIOUS
    <3> QED BY <3>1, <3>2, <3>3, TopFacts
  <2>2. ~Rolls(t, l)'
    <3>1. Crashes(Top(t)') BY <2>1 DEF Top, Last
    <3> QED BY <3>1 DEF Rolls, Rolling, Crashes
  <2>3. CASE Rolls(t, l)
    <3>1. k \in 1 .. Len(stack'[t]) - 1 /\ Rolling(stack'[t][k], l) BY <2>1, <2>3 DEF Rolls
    <3> QED BY <3>1 DEF Stuck
  <2>4. CASE ~Rolls(t, l) BY <1>1, <2>1, <2>2, <2>4, ReadyStays
  <2> QED BY <2>3, <2>4
<1>4. CASE Abort(t)
  <2>1. stack' = stack /\ file' = file BY <1>4 DEF Abort
  <2>2. Rolls(t, l)' <=> Rolls(t, l) BY <2>1 DEF Rolls, Top
  <2> QED BY <1>1, <2>1, <2>2, ReadyStays
<1>5. CASE Dispatch(t) BY <1>1, <1>5, DispatchReady
<1>6. CASE Callback(t) BY <1>1, <1>6, CallbackReady
<1>7. CASE FlushLogger(t) BY <1>1, <1>7, FlushReady
<1>8. CASE RollFirst(t) \/ Roll(t) \/ FlushRoll(t) BY <1>1, <1>8, ReopenReady
<1>9. CASE /\ Step(t) /\ ~Abort(t)
           /\ ~(Dispatch(t) \/ Callback(t) \/ FlushLogger(t) \/ RollFirst(t) \/ Roll(t) \/ FlushRoll(t))
  BY <1>1, <1>9, PlainReady
<1> QED BY <1>2, <1>3, <1>4, <1>5, <1>6, <1>7, <1>8, <1>9

(* A line is refused where the thread has crashed within a roll.           *)
LEMMA LostExcused ==
  ASSUME StacksInv, LockInv, RefusedInv, NEW t \in Threads, Callback(t),
         Alone(Logger(t)), ~Writes(FileOf[Logger(t)])
  PROVE  Crashing(t)
<1>0. stack[t] # <<>> /\ Top(t).stmt.op = "write" /\ Top(t).pc = "callback"
  BY DEF Callback, At, Running
<1> PICK l \in Loggers : l = Logger(t) BY <1>0, TopFacts
<1>1. l \in Holds(Top(t)) /\ l \in Locks BY <1>0, HoldsFacts DEF HeldAt, Logger, Locks
<1>2. lock[l].owner = t /\ CanTake(t, l) BY <1>0, <1>1, Owner, MayTake
<1>3. ~Rolls(t, l) BY <1>0 DEF Rolls, Rolling
<1>4. ~Ready(l)
  <2>1. \A u \in Threads : ~Rolls(u, l) BY <1>2, <1>3, NobodyRolls
  <2> QED BY <2>1 DEF Ready, Writes
<1>5. Stuck(l) BY <1>4 DEF RefusedInv
<1> PICK u \in Threads : \E i \in 1 .. Len(stack[u]) - 1 : Rolling(stack[u][i], l)
  BY <1>5 DEF Stuck
<1> PICK i \in 1 .. Len(stack[u]) - 1 : Rolling(stack[u][i], l) OBVIOUS
<1>6. stack[u] \in Seq(Frames) /\ StackOk(stack[u]) /\ Len(stack[u]) \in Nat BY DEF StacksInv
<1>7. u = t
  <2>1. i \in 1 .. Len(stack[u]) BY <1>6
  <2> QED BY <1>1, <1>2, <2>1, RollingHolds, HeldOwner
<1>8. Crashes(stack[t][i + 1])
  <2>1. Crashes(stack[u][i + 1]) \/ stack[u][i].pc \in Waiting BY <1>6 DEF StackOk
  <2> QED BY <1>7, <2>1 DEF Rolling, Waiting
<1>9. i + 1 \in DOMAIN stack[t] BY <1>6, <1>7
<1> QED BY <1>8, <1>9 DEF Crashing, Crashes

LEMMA RefusedKept ==
  ASSUME StacksInv, LockInv, FilesInv, RefusedInv, NEW t \in Threads,
         Begin(t) \/ Step(t) \/ Crash(t)
  PROVE  RefusedInv'
<1>1. ASSUME NEW l \in Loggers, Alone(l) PROVE Stuck(l)' \/ Ready(l)'
  BY <1>1, StuckStays, ReadyKept DEF RefusedInv
<1>2. ASSUME NEW e \in lost' PROVE e.crashed \/ ~Alone(e.to)
  <2>1. CASE e \in lost BY <2>1 DEF RefusedInv
  <2>2. CASE e \notin lost
    <3>1. Callback(t) BY <2>2, LostStays
    <3>2. e = Line(t) /\ ~Writes(FileOf[Logger(t)]) BY <2>2, <3>1 DEF Callback
    <3>3. e.to = Logger(t) /\ e.crashed = Crashing(t) BY <3>2 DEF Line
    <3> QED BY <3>1, <3>2, <3>3, LostExcused
  <2> QED BY <2>1, <2>2
<1> QED BY <1>1, <1>2 DEF RefusedInv, Alone
LEMMA OnceKept ==
  StacksInv /\ LockInv /\ FilesInv /\ LinesInv /\ OnceInv /\ [Next]_vars => OnceInv'
<1> SUFFICES ASSUME StacksInv, LockInv, FilesInv, LinesInv, NamesInv, StoredInv, RefusedInv,
                    [Next]_vars
             PROVE  OnceInv'
  BY DEF OnceInv
<1>1. CASE UNCHANGED vars
  <2>1. UNCHANGED <<stack, started, stream, file, lost>> BY <1>1 DEF vars
  <2>2. NamesInv' BY <2>1 DEF NamesInv, Recorded, Lines
  <2>3. StoredInv'
    <3> SUFFICES ASSUME NEW t \in Threads, Storing(t)' PROVE Stored(Line(t), FileOf[Logger(t)])'
      BY DEF StoredInv
    <3>1. Storing(t) /\ Line(t)' = Line(t) /\ Logger(t)' = Logger(t)
      BY <2>1 DEF Storing, Line, Logger, Crashing, Top
    <3> PICK e, f : e = Line(t) /\ f = FileOf[Logger(t)] OBVIOUS
    <3>2. Stored(e, f) BY <3>1 DEF StoredInv
    <3>3. Stored(e, f)' BY <2>1, <3>2 DEF Stored, Copies, Lines
    <3> QED BY <3>1, <3>3
  <2>4. RefusedInv' BY <2>1 DEF RefusedInv, Stuck, Ready, Rolls, Top
  <2> QED BY <2>2, <2>3, <2>4 DEF OnceInv
<1>2. ASSUME NEW t \in Threads, Begin(t) \/ Step(t) \/ Crash(t) PROVE OnceInv'
  <2>1. StacksInv' BY StacksKept
  <2> QED BY <1>2, <2>1, NamesKept, StoredKept, RefusedKept DEF OnceInv
<1> QED BY <1>1, <1>2 DEF Next

(* Nothing is being written at first, and every file is open.              *)
LEMMA OnceFirst == Init => OnceInv
<1> SUFFICES ASSUME Init PROVE OnceInv OBVIOUS
<1>1. /\ \A t \in Threads : stack[t] = <<>>
      /\ lost = {}
      /\ \A f \in Files : file[f].open /\ ~file[f].fail /\ Lines(f) = <<>> \o <<>>
  BY DEF Init, Lines
<1>2. Recorded = {}
  <2>1. DOMAIN (<<>> \o <<>>) = {} OBVIOUS
  <2> QED BY <1>1, <2>1 DEF Recorded, Range
<1>3. NamesInv
  <2>1. \A t \in Threads : Len(stack[t]) = 0 BY <1>1
  <2>2. \A t \in Threads : Numbered(stack[t], t, started[t]) BY <2>1 DEF Numbered
  <2> QED BY <1>2, <2>2 DEF NamesInv
<1>4. StoredInv BY <1>1 DEF StoredInv, Storing
<1>5. RefusedInv
  <2>1. \A l \in Loggers : FileOf[l] \in Files BY LogWriterAssumption
  <2> QED BY <1>1, <2>1 DEF RefusedInv, Ready, Rolls
<1> QED BY <1>3, <1>4, <1>5 DEF OnceInv

LEMMA OnceFollows == OnceInv => WrittenOnce
<1> SUFFICES ASSUME OnceInv PROVE WrittenOnce OBVIOUS
<1>1. ASSUME NEW t \in Threads, At(t, {"write"}, "release")
      PROVE  Stored(Line(t), FileOf[Logger(t)])
  BY <1>1 DEF OnceInv, StoredInv, Storing, At, Running
<1>2. \A e \in lost : e.crashed \/ \E l \in Loggers \ {e.to} : FileOf[l] = FileOf[e.to]
  BY DEF OnceInv, RefusedInv, Alone
<1> QED BY <1>1, <1>2 DEF WrittenOnce, Stored, Copies

(* A statement that has been dispatched to a logger is in that logger's    *)
(* file exactly once, whoever else writes, flushes and rolls it, and a     *)
(* crash or a statement that writes within another does not write it       *)
(* again; or the stream refused it, which happens only where loggers share *)
(* a file or where a crash interrupted a roll (DefaultLogDispatchCallback, *)
(* Logger::flush, LogDispatcher::dispatch).                                *)
THEOREM LinesWrittenOnce == Spec => []WrittenOnce
<1>1. Init => StacksInv /\ LockInv /\ FilesInv /\ LinesInv /\ OnceInv
  BY StacksFirst, FilesFirst, LinesFirst, OnceFirst
<1>2. StacksInv /\ LockInv /\ FilesInv /\ LinesInv /\ OnceInv /\ [Next]_vars =>
        (StacksInv /\ LockInv /\ FilesInv /\ LinesInv /\ OnceInv)'
  BY StacksKept, FilesKept, LinesKept, OnceKept
<1>3. OnceInv => WrittenOnce BY OnceFollows
<1> QED BY <1>1, <1>2, <1>3, PTL DEF Spec
=============================================================================
