------------------------ MODULE NetworkClientProofs ------------------------
(***************************************************************************)
(* One NetworkClient repeats a payload for a throwing handler only, and    *)
(* ends every send as SendOutcomes promises its callers, whatever faults   *)
(* the network and the server may have and however many sends are made.    *)
(***************************************************************************)
EXTENDS NetworkClient, TLAPS

(* The handler was called again after a call of it, with an error: it had  *)
(* thrown.                                                                 *)
Rethrown == \E i \in 1..Len(calls) - 1 : calls[i + 1] = "error"

TypeOK ==
  /\ pc \in {"fresh", "idle", "write", "read", "handler", "handlerAgain", "caught",
             "reconnect"} \cup Final
  /\ open \in BOOLEAN /\ m_connected \in BOOLEAN /\ retry \in BOOLEAN
  /\ calls \in Seq({"reply", "error"}) /\ text \in {"timeout", "other"}
  /\ arrived \in Nat /\ spent \in Nat

(* A payload goes out with none of its kind at the server, or after the    *)
(* handler threw.                                                          *)
NotRepeated ==
  /\ arrived <= 1 \/ Rethrown
  /\ pc \in {"write", "read", "caught", "reconnect"} =>
       (calls = <<>> /\ arrived = 0) \/ Rethrown
  /\ pc = "handler" => calls # <<>>
  /\ pc = "handlerAgain" => Rethrown

(* What the attempts before this one have cost: the one retry is there for *)
(* a timed-out write.                                                      *)
Base == IF retry THEN 0 ELSE 1

TextFault(timeout, other) == IF text = "timeout" THEN timeout ELSE other

(* How a send whose handler has not thrown stands on its way to an outcome. *)
OnTheWay ==
  /\ pc \in {"write", "read"} =>
       calls = <<>> /\ arrived = 0 /\ connected /\ spent = Base
  /\ pc = "caught" =>
       /\ calls = <<>> /\ arrived = 0 /\ connected /\ spent = Base + 1
       /\ TextFault("writetimeout", "writeerr") \in Faults
  /\ pc = "reconnect" =>
       /\ calls = <<>> /\ arrived = 0 /\ retry /\ spent = 1
       /\ "writetimeout" \in Faults
  /\ pc = "handler" =>
       /\ Len(calls) = 1 /\ connected
       /\ \/ calls[1] = "reply" /\ arrived = 1 /\ spent = Base
          \/ /\ calls[1] = "error" /\ arrived \in {0, 1} /\ spent = Base + 1
             /\ TextFault("readtimeout", "readerr") \in Faults
  /\ pc \notin {"fresh", "idle", "handlerAgain"} \cup Final =>
       retry \/ "writetimeout" \in Faults
  /\ pc # "handlerAgain"

IInv ==
  /\ TypeOK /\ NotRepeated
  /\ Len(calls) <= 1 => OnTheWay
  /\ EndsAsPromised

-----------------------------------------------------------------------------
LEMMA AppendCalls ==
  ASSUME TypeOK, NEW c \in {"reply", "error"}
  PROVE  /\ Append(calls, c) \in Seq({"reply", "error"})
         /\ Len(Append(calls, c)) = Len(calls) + 1
         /\ \A i \in 1..Len(calls) : Append(calls, c)[i] = calls[i]
         /\ Append(calls, c)[Len(calls) + 1] = c
         /\ Append(calls, c) # <<>>
         /\ Len(calls) \in Nat /\ (calls = <<>> <=> Len(calls) = 0)
BY DEF TypeOK

(* The handler's second call leaves its trace, which stays.                *)
LEMMA RethrownAppend ==
  ASSUME TypeOK, NEW c \in {"reply", "error"}, calls' = Append(calls, c),
         Rethrown \/ (calls # <<>> /\ c = "error")
  PROVE  Rethrown'
<1>1. CASE Rethrown
  <2>1. PICK i \in 1..Len(calls) - 1 : calls[i + 1] = "error"
    BY <1>1 DEF Rethrown
  <2>2. i \in 1..Len(calls') - 1 /\ calls'[i + 1] = "error"
    BY <2>1, AppendCalls
  <2> QED BY <2>2 DEF Rethrown
<1>2. CASE calls # <<>> /\ c = "error"
  <2>1. Len(calls) \in 1..Len(calls') - 1 /\ calls'[Len(calls) + 1] = "error"
    BY <1>2, AppendCalls
  <2> QED BY <2>1 DEF Rethrown
<1> QED BY <1>1, <1>2

(* The last attempt, or the first one unless it timed out writing, ends in *)
(* an outcome of the whole send.                                           *)
LEMMA AttemptPromised ==
  ASSUME TypeOK, retry \/ "writetimeout" \in Faults,
         NEW how, NEW up, NEW copies,
         NEW cost, Outcome(how, up, copies, cost) \in LastOutcomes(Base),
         retry => how # "timeout"
  PROVE  Outcome(how, up, copies, cost) \in SendOutcomes(TRUE, TRUE)
<1>1. Outcome(how, up, copies, cost).how = how
  BY DEF Outcome
<1> QED BY <1>1 DEF Base, SendOutcomes, RetryOutcomes

(* How a send that is over ended, and that it was as promised.             *)
LEMMA Promised ==
  ASSUME NEW how, NEW up, How' = how, connected' = up,
         Outcome(how, up, arrived', spent') \in SendOutcomes(TRUE, TRUE)
  PROVE  EndsAsPromised'
BY DEF EndsAsPromised

LEMMA NoCalls == <<>> \in Seq({"reply", "error"}) /\ Len(<<>>) = 0
OBVIOUS

LEMMA InitInv == Init => IInv
<1> SUFFICES ASSUME Init PROVE IInv
  OBVIOUS
<1>1. TypeOK
  <2>1. pc = "fresh" /\ open = FALSE /\ m_connected = FALSE /\ retry = TRUE
        /\ text = "other" /\ arrived = 0 /\ spent = 0
    BY DEF Init
  <2>2. calls \in Seq({"reply", "error"})
    BY NoCalls DEF Init
  <2> QED BY <2>1, <2>2 DEF TypeOK
<1>2. NotRepeated /\ EndsAsPromised /\ OnTheWay
  BY DEF Init, NotRepeated, EndsAsPromised, OnTheWay, Final
<1> QED BY <1>1, <1>2 DEF IInv

LEMMA StepType ==
  ASSUME TypeOK, [Next]_vars
  PROVE  TypeOK'
<1>1. calls' \in Seq({"reply", "error"})
  BY AppendCalls, NoCalls DEF TypeOK, Next, vars, connect, send, write, readReply, readEof,
     readError, handlerReturns, handlerThrows, handlerThrowsAgain, caught, reconnect, finish
<1>2. /\ pc' \in {"fresh", "idle", "write", "read", "handler", "handlerAgain", "caught",
                  "reconnect"} \cup Final
      /\ text' \in {"timeout", "other"}
  BY DEF TypeOK, Next, vars, connect, send, write, readReply, readEof,
     readError, handlerReturns, handlerThrows, handlerThrowsAgain, caught, reconnect, finish,
     Final
<1>3. arrived' \in {0, arrived, arrived + 1} /\ spent' \in {0, spent, spent + 1}
  BY DEF Next, vars, connect, send, write, readReply, readEof,
     readError, handlerReturns, handlerThrows, handlerThrowsAgain, caught, reconnect, finish
<1>4. open' \in BOOLEAN /\ m_connected' \in BOOLEAN /\ retry' \in BOOLEAN
  BY DEF TypeOK, Next, vars, connect, send, write, readReply, readEof,
     readError, handlerReturns, handlerThrows, handlerThrowsAgain, caught, reconnect, finish
<1> QED BY <1>1, <1>2, <1>3, <1>4 DEF TypeOK

LEMMA StepNotRepeated ==
  ASSUME TypeOK, NotRepeated, [Next]_vars
  PROVE  NotRepeated'
<1> USE DEF NotRepeated, TypeOK
<1>1. CASE UNCHANGED calls
  <2>1. Rethrown' <=> Rethrown
    BY <1>1 DEF Rethrown
  <2>2. CASE connect \/ write \/ readEof \/ handlerReturns \/ finish \/ UNCHANGED vars
    BY <1>1, <2>1, <2>2 DEF connect, write, readEof, handlerReturns, finish, vars, Final
  <2>3. CASE handlerThrowsAgain \/ caught \/ reconnect
    BY <1>1, <2>1, <2>3 DEF handlerThrowsAgain, caught, reconnect
  <2>4. CASE send
    BY <1>1, <2>1, <2>4 DEF send
  <2>5. CASE readReply \/ readError \/ handlerThrows
    BY <1>1, <2>5, AppendCalls DEF readReply, readError, handlerThrows
  <2> QED BY <2>2, <2>3, <2>4, <2>5 DEF Next
<1>2. CASE send
  BY <1>2 DEF send
<1>3. CASE readReply \/ readError
  <2>1. /\ pc = "read" /\ pc' = "handler" /\ arrived' \in {arrived, arrived + 1}
        /\ \E c \in {"reply", "error"} : calls' = Append(calls, c)
    BY <1>3 DEF readReply, readError
  <2>2. Rethrown => Rethrown'
    BY <2>1, RethrownAppend
  <2> QED BY <2>1, <2>2, AppendCalls
<1>4. CASE handlerThrows
  <2>1. pc' = "handlerAgain" /\ Rethrown' /\ UNCHANGED arrived
    BY <1>4, RethrownAppend DEF handlerThrows
  <2> QED BY <2>1
<1> QED BY <1>1, <1>2, <1>3, <1>4
        DEF Next, connect, write, readEof, handlerReturns, handlerThrowsAgain, caught,
            reconnect, finish, vars

(* The outcomes of one attempt. *)
LEMMA Attempts ==
  ASSUME NEW cost
  PROVE  /\ Outcome("reply", TRUE, 1, cost) \in LastOutcomes(cost)
         /\ \A c \in {0, 1} :
              /\ "eof" \in Faults => Outcome("eof", FALSE, c, cost + 1) \in LastOutcomes(cost)
              /\ \A f \in {"readerr", "readtimeout"} \cap Faults :
                   Outcome(f, TRUE, c, cost + 1) \in LastOutcomes(cost)
         /\ "writetimeout" \in Faults =>
              Outcome("timeout", TRUE, 0, cost + 1) \in LastOutcomes(cost)
         /\ "writeerr" \in Faults =>
              Outcome("throw", TRUE, 0, cost + 1) \in LastOutcomes(cost)
<1>1. ASSUME NEW c \in {0, 1}, NEW f \in ReadFaults
      PROVE  Outcome(f, f # "eof", c, cost + 1) \in LastOutcomes(cost)
  <2> DEFINE o == Outcome(f, f # "eof", c, cost + 1)
             failed == {Outcome(g, g # "eof", d, cost + 1) : g \in ReadFaults, d \in {0, 1}}
  <2>1. o \in failed
    OBVIOUS
  <2>2. ReadOutcomes(cost) = {Outcome("reply", TRUE, 1, cost)} \cup failed
    BY DEF ReadOutcomes
  <2> HIDE DEF o, failed
  <2>3. o \in LastOutcomes(cost)
    BY <2>1, <2>2 DEF LastOutcomes
  <2> QED BY <2>3 DEF o
<1>2. ASSUME NEW f \in WriteFaults
      PROVE  Outcome(IF f = "writetimeout" THEN "timeout" ELSE "throw", TRUE, 0, cost + 1)
               \in LastOutcomes(cost)
  BY DEF LastOutcomes, WriteOutcomes
<1>3. ASSUME NEW c \in {0, 1}, "eof" \in Faults
      PROVE  Outcome("eof", FALSE, c, cost + 1) \in LastOutcomes(cost)
  <2>1. "eof" \in ReadFaults /\ ("eof" # "eof") = FALSE
    BY <1>3 DEF ReadFaults
  <2> QED BY <1>1, <2>1 DEF Outcome
<1>4. ASSUME NEW c \in {0, 1}, NEW f \in {"readerr", "readtimeout"} \cap Faults
      PROVE  Outcome(f, TRUE, c, cost + 1) \in LastOutcomes(cost)
  <2>1. f \in ReadFaults /\ (f # "eof") = TRUE
    BY DEF ReadFaults
  <2> QED BY <1>1, <2>1 DEF Outcome
<1>5. Outcome("reply", TRUE, 1, cost) \in LastOutcomes(cost)
  <2> DEFINE o == Outcome("reply", TRUE, 1, cost)
             failed == {Outcome(g, g # "eof", d, cost + 1) : g \in ReadFaults, d \in {0, 1}}
  <2>1. ReadOutcomes(cost) = {o} \cup failed
    BY DEF ReadOutcomes
  <2> HIDE DEF o, failed
  <2>2. o \in LastOutcomes(cost)
    BY <2>1 DEF LastOutcomes
  <2> QED BY <2>2 DEF o
<1>6. "writetimeout" \in Faults => Outcome("timeout", TRUE, 0, cost + 1) \in LastOutcomes(cost)
  <2>1. "writetimeout" \in Faults => "writetimeout" \in WriteFaults
    BY DEF WriteFaults
  <2> QED BY <1>2, <2>1
<1>7. "writeerr" \in Faults => Outcome("throw", TRUE, 0, cost + 1) \in LastOutcomes(cost)
  <2>1. "writeerr" \in Faults => "writeerr" \in WriteFaults /\ "writeerr" # "writetimeout"
    BY DEF WriteFaults
  <2> QED BY <1>2, <2>1
<1> QED BY <1>3, <1>4, <1>5, <1>6, <1>7

(* The handler calls of a send only grow. *)
LEMMA CallsGrow ==
  ASSUME TypeOK, [Next]_vars, Len(calls') <= 1, ~send
  PROVE  Len(calls) <= 1
<1>1. calls' = calls \/ \E c \in {"reply", "error"} : calls' = Append(calls, c)
  BY DEF Next, vars, connect, write, readReply, readEof, readError, handlerReturns,
     handlerThrows, handlerThrowsAgain, caught, reconnect, finish
<1> QED BY <1>1, AppendCalls

LEMMA StepOnTheWay ==
  ASSUME TypeOK, TypeOK', NotRepeated, Len(calls) <= 1 => OnTheWay, [Next]_vars,
         Len(calls') <= 1
  PROVE  OnTheWay'
<1>1. CASE send
  BY <1>1 DEF send, OnTheWay, connected, Base, Final
<1>2. CASE ~send
  <2>1. OnTheWay
    BY <1>2, CallsGrow
  <2>2. CASE connect \/ readEof \/ handlerReturns \/ finish \/ UNCHANGED vars
    BY <2>1, <2>2 DEF connect, readEof, handlerReturns, finish, vars, OnTheWay, connected,
       Base, TextFault, Final
  <2>3. CASE write
    BY <2>1, <2>3 DEF write, OnTheWay, connected, Base, TextFault, WriteFaults, Final
  <2>4. CASE readReply \/ readError
    <3>0. calls = <<>>
      BY <2>1, <2>4 DEF readReply, readError, OnTheWay
    <3>1. Len(calls') = 1
      BY <2>4, <3>0 DEF readReply, readError
    <3>2. calls'[1] = IF readReply THEN "reply" ELSE "error"
      BY <2>4, <3>0 DEF readReply, readError
    <3> QED BY <2>1, <2>4, <3>0, <3>1, <3>2 DEF readReply, readError, OnTheWay, connected,
            Base, TextFault, ReadFaults, Final, TypeOK
  <2>5. CASE handlerThrows \/ handlerThrowsAgain
    <3>1. handlerThrows /\ Len(calls) = 1
      BY <2>1, <2>5 DEF handlerThrows, handlerThrowsAgain, OnTheWay
    <3> QED BY <3>1, AppendCalls DEF handlerThrows
  <2>6. CASE caught
    <3>1. CASE retry /\ text = "timeout"
      BY <2>1, <2>6, <3>1 DEF caught, OnTheWay, Base, TextFault, Final
    <3>2. CASE ~(retry /\ text = "timeout")
      BY <2>1, <2>6, <3>2 DEF caught, OnTheWay, Final
    <3> QED BY <3>1, <3>2
  <2>7. CASE reconnect
    BY <2>1, <2>7 DEF reconnect, OnTheWay, connected, Base, TextFault, Final
  <2> QED BY <1>2, <2>2, <2>3, <2>4, <2>5, <2>6, <2>7 DEF Next
<1> QED BY <1>1, <1>2

LEMMA StepPromised ==
  ASSUME TypeOK, TypeOK', NotRepeated, Len(calls) <= 1 => OnTheWay, EndsAsPromised,
         [Next]_vars
  PROVE  EndsAsPromised'
<1> SUFFICES ASSUME pc' \in Final, Len(calls') <= 1
             PROVE  EndsAsPromised'
  BY DEF EndsAsPromised
<1>1. CASE UNCHANGED vars
  BY <1>1 DEF vars, EndsAsPromised, How, connected
<1>2. CASE send
  <2>1. /\ connected' = FALSE /\ calls' = <<>> /\ arrived' = 0 /\ spent' = 0
        /\ pc' = "returned"
    BY <1>2 DEF send, Final, connected
  <2>2. How' = "silent"
    BY <2>1 DEF How
  <2>3. Outcome("silent", FALSE, 0, 0) \in SendOutcomes(FALSE, TRUE)
    BY DEF SendOutcomes
  <2>4. Outcome(How', connected', arrived', spent') \in SendOutcomes(FALSE, TRUE)
    BY <2>1, <2>2, <2>3
  <2> QED BY <2>4 DEF EndsAsPromised
<1>3. CASE ~send /\ Next
  <2>1. OnTheWay /\ Base \in Nat
    BY <1>3, CallsGrow DEF Base
  <2>2. CASE readEof
    <3>1. /\ How' = "eof" /\ connected' = FALSE /\ arrived' \in {0, 1}
          /\ spent' = Base + 1 /\ "eof" \in Faults /\ UNCHANGED retry
          /\ retry \/ "writetimeout" \in Faults
      BY <2>1, <2>2 DEF readEof, OnTheWay, How, connected, Final
    <3>2. Outcome("eof", FALSE, arrived', spent') \in SendOutcomes(TRUE, TRUE)
      BY <3>1, Attempts, AttemptPromised
    <3> QED BY <3>1, <3>2, Promised
  <2>3. CASE handlerReturns
    <3>1. /\ pc = "handler" /\ pc' = "returned"
          /\ UNCHANGED <<calls, text, arrived, spent, retry, open, m_connected>>
          /\ Len(calls) = 1 /\ calls' # <<>> /\ Len(calls') = 1
          /\ connected' = TRUE /\ (retry \/ "writetimeout" \in Faults)
      BY <2>1, <2>3 DEF handlerReturns, OnTheWay, NotRepeated, connected, Final
    <3>2. CASE calls[1] = "reply" /\ arrived = 1 /\ spent = Base
      <4>1. How' = "reply"
        BY <3>1, <3>2 DEF How
      <4>2. Outcome("reply", TRUE, arrived', spent') \in SendOutcomes(TRUE, TRUE)
        BY <3>1, <3>2, Attempts, AttemptPromised
      <4> QED BY <3>1, <4>1, <4>2, Promised
    <3>3. CASE /\ calls[1] = "error" /\ arrived \in {0, 1} /\ spent = Base + 1
               /\ TextFault("readtimeout", "readerr") \in Faults
      <4>1. How' = TextFault("readtimeout", "readerr")
        BY <3>1, <3>3 DEF How, TextFault
      <4>2. Outcome(How', TRUE, arrived', spent') \in SendOutcomes(TRUE, TRUE)
        <5>1. How' \in {"readerr", "readtimeout"} \cap Faults
          BY <3>3, <4>1 DEF TextFault
        <5>2. Outcome(How', TRUE, arrived, Base + 1) \in LastOutcomes(Base)
          BY <3>3, <5>1, Attempts
        <5> QED BY <3>1, <3>3, <5>1, <5>2, AttemptPromised
      <4> QED BY <3>1, <4>2, Promised
    <3> QED BY <2>1, <3>1, <3>2, <3>3 DEF OnTheWay
  <2>4. CASE caught
    <3>1. /\ pc' = "thrown" /\ UNCHANGED <<retry, calls, text, arrived, spent>>
          /\ connected' = TRUE /\ arrived = 0 /\ spent = Base + 1
          /\ TextFault("writetimeout", "writeerr") \in Faults
          /\ retry => text # "timeout"
          /\ retry \/ "writetimeout" \in Faults
      BY <2>1, <2>4 DEF caught, OnTheWay, connected, Final
    <3>2. How' = TextFault("timeout", "throw")
      BY <3>1 DEF How, TextFault
    <3>3. Outcome(How', TRUE, 0, Base + 1) \in LastOutcomes(Base)
      BY <3>1, <3>2, Attempts DEF TextFault
    <3>4. Outcome(How', TRUE, 0, Base + 1) \in SendOutcomes(TRUE, TRUE)
      BY <3>1, <3>2, <3>3, AttemptPromised DEF TextFault
    <3> QED BY <3>1, <3>4, Promised
  <2>5. CASE reconnect
    <3>0. /\ pc = "reconnect" /\ arrived' = 0 /\ spent = 1
          /\ "writetimeout" \in Faults
      BY <2>1, <2>5 DEF reconnect, OnTheWay
    <3>1. PICK c \in ConnectFaults :
            /\ m_connected' = FALSE /\ spent' = spent + 1
            /\ pc' = IF c = "refuse" THEN "thrown" ELSE "system"
      BY <2>5 DEF reconnect, ConnectOutcomes, Final, ConnectFaults
    <3>2. connected' = FALSE
      BY <3>1 DEF connected, TypeOK
    <3>3. How' \in (IF "refuse" \in Faults THEN {"throw", "timeout"} ELSE {}) \cup
                   (IF "resolve" \in Faults THEN {"system"} ELSE {})
      BY <3>1 DEF How, ConnectFaults
    <3>4. Outcome(How', FALSE, 0, 2) \in RetryOutcomes(1)
      <4> DEFINE hows == (IF "refuse" \in Faults THEN {"throw", "timeout"} ELSE {}) \cup
                         (IF "resolve" \in Faults THEN {"system"} ELSE {})
                 failed == {Outcome(how, FALSE, 0, 1 + 1) : how \in hows}
      <4>1. RetryOutcomes(1) = LastOutcomes(1) \cup failed
        BY DEF RetryOutcomes
      <4>2. How' \in hows /\ 1 + 1 = 2
        BY <3>3
      <4> HIDE DEF hows
      <4>3. Outcome(How', FALSE, 0, 2) \in failed
        BY <4>2
      <4> QED BY <4>1, <4>3
    <3>5. Outcome(How', FALSE, 0, 2) \in SendOutcomes(TRUE, TRUE)
      <4>1. RetryOutcomes(1) \subseteq SendOutcomes(TRUE, TRUE)
        BY <3>0 DEF SendOutcomes
      <4> QED BY <3>4, <4>1
    <3>6. arrived' = 0 /\ spent' = 2
      BY <3>0, <3>1
    <3> QED BY <3>2, <3>5, <3>6, Promised
  <2> QED BY <1>3, <2>2, <2>3, <2>4, <2>5
          DEF Next, connect, write, readReply, readError, handlerThrows, handlerThrowsAgain,
              finish, Final
<1> QED BY <1>1, <1>2, <1>3

THEOREM Invariant == Spec => []IInv
<1>1. IInv /\ [Next]_vars => IInv'
  <2> SUFFICES ASSUME IInv, [Next]_vars PROVE IInv'
    OBVIOUS
  <2>1. TypeOK' /\ NotRepeated'
    BY StepType, StepNotRepeated DEF IInv
  <2> QED BY <2>1, StepOnTheWay, StepPromised DEF IInv
<1> QED BY <1>1, InitInv, PTL DEF Spec

(* A server has a payload twice only after the caller's handler threw in   *)
(* between: the retry of a timed-out write repeats nothing.                *)
THEOREM NothingRepeated == Spec => []RepeatedOnlyForThrowingHandler
<1>1. IInv => RepeatedOnlyForThrowingHandler
  BY DEF IInv, TypeOK, NotRepeated, Rethrown, RepeatedOnlyForThrowingHandler
<1> QED BY <1>1, Invariant, PTL

(* The detailed send ends in no other way than the callers are promised.   *)
THEOREM SendsEndAsPromised == Spec => []EndsAsPromised
<1>1. IInv => EndsAsPromised
  BY DEF IInv
<1> QED BY <1>1, Invariant, PTL
=============================================================================
