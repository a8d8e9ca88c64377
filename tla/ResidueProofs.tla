---------------------------- MODULE ResidueProofs -----------------------------
(***************************************************************************)
(* The type invariant of ResidueClient, for any number of logging threads, *)
(* any faults and any bounds: one lemma per action, TypeStep to combine    *)
(* them.  Then: which thread a step moves, and what that says about the    *)
(* dispatcher, which the safety properties start from; and, under the      *)
(* hypotheses of a reliable server, what strengthens them and that every   *)
(* step is one of the delivery promise.                                    *)
(***************************************************************************)
EXTENDS ResidueProperties, FiniteSetTheorems, TLAPS

-----------------------------------------------------------------------------
(* A send leaves a client up only if it found it up, and only then brings  *)
(* the server anything.                                                    *)
Hows == {"reply", "silent", "eof", "readerr", "readtimeout", "throw", "timeout",
         "system"}

LEMMA AttemptFacts ==
  ASSUME NEW cost \in Nat, NEW o \in LastOutcomes(cost) \cup RetryOutcomes(cost)
  PROVE  o.up \in BOOLEAN /\ o.cost \in Nat /\ o.how \in Hows
<1> USE DEF Outcome, Hows
<1>1. ASSUME o \in ReadOutcomes(cost)
      PROVE  o.up \in BOOLEAN /\ o.cost \in Nat /\ o.how \in Hows
  <2>1. CASE o = Outcome("reply", TRUE, 1, cost)
    BY <2>1
  <2>2. CASE \E f \in ReadFaults, c \in {0, 1} : o = Outcome(f, f # "eof", c, cost + 1)
    BY <2>2 DEF ReadFaults
  <2>3. QED
    BY <1>1, <2>1, <2>2 DEF ReadOutcomes
<1>2. ASSUME o \in WriteOutcomes(cost)
      PROVE  o.up \in BOOLEAN /\ o.cost \in Nat /\ o.how \in Hows
  <2>1. \E how \in {"timeout", "throw"} : o = Outcome(how, TRUE, 0, cost + 1)
    BY <1>2 DEF WriteOutcomes
  <2>2. QED
    BY <2>1
<1>3. ASSUME o \in RetryOutcomes(cost) \ LastOutcomes(cost)
      PROVE  o.up \in BOOLEAN /\ o.cost \in Nat /\ o.how \in Hows
  <2>1. \E how \in {"throw", "timeout", "system"} : o = Outcome(how, FALSE, 0, cost + 1)
    BY <1>3 DEF RetryOutcomes
  <2>2. QED
    BY <2>1
<1>4. QED
  BY <1>1, <1>2, <1>3 DEF LastOutcomes

LEMMA SendOutcomesFacts ==
  ASSUME NEW up \in BOOLEAN, NEW retry \in BOOLEAN, NEW o \in SendOutcomes(up, retry)
  PROVE  /\ o.up \in BOOLEAN
         /\ o.up => up
         /\ o.copies > 0 => up
         /\ o.cost \in Nat
         /\ o.how \in Hows
<1>1. CASE ~up
  <2>1. o = Outcome("silent", FALSE, 0, 0)
    BY <1>1 DEF SendOutcomes
  <2>2. QED
    BY <2>1 DEF Outcome, Hows
<1>2. CASE up
  <2>1. \E cost \in {0, 1} : o \in LastOutcomes(cost) \cup RetryOutcomes(cost)
    BY <1>2 DEF SendOutcomes
  <2>2. QED
    BY <1>2, <2>1, AttemptFacts
<1>3. QED
  BY <1>1, <1>2

LEMMA ThreadsFacts ==
  /\ "user" \in Threads /\ "disp" \in Threads
  /\ \A a \in Apps : a \in Threads /\ a # "user" /\ a # "disp" /\ a # "none"
BY ResidueClientAssumption DEF Threads, Connectors

LEMMA InitTypeOK == Init => TypeOK
<1> SUFFICES ASSUME Init PROVE TypeOK
  OBVIOUS
<1>1. FlagsType
  BY DEF Init, FlagsType
<1>2. SessionType
  BY DEF Hosts, Init, SessionType, ClientType, NoClient, Client
<1>3. QueueType
  BY DEF Init, QueueType
<1>4. LockType
  BY DEF Init, LockType
<1>5. PcType
  BY ThreadsFacts DEF Init, PcType, ConnectPcs, DispatcherPcs, UserPcs, AppPcs
<1>6. FrameType
  BY DEF Init, FrameType, Frames, Connectors
<1>7. HistoryType
  BY DEF Init, HistoryType
<1>8. QED
  BY <1>1, <1>2, <1>3, <1>4, <1>5, <1>6, <1>7 DEF TypeOK

-----------------------------------------------------------------------------
(* What the three ways of leaving a handshake by an exception preserve.    *)
Unwound ==
  /\ m_connecting' \in BOOLEAN
  /\ connClient' \in ClientType
  /\ m_mutex' \in Connectors \cup {"none"}
  /\ PcType'
  /\ frame' \in Frames
  /\ retried' \in [Connectors -> SUBSET {"connect", "ack"}]
  /\ result' \in {"ok", "residue", "system"}
  /\ aborted' \in Causes \cup {"no"}

LEMMA GotoType ==
  ASSUME TypeOK, NEW t \in Connectors, NEW l \in ConnectPcs, Goto(t, l)
  PROVE  PcType'
BY ThreadsFacts DEF TypeOK, Goto, PcType, Connectors

LEMMA GotoUserType ==
  ASSUME TypeOK, NEW l \in UserPcs, Goto("user", l)
  PROVE  PcType'
BY ThreadsFacts DEF TypeOK, Goto, PcType

LEMMA GotoDispatcherType ==
  ASSUME TypeOK, NEW l \in DispatcherPcs, Goto("disp", l)
  PROVE  PcType'
BY ThreadsFacts DEF TypeOK, Goto, PcType

LEMMA StayType ==
  ASSUME TypeOK, UNCHANGED pc
  PROVE  PcType'
BY DEF TypeOK, PcType

LEMMA ThrowType ==
  ASSUME TypeOK, NEW t \in Connectors, NEW exception \in {"residue", "system"},
         Throw(t, exception)
  PROVE  /\ PcType'
         /\ frame' \in Frames
         /\ result' \in {"ok", "residue", "system"}
         /\ aborted' \in Causes \cup {"no"}
<1> DEFINE Typed == /\ PcType'
                    /\ frame' \in Frames
                    /\ result' \in {"ok", "residue", "system"}
                    /\ aborted' \in Causes \cup {"no"}
<1>0. /\ frame \in Frames
      /\ result \in {"ok", "residue", "system"}
      /\ aborted \in Causes \cup {"no"}
      /\ t \in {"user", "disp"}
  BY DEF TypeOK, FrameType, HistoryType, Connectors
<1>1. CASE frame[t] = "health" /\ t = "disp"
  <2>1. Goto("disp", "d_pop") /\ UNCHANGED <<frame, result, aborted>>
    BY <1>1 DEF Throw
  <2>2. QED
    BY <1>0, <2>1, GotoDispatcherType DEF DispatcherPcs
<1>2. CASE frame[t] = "health" /\ t = "user"
  <2>1. /\ Goto("user", "o_uninstall") /\ frame' = [frame EXCEPT !["user"] = "load"]
        /\ UNCHANGED <<result, aborted>>
    BY <1>2 DEF Throw
  <2>2. PcType'
    BY <2>1, GotoType DEF ConnectPcs, Connectors
  <2>3. frame' \in Frames
    BY <1>0, <2>1 DEF Frames, Connectors
  <2>4. QED
    BY <1>0, <2>1, <2>2, <2>3
<1>3. CASE frame[t] # "health" /\ t = "user"
  <2>1. Goto("user", "u_end") /\ result' = exception /\ UNCHANGED <<frame, aborted>>
    BY <1>3 DEF Throw
  <2>2. QED
    BY <1>0, <2>1, GotoUserType DEF UserPcs
<1>4. CASE frame[t] # "health" /\ t = "disp" /\ exception = "residue"
  <2>1. Goto("disp", "d_while") /\ UNCHANGED <<frame, result, aborted>>
    BY <1>4 DEF Throw
  <2>2. QED
    BY <1>0, <2>1, GotoDispatcherType DEF DispatcherPcs
<1>5. CASE frame[t] # "health" /\ t = "disp" /\ exception = "system"
  <2>1. aborted' = "uncaught_dispatch" /\ UNCHANGED <<pc, frame, result>>
    BY <1>5 DEF Throw
  <2>2. QED
    BY <1>0, <2>1, StayType DEF Causes
<1>6. QED
  BY <1>0, <1>1, <1>2, <1>3, <1>4, <1>5

LEMMA ConnectHandlerFailsType ==
  ASSUME TypeOK, NEW t \in Connectors, NEW text, NEW used \in SUBSET {"connect", "ack"},
         NEW up \in BOOLEAN, up => connClient.up,
         ConnectHandlerFails(t, text, used, up)
  PROVE  Unwound
<1>1. /\ m_connecting' \in BOOLEAN
      /\ connClient' \in ClientType
      /\ retried' \in [Connectors -> SUBSET {"connect", "ack"}]
  <2>1. m_connecting' \in BOOLEAN
    BY DEF ConnectHandlerFails, HandlerCalled
  <2>2. \E b \in {FALSE, up} : connClient' = [connClient EXCEPT !.up = b]
    BY DEF ConnectHandlerFails
  <2>3. \E u \in {{"connect"}, used} : retried' = [retried EXCEPT ![t] = u]
    BY DEF ConnectHandlerFails
  <2>4. connClient' \in ClientType
    BY <2>2 DEF TypeOK, SessionType, ClientType
  <2>5. retried' \in [Connectors -> SUBSET {"connect", "ack"}]
    BY <2>3 DEF TypeOK, FrameType
  <2>6. QED
    BY <2>1, <2>4, <2>5
<1>2. CASE Goto(t, "r_again") /\ UNCHANGED <<frame, result, aborted, m_mutex>>
  <2>1. PcType'
    BY <1>2, GotoType DEF ConnectPcs
  <2>2. QED
    BY <1>1, <1>2, <2>1 DEF Unwound, TypeOK, LockType, FrameType, HistoryType
<1>3. CASE ThrowUnlock(t, "residue")
  BY <1>1, <1>3, ThrowType DEF ThrowUnlock, Unwound
<1>4. QED
  BY <1>2, <1>3 DEF ConnectHandlerFails

LEMMA AckHandlerFailsType ==
  ASSUME TypeOK, NEW t \in Connectors, NEW text, NEW used \in SUBSET {"connect", "ack"},
         AckHandlerFails(t, text, used)
  PROVE  Unwound
<1>1. CASE ConnectHandlerFails(t, text, used, connClient.up)
  BY <1>1, ConnectHandlerFailsType DEF TypeOK, SessionType, ClientType
<1>2. CASE /\ HandlerCalled
           /\ connClient' = [connClient EXCEPT !.up = FALSE]
           /\ retried' = [retried EXCEPT ![t] = used \cup {"ack"}]
           /\ Goto(t, "r_ackagain")
           /\ UNCHANGED <<frame, result, aborted, m_mutex>>
  <2>1. PcType'
    BY <1>2, GotoType DEF ConnectPcs
  <2>2. connClient' \in ClientType /\ m_connecting' \in BOOLEAN
    BY <1>2 DEF HandlerCalled, TypeOK, SessionType, ClientType
  <2>3. QED
    BY <1>2, <2>1, <2>2 DEF Unwound, TypeOK, LockType, FrameType, HistoryType
<1>3. QED
  BY <1>1, <1>2 DEF AckHandlerFails

LEMMA PayType ==
  ASSUME TypeOK, NEW cost \in Nat, Pay(cost)
  PROVE  spent' \in Nat
BY DEF TypeOK, HistoryType, Pay

LEMMA ConnectingType ==
  ASSUME TypeOK, NEW h, NEW o, Connecting(h, o)
  PROVE  spent' \in Nat /\ (o = "ok" => h \in Hosts)
BY PayType, ResidueClientAssumption
   DEF Connecting, TypeOK, HistoryType, ConnectOutcomes, ConnectFaults, Pay, Hosts

LEMMA UsedType ==
  ASSUME TypeOK, NEW t \in Connectors, NEW which \in {"connect", "ack"}, NEW o
  PROVE  Used(t, which, o) \in SUBSET {"connect", "ack"}
BY DEF TypeOK, FrameType, Used

-----------------------------------------------------------------------------
(* Every action keeps the type invariant, given that the batch being       *)
(* popped fits into the queue.                                             *)
(* A handshake step that unwinds, or leaves the same things typed, and     *)
(* touches nothing else but m_connected, logClient, m_key and spent.       *)
LEMMA HandshakeType ==
  ASSUME TypeOK, Unwound, HandshakeFrame,
         m_connected' \in BOOLEAN, logClient' \in ClientType,
         m_key' \in {"none", "pending", "live"}, spent' \in Nat,
         UNCHANGED <<m_running, health, m_dispatcher, elpp>>
  PROVE  TypeOK'
<1>1. FlagsType'
  BY DEF TypeOK, Unwound, HandshakeFrame, elpp, FlagsType
<1>2. SessionType'
  BY DEF TypeOK, Unwound, HandshakeFrame, SessionType
<1>3. QueueType'
  BY DEF TypeOK, HandshakeFrame, queue, sending, history, QueueType
<1>4. LockType'
  BY DEF TypeOK, Unwound, elpp, LockType
<1>5. FrameType' /\ HistoryType'
  BY DEF TypeOK, Unwound, HandshakeFrame, FrameType, HistoryType
<1>6. QED
  BY <1>1, <1>2, <1>3, <1>4, <1>5 DEF TypeOK, Unwound

LEMMA ConnectNetType ==
  ASSUME TypeOK, NEW t \in Connectors, ConnectNet(t)
  PROVE  TypeOK'
<1>1. PICK o \in {"ok", "refuse", "resolve"} :
        /\ Connecting(connClient.host, o)
        /\ connClient' = [connClient EXCEPT !.up = (o = "ok")]
        /\ IF o = "ok"
             THEN /\ Goto(t, IF frame[t] = "load" THEN "r_load" ELSE "r_flags")
                  /\ UNCHANGED <<frame, result, aborted>>
             ELSE Throw(t, IF o = "refuse" THEN "residue" ELSE "system")
  BY DEF ConnectNet
<1>2. spent' \in Nat /\ connClient' \in ClientType
  BY <1>1, ConnectingType DEF TypeOK, SessionType, ClientType
<1>3. /\ PcType'
      /\ frame' \in Frames
      /\ result' \in {"ok", "residue", "system"}
      /\ aborted' \in Causes \cup {"no"}
  <2>1. CASE o = "ok"
    BY <1>1, <2>1, GotoType DEF ConnectPcs, TypeOK, FrameType, HistoryType
  <2>2. CASE o # "ok"
    <3>1. Throw(t, IF o = "refuse" THEN "residue" ELSE "system")
      BY <1>1, <2>2
    <3>2. QED
      BY <3>1, ThrowType
  <2>3. QED
    BY <2>1, <2>2
<1>4. FlagsType' /\ QueueType' /\ LockType'
  BY DEF TypeOK, ConnectNet, flags, queue, elpp, sending, history, FlagsType,
         QueueType, LockType
<1>5. SessionType' /\ FrameType' /\ HistoryType'
  BY <1>2, <1>3 DEF TypeOK, ConnectNet, SessionType, FrameType, HistoryType
<1>6. QED
  BY <1>3, <1>4, <1>5 DEF TypeOK

LEMMA ResetConnectType ==
  ASSUME TypeOK, NEW t \in Connectors, ResetConnect(t)
  PROVE  TypeOK'
<1> DEFINE retry == "connect" \notin retried[t]
<1>1. PICK o \in SendOutcomes(connClient.up, retry) :
        /\ Pay(o.cost)
        /\ CASE o.how = "reply" ->
                  /\ HandlerCalled
                  /\ connClient' = [connClient EXCEPT !.up = o.up]
                  /\ retried' = [retried EXCEPT ![t] = Used(t, "connect", o)]
                  /\ Goto(t, "r_reply")
                  /\ UNCHANGED <<frame, m_mutex, result, aborted>>
             [] o.how \in {"silent", "eof"} ->
                  /\ connClient' = [connClient EXCEPT !.up = o.up]
                  /\ Goto(t, "r_unlock")
                  /\ UNCHANGED <<m_connecting, retried, frame, m_mutex, result, aborted>>
             [] o.how \in {"readerr", "readtimeout"} ->
                  ConnectHandlerFails(t, IF o.how = "readtimeout" THEN "timeout"
                                         ELSE "other", Used(t, "connect", o), o.up)
             [] o.how \in {"throw", "timeout", "system"} ->
                  /\ connClient' = [connClient EXCEPT !.up = o.up]
                  /\ ThrowUnlock(t, IF o.how = "system" THEN "system" ELSE "residue")
                  /\ UNCHANGED <<m_connecting, retried>>
  BY DEF ResetConnect
<1>2. /\ o.up \in BOOLEAN
      /\ o.up => connClient.up
      /\ o.cost \in Nat
      /\ o.how \in Hows
  BY SendOutcomesFacts DEF TypeOK, SessionType, ClientType
<1>3. connClient' = [connClient EXCEPT !.up = o.up] => connClient' \in ClientType
  BY <1>2 DEF TypeOK, SessionType, ClientType
<1>4. Unwound
  <2>1. CASE o.how = "reply"
    <3>1. /\ m_connecting' = FALSE /\ connClient' = [connClient EXCEPT !.up = o.up]
          /\ retried' = [retried EXCEPT ![t] = Used(t, "connect", o)]
          /\ Goto(t, "r_reply") /\ UNCHANGED <<frame, m_mutex, result, aborted>>
      BY <1>1, <2>1 DEF HandlerCalled
    <3>2. PcType'
      BY <3>1, GotoType DEF ConnectPcs
    <3>3. QED
      BY <1>3, <3>1, <3>2, UsedType DEF Unwound, TypeOK, LockType, FrameType, HistoryType
  <2>2. CASE o.how \in {"silent", "eof"}
    <3>1. /\ connClient' = [connClient EXCEPT !.up = o.up] /\ Goto(t, "r_unlock")
          /\ UNCHANGED <<m_connecting, retried, frame, m_mutex, result, aborted>>
      BY <1>1, <2>2
    <3>2. PcType'
      BY <3>1, GotoType DEF ConnectPcs
    <3>3. QED
      BY <1>3, <3>1, <3>2 DEF Unwound, TypeOK, FlagsType, LockType, FrameType, HistoryType
  <2>3. CASE o.how \in {"readerr", "readtimeout"}
    <3>1. \E text : ConnectHandlerFails(t, text, Used(t, "connect", o), o.up)
      BY <1>1, <2>3
    <3>2. QED
      BY <1>2, <3>1, UsedType, ConnectHandlerFailsType
  <2>4. CASE o.how \in {"throw", "timeout", "system"}
    <3>1. /\ connClient' = [connClient EXCEPT !.up = o.up]
          /\ ThrowUnlock(t, IF o.how = "system" THEN "system" ELSE "residue")
          /\ UNCHANGED <<m_connecting, retried>>
      BY <1>1, <2>4
    <3>2. \E exception \in {"residue", "system"} : Throw(t, exception) /\ m_mutex' = "none"
      BY <3>1 DEF ThrowUnlock
    <3>3. QED
      BY <1>3, <3>1, <3>2, ThrowType DEF Unwound, TypeOK, FlagsType, FrameType
  <2>5. QED
    BY <1>2, <2>1, <2>2, <2>3, <2>4 DEF Hows
<1>5. spent' \in Nat
  BY <1>1, <1>2, PayType
<1>6. QED
  BY <1>4, <1>5, HandshakeType DEF ResetConnect, TypeOK, FlagsType, SessionType

LEMMA ResetConnectAgainType ==
  ASSUME TypeOK, NEW t \in Connectors, ResetConnectAgain(t)
  PROVE  TypeOK'
<1>1. PICK o \in {"ok", "refuse", "resolve"} :
        /\ Connecting(connClient.host, o)
        /\ connClient' = [connClient EXCEPT !.up = (o = "ok")]
        /\ IF o = "ok"
             THEN Goto(t, "r_connect") /\ UNCHANGED <<frame, m_mutex, result, aborted>>
             ELSE ThrowUnlock(t, IF o = "refuse" THEN "residue" ELSE "system")
  BY DEF ResetConnectAgain
<1>2. spent' \in Nat /\ connClient' \in ClientType
  BY <1>1, ConnectingType DEF TypeOK, SessionType, ClientType
<1>3. UNCHANGED <<m_connecting, retried>>
  BY DEF ResetConnectAgain, flags
<1>4. Unwound
  <2>1. CASE o = "ok"
    <3>1. Goto(t, "r_connect") /\ UNCHANGED <<frame, m_mutex, result, aborted>>
      BY <1>1, <2>1
    <3>2. PcType'
      BY <3>1, GotoType DEF ConnectPcs
    <3>3. QED
      BY <1>2, <1>3, <3>1, <3>2
         DEF Unwound, TypeOK, FlagsType, LockType, FrameType, HistoryType
  <2>2. CASE o # "ok"
    <3>1. \E exception \in {"residue", "system"} :
             Throw(t, exception) /\ m_mutex' = "none"
      BY <1>1, <2>2 DEF ThrowUnlock
    <3>2. QED
      BY <1>2, <1>3, <3>1, ThrowType DEF Unwound, TypeOK, FlagsType, FrameType
  <2>3. QED
    BY <2>1, <2>2
<1>5. QED
  BY <1>2, <1>4, HandshakeType
     DEF ResetConnectAgain, flags, TypeOK, FlagsType, SessionType

LEMMA ResetReplyType ==
  ASSUME TypeOK, NEW t \in Connectors, ResetReply(t)
  PROVE  TypeOK'
<1>1. spent' \in Nat /\ m_key' \in {"none", "pending", "live"}
  BY PayType DEF ResetReply, TypeOK, SessionType, HistoryType
<1>2. Unwound
  <2>1. CASE /\ m_connecting' = TRUE
             /\ Goto(t, "r_ack")
             /\ aborted' \in {"no"} \cup
                  (IF pc[Other(t)] \in {"d_send", "t_send"} THEN {"session_race"} ELSE {})
             /\ UNCHANGED <<connClient, retried, frame, m_mutex, result, spent>>
    <3>1. PcType'
      BY <2>1, GotoType DEF ConnectPcs
    <3>2. aborted' \in Causes \cup {"no"}
      BY <2>1 DEF Causes
    <3>3. QED
      BY <2>1, <3>1, <3>2 DEF Unwound, TypeOK, SessionType, LockType, FrameType
  <2>2. CASE ConnectHandlerFails(t, "other", retried[t], connClient.up)
    BY <2>2, ConnectHandlerFailsType DEF TypeOK, SessionType, ClientType, FrameType
  <2>3. CASE /\ Goto(t, "r_unlock")
             /\ UNCHANGED <<m_key, m_connecting, connClient, retried, frame, m_mutex,
                            result, aborted>>
    <3>1. PcType'
      BY <2>3, GotoType DEF ConnectPcs
    <3>2. QED
      BY <2>3, <3>1
         DEF Unwound, TypeOK, FlagsType, SessionType, LockType, FrameType, HistoryType
  <2>4. QED
    BY <2>1, <2>2, <2>3 DEF ResetReply
<1>3. QED
  BY <1>1, <1>2, HandshakeType DEF ResetReply, TypeOK, FlagsType, SessionType

LEMMA ResetAckType ==
  ASSUME TypeOK, NEW t \in Connectors, ResetAck(t)
  PROVE  TypeOK'
<1> DEFINE retry == "ack" \notin retried[t]
<1>1. PICK o \in SendOutcomes(connClient.up, retry) :
        /\ CASE o.how = "reply" ->
                  /\ HandlerCalled
                  /\ \/ Pay(o.cost) /\ Goto(t, "r_load")
                        /\ connClient' = [connClient EXCEPT !.up = o.up]
                        /\ retried' = [retried EXCEPT ![t] = Used(t, "ack", o)]
                        /\ UNCHANGED <<frame, m_mutex, result, aborted>>
                     \/ "reject" \in ServerFaults /\ Pay(o.cost + 1) /\ Goto(t, "r_unlock")
                        /\ connClient' = [connClient EXCEPT !.up = o.up]
                        /\ UNCHANGED <<retried, frame, m_mutex, result, aborted>>
                     \/ "unreadable" \in ServerFaults /\ Pay(o.cost + 1)
                        /\ AckHandlerFails(t, "other", Used(t, "ack", o))
             [] o.how \in {"silent", "eof"} ->
                  /\ Pay(o.cost) /\ Goto(t, "r_unlock")
                  /\ connClient' = [connClient EXCEPT !.up = o.up]
                  /\ UNCHANGED <<m_connecting, retried, frame, m_mutex, result, aborted>>
             [] o.how \in {"readerr", "readtimeout"} ->
                  Pay(o.cost) /\ AckHandlerFails(t, IF o.how = "readtimeout" THEN "timeout"
                                                    ELSE "other", Used(t, "ack", o))
             [] o.how \in {"throw", "timeout", "system"} ->
                  Pay(o.cost) /\ ConnectHandlerFails(t, IF o.how = "timeout" THEN "timeout"
                                                        ELSE "other", retried[t], o.up)
  BY DEF ResetAck
<1>2. /\ o.up \in BOOLEAN
      /\ o.up => connClient.up
      /\ o.cost \in Nat
      /\ o.how \in Hows
  BY SendOutcomesFacts DEF TypeOK, SessionType, ClientType
<1>3. connClient' = [connClient EXCEPT !.up = o.up] => connClient' \in ClientType
  BY <1>2 DEF TypeOK, SessionType, ClientType
<1>4. Pay(o.cost) \/ Pay(o.cost + 1)
  BY <1>1, <1>2 DEF Hows
<1>5. \/ \E l \in {"r_load", "r_unlock"} :
            /\ Goto(t, l) /\ connClient' = [connClient EXCEPT !.up = o.up]
            /\ m_connecting' \in {m_connecting, FALSE}
            /\ \/ UNCHANGED retried
               \/ retried' = [retried EXCEPT ![t] = Used(t, "ack", o)]
            /\ UNCHANGED <<frame, m_mutex, result, aborted>>
      \/ \E text : AckHandlerFails(t, text, Used(t, "ack", o))
      \/ \E text : ConnectHandlerFails(t, text, retried[t], o.up)
  <2>1. CASE o.how = "reply"
    BY <1>1, <2>1 DEF HandlerCalled
  <2>2. CASE o.how \in {"silent", "eof"}
    BY <1>1, <2>2
  <2>3. CASE o.how \in {"readerr", "readtimeout"}
    BY <1>1, <2>3
  <2>4. CASE o.how \in {"throw", "timeout", "system"}
    BY <1>1, <2>4
  <2>5. QED
    BY <1>2, <2>1, <2>2, <2>3, <2>4 DEF Hows
<1>6. Unwound
  <2>1. CASE \E l \in {"r_load", "r_unlock"} :
               /\ Goto(t, l) /\ connClient' = [connClient EXCEPT !.up = o.up]
               /\ m_connecting' \in {m_connecting, FALSE}
               /\ \/ UNCHANGED retried
                  \/ retried' = [retried EXCEPT ![t] = Used(t, "ack", o)]
               /\ UNCHANGED <<frame, m_mutex, result, aborted>>
    <3>1. PcType'
      BY <2>1, GotoType DEF ConnectPcs
    <3>2. retried' \in [Connectors -> SUBSET {"connect", "ack"}]
      BY <2>1, UsedType DEF TypeOK, FrameType
    <3>3. QED
      BY <1>3, <2>1, <3>1, <3>2
         DEF Unwound, TypeOK, FlagsType, LockType, FrameType, HistoryType
  <2>2. CASE \E text : AckHandlerFails(t, text, Used(t, "ack", o))
    BY <2>2, AckHandlerFailsType, UsedType
  <2>3. CASE \E text : ConnectHandlerFails(t, text, retried[t], o.up)
    BY <1>2, <2>3, ConnectHandlerFailsType DEF TypeOK, FrameType
  <2>4. QED
    BY <1>5, <2>1, <2>2, <2>3
<1>7. spent' \in Nat
  BY <1>2, <1>4, PayType
<1>8. QED
  BY <1>6, <1>7, HandshakeType DEF ResetAck, TypeOK, FlagsType, SessionType

LEMMA ResetAckAgainType ==
  ASSUME TypeOK, NEW t \in Connectors, ResetAckAgain(t)
  PROVE  TypeOK'
<1>1. PICK o \in {"ok", "refuse", "resolve"} :
        /\ Connecting(connClient.host, o)
        /\ \/ /\ o = "ok"
              /\ connClient' = [connClient EXCEPT !.up = TRUE]
              /\ Goto(t, "r_ack")
              /\ UNCHANGED <<m_connecting, retried, frame, m_mutex, result, aborted>>
           \/ \E text : ConnectHandlerFails(t, text, retried[t], FALSE)
  BY DEF ResetAckAgain
<1>2. spent' \in Nat /\ (o = "ok" => connClient.host \in Hosts)
  BY <1>1, ConnectingType
<1>3. Unwound
  <2>1. CASE /\ o = "ok"
             /\ connClient' = [connClient EXCEPT !.up = TRUE]
             /\ Goto(t, "r_ack")
             /\ UNCHANGED <<m_connecting, retried, frame, m_mutex, result, aborted>>
    <3>1. PcType'
      BY <2>1, GotoType DEF ConnectPcs
    <3>2. connClient' \in ClientType
      BY <1>2, <2>1 DEF TypeOK, SessionType, ClientType
    <3>3. QED
      BY <2>1, <3>1, <3>2
         DEF Unwound, TypeOK, FlagsType, LockType, FrameType, HistoryType
  <2>2. CASE \E text : ConnectHandlerFails(t, text, retried[t], FALSE)
    BY <2>2, ConnectHandlerFailsType DEF TypeOK, FrameType
  <2>3. QED
    BY <1>1, <2>1, <2>2
<1>4. QED
  BY <1>2, <1>3, HandshakeType DEF ResetAckAgain, TypeOK, FlagsType, SessionType

LEMMA LoadConnectType ==
  ASSUME TypeOK, NEW t \in Connectors, LoadConnect(t)
  PROVE  TypeOK'
<1>1. PICK o \in {"ok", "refuse", "resolve"} :
        /\ Connecting(logClient.host, o)
        /\ logClient' = [logClient EXCEPT !.up = (o = "ok")]
        /\ \/ /\ \E l \in {"h_check", "o_uninstall"} : Goto(t, l)
              /\ UNCHANGED <<m_connecting, connClient, retried, frame, m_mutex,
                             result, aborted>>
           \/ /\ Throw(t, "residue")
              /\ UNCHANGED <<m_connecting, connClient, retried, m_mutex>>
           \/ \E text : AckHandlerFails(t, text, retried[t])
  BY DEF LoadConnect
<1>2. spent' \in Nat /\ (o = "ok" => logClient.host \in Hosts)
  BY <1>1, ConnectingType
<1>3. logClient' \in ClientType
  BY <1>1, <1>2 DEF TypeOK, SessionType, ClientType
<1>4. m_connected' \in BOOLEAN
  BY DEF LoadConnect, Loaded, TypeOK, FlagsType
<1>5. Unwound
  <2>1. CASE /\ \E l \in {"h_check", "o_uninstall"} : Goto(t, l)
             /\ UNCHANGED <<m_connecting, connClient, retried, frame, m_mutex,
                            result, aborted>>
    <3>1. PcType'
      BY <2>1, GotoType DEF ConnectPcs
    <3>2. QED
      BY <2>1, <3>1
         DEF Unwound, TypeOK, FlagsType, SessionType, LockType, FrameType, HistoryType
  <2>2. CASE /\ Throw(t, "residue")
             /\ UNCHANGED <<m_connecting, connClient, retried, m_mutex>>
    BY <2>2, ThrowType DEF Unwound, TypeOK, FlagsType, SessionType, LockType, FrameType
  <2>3. CASE \E text : AckHandlerFails(t, text, retried[t])
    BY <2>3, AckHandlerFailsType DEF TypeOK, FrameType
  <2>4. QED
    BY <1>1, <2>1, <2>2, <2>3
<1>6. QED
  BY <1>2, <1>3, <1>4, <1>5, HandshakeType DEF LoadConnect, TypeOK, SessionType

LEMMA TouchType ==
  ASSUME TypeOK, NEW t \in Connectors, Touch(t)
  PROVE  TypeOK'
<1>1. PICK o \in SendOutcomes(connClient.up, TRUE) :
        /\ connClient' = [connClient EXCEPT !.up = o.up]
        /\ Pay(o.cost) \/ Pay(o.cost + 1) \/ o.how \notin Hows
        /\ m_connecting' \in {FALSE, m_connecting} \/ o.how \notin Hows
        /\ \/ \E l \in {"t_lock", AfterHealth(t)} : Goto(t, l) /\ UNCHANGED aborted
           \/ aborted' = "touch_terminate" /\ UNCHANGED pc
           \/ o.how \notin Hows
  BY DEF Touch, HandlerCalled, Hows
<1>2. o.up \in BOOLEAN /\ o.cost \in Nat /\ o.how \in Hows
  BY SendOutcomesFacts DEF TypeOK, SessionType, ClientType
<1>3. o.up => connClient.up
  BY SendOutcomesFacts DEF TypeOK, SessionType, ClientType
<1>4. spent' \in Nat
  BY <1>1, <1>2, PayType
<1>5. connClient' \in ClientType
  BY <1>1, <1>2, <1>3 DEF TypeOK, SessionType, ClientType
<1>6. PcType' /\ aborted' \in Causes \cup {"no"}
  <2>1. CASE \E l \in {"t_lock", AfterHealth(t)} : Goto(t, l) /\ UNCHANGED aborted
    <3>1. CASE Goto(t, "t_lock")
      BY <2>1, <3>1, GotoType DEF ConnectPcs, TypeOK, HistoryType
    <3>2. CASE Goto(t, AfterHealth(t)) /\ t = "disp"
      BY <2>1, <3>2, GotoDispatcherType DEF AfterHealth, DispatcherPcs, TypeOK, HistoryType
    <3>3. CASE Goto(t, AfterHealth(t)) /\ t = "user"
      BY <2>1, <3>3, GotoType DEF AfterHealth, ConnectPcs, TypeOK, HistoryType
    <3>4. QED
      BY <2>1, <3>1, <3>2, <3>3 DEF Connectors
  <2>2. CASE aborted' = "touch_terminate" /\ UNCHANGED pc
    BY <2>2, StayType DEF Causes
  <2>3. QED
    BY <1>1, <1>2, <2>1, <2>2
<1>7. FlagsType'
  BY <1>1, <1>2 DEF TypeOK, Touch, elpp, user, FlagsType
<1>8. QueueType' /\ LockType' /\ FrameType'
  BY DEF TypeOK, Touch, queue, elpp, control, sending, user, history, QueueType,
         LockType, FrameType
<1>9. SessionType' /\ HistoryType'
  BY <1>4, <1>5, <1>6 DEF TypeOK, Touch, user, SessionType, HistoryType
<1>10. QED
  BY <1>6, <1>7, <1>8, <1>9 DEF TypeOK

LEMMA DispatchSendType ==
  ASSUME TypeOK, DispatchSend
  PROVE  TypeOK'
<1>1. PICK o \in SendOutcomes(logClient.up, TRUE) :
        /\ Pay(o.cost)
        /\ logClient' = [logClient EXCEPT !.up = o.up]
        /\ \/ /\ o.copies > 0
              /\ delivered' = delivered \o Numbered(logClient.host, batch)
              /\ UNCHANGED lost
           \/ lost' = lost \cup Members(batch) /\ UNCHANGED delivered
        /\ batch' = <<>> /\ total' = 0 /\ m_requests' = m_requests
        /\ \/ aborted' = "uncaught_dispatch" /\ UNCHANGED pc
           \/ Goto("disp", "d_while") /\ UNCHANGED aborted
  BY DEF DispatchSend, QueueAfterSend
<1>2. o.up \in BOOLEAN /\ o.cost \in Nat
  BY SendOutcomesFacts DEF TypeOK, SessionType, ClientType
<1>3. (o.up => logClient.up) /\ (o.copies > 0 => logClient.up)
  BY SendOutcomesFacts DEF TypeOK, SessionType, ClientType
<1>4. QueueType'
  <2>1. batch \in Seq(Nat) /\ delivered \in Seq(Hosts \X Nat)
    BY DEF TypeOK, QueueType
  <2>2. Members(batch) \subseteq Nat
    BY <2>1 DEF Members
  <2>3. ASSUME o.copies > 0
        PROVE  delivered \o Numbered(logClient.host, batch) \in Seq(Hosts \X Nat)
    <3>1. logClient.host \in Hosts
      BY <1>3, <2>3 DEF TypeOK, SessionType, ClientType
    <3>2. Numbered(logClient.host, batch) \in Seq(Hosts \X Nat)
      BY <2>1, <3>1 DEF Numbered
    <3>3. QED
      BY <2>1, <3>2
  <2>4. delivered' \in Seq(Hosts \X Nat) /\ lost' \subseteq Nat
    BY <1>1, <2>2, <2>3 DEF TypeOK, QueueType
  <2>5. QED
    BY <1>1, <2>4 DEF TypeOK, DispatchSend, QueueType
<1>5. PcType' /\ aborted' \in Causes \cup {"no"}
  <2>1. CASE aborted' = "uncaught_dispatch" /\ UNCHANGED pc
    BY <2>1, StayType DEF Causes
  <2>2. CASE Goto("disp", "d_while") /\ UNCHANGED aborted
    BY <2>2, GotoDispatcherType DEF DispatcherPcs, TypeOK, HistoryType
  <2>3. QED
    BY <1>1, <2>1, <2>2
<1>6. SessionType'
  BY <1>1, <1>2, <1>3 DEF TypeOK, DispatchSend, DispatchFrame, SessionType, ClientType
<1>7. HistoryType'
  BY <1>1, <1>2, <1>5, PayType DEF TypeOK, DispatchSend, DispatchFrame, user, HistoryType
<1>8. FlagsType' /\ LockType' /\ FrameType'
  BY DEF TypeOK, DispatchSend, DispatchFrame, flags, elpp, user, FlagsType, LockType,
         FrameType
<1>9. QED
  BY <1>4, <1>5, <1>6, <1>7, <1>8 DEF TypeOK

LEMMA ConnectBeginType ==
  ASSUME TypeOK, NEW t \in Connectors, ConnectBegin(t)
  PROVE  TypeOK'
<1>1. FlagsType'
  BY DEF TypeOK, ConnectBegin, Other, user, elpp, Target, flags, FlagsType
<1>2. SessionType'
  <2>1. Target(t) \in Hosts \cup {"none"}
    BY DEF TypeOK, SessionType, Target, Hosts
  <2>2. \/ UNCHANGED <<m_host, connClient>>
        \/ m_host' = Target(t) /\ connClient' = Client(m_host', FALSE)
    BY DEF ConnectBegin, session
  <2>3. UNCHANGED <<logClient, m_key, health>>
    BY DEF ConnectBegin, session
  <2>4. m_host' \in Hosts \cup {"none"} /\ connClient' \in ClientType
    <3>1. CASE UNCHANGED <<m_host, connClient>>
      BY <3>1 DEF TypeOK, SessionType
    <3>2. CASE m_host' = Target(t) /\ connClient' = Client(m_host', FALSE)
      BY <2>1, <3>2 DEF Client, ClientType
    <3>3. QED
      BY <2>2, <3>1, <3>2
  <2>5. QED
    BY <2>3, <2>4 DEF TypeOK, SessionType
<1>3. PcType'
  BY ThreadsFacts DEF TypeOK, ConnectBegin, Goto, PcType, ConnectPcs,
       DispatcherPcs, UserPcs, AppPcs, Connectors
<1>4. HistoryType'
  BY DEF TypeOK, ConnectBegin, Other, user, Target, HistoryType, Causes
<1>5. QueueType' /\ LockType' /\ FrameType'
  BY DEF TypeOK, ConnectBegin, history, sending, queue, control, elpp, user,
       QueueType, LockType, FrameType
<1>6. QED
  BY <1>1, <1>2, <1>3, <1>4, <1>5 DEF TypeOK

LEMMA ResetFlagsType ==
  ASSUME TypeOK, NEW t \in Connectors, ResetFlags(t)
  PROVE  TypeOK'
<1>1. FlagsType'
  BY DEF TypeOK, ResetFlags, user, elpp, Reconnecting, FlagsType
<1>2. PcType'
  BY ThreadsFacts DEF TypeOK, ResetFlags, Goto, PcType, ConnectPcs,
       DispatcherPcs, UserPcs, AppPcs, Connectors
<1>3. SessionType' /\ QueueType' /\ LockType' /\ FrameType' /\ HistoryType'
  BY DEF TypeOK, ResetFlags, session, history, sending, queue, control, elpp,
       user, SessionType, QueueType, LockType, FrameType, HistoryType
<1>4. QED
  BY <1>1, <1>2, <1>3 DEF TypeOK

LEMMA ResetLockType ==
  ASSUME TypeOK, NEW t \in Connectors, ResetLock(t)
  PROVE  TypeOK'
<1>1. LockType'
  BY ThreadsFacts DEF TypeOK, ResetLock, elpp, LockType, Connectors
<1>2. PcType'
  BY ThreadsFacts DEF TypeOK, ResetLock, Goto, PcType, ConnectPcs,
       DispatcherPcs, UserPcs, AppPcs, Connectors
<1>3. FrameType'
  BY DEF TypeOK, ResetLock, user, FrameType, Connectors, Frames
<1>4. FlagsType' /\ SessionType' /\ QueueType' /\ HistoryType'
  BY DEF TypeOK, ResetLock, user, elpp, flags, session, history, sending,
       queue, FlagsType, SessionType, QueueType, HistoryType
<1>5. QED
  BY <1>1, <1>2, <1>3, <1>4 DEF TypeOK

LEMMA AgesType ==
  ASSUME NEW t \in Connectors
  PROVE  Ages(t) \subseteq {"valid", "touch", "expired"}
BY DEF Ages

LEMMA LoadType ==
  ASSUME TypeOK, NEW t \in Connectors, Load(t)
  PROVE  TypeOK'
<1>1. SessionType'
  BY AgesType DEF TypeOK, Load, Client, SessionType, ClientType
<1>2. PcType'
  BY ThreadsFacts DEF TypeOK, Load, Goto, PcType, ConnectPcs, DispatcherPcs,
       UserPcs, AppPcs, Connectors
<1>3. HistoryType'
  BY DEF TypeOK, Load, Other, user, HistoryType, Causes
<1>4. FlagsType' /\ QueueType' /\ LockType' /\ FrameType'
  BY DEF TypeOK, Load, user, elpp, flags, history, sending, queue, control,
       FlagsType, QueueType, LockType, FrameType
<1>5. QED
  BY <1>1, <1>2, <1>3, <1>4 DEF TypeOK

LEMMA LoadUnreadableType ==
  ASSUME TypeOK, NEW t \in Connectors, LoadUnreadable(t)
  PROVE  TypeOK'
<1>1. SessionType'
  BY AgesType DEF TypeOK, LoadUnreadable, SessionType
<1>2. /\ PcType' /\ frame' \in Frames
      /\ result' \in {"ok", "residue", "system"} /\ aborted' \in Causes \cup {"no"}
  BY ThrowType DEF LoadUnreadable
<1>3. FrameType' /\ HistoryType'
  BY <1>2, PayType DEF TypeOK, LoadUnreadable, FrameType, HistoryType
<1>4. FlagsType' /\ QueueType' /\ LockType'
  BY DEF TypeOK, LoadUnreadable, elpp, flags, history, sending, queue, FlagsType,
       QueueType, LockType
<1>5. QED
  BY <1>1, <1>2, <1>3, <1>4 DEF TypeOK

LEMMA UninstallDefaultType ==
  ASSUME TypeOK, NEW t \in Connectors, UninstallDefault(t)
  PROVE  TypeOK'
<1>1. LockType'
  BY ThreadsFacts DEF TypeOK, UninstallDefault, OnConnectFrame, control,
       ChangeCallbacks, LockType, Connectors
<1>2. PcType'
  BY ThreadsFacts DEF TypeOK, UninstallDefault, Goto, PcType, ConnectPcs,
       DispatcherPcs, UserPcs, AppPcs, Connectors
<1>3. HistoryType'
  BY DEF TypeOK, UninstallDefault, OnConnectFrame, user, ChangeCallbacks,
       HistoryType, Causes
<1>4. FlagsType' /\ SessionType' /\ QueueType' /\ FrameType'
  BY DEF TypeOK, UninstallDefault, OnConnectFrame, user, session, sending,
       history, queue, control, FlagsType, SessionType, QueueType, FrameType
<1>5. QED
  BY <1>1, <1>2, <1>3, <1>4 DEF TypeOK

LEMMA InstallResidueType ==
  ASSUME TypeOK, NEW t \in Connectors, InstallResidue(t)
  PROVE  TypeOK'
<1>1. FlagsType'
  BY DEF TypeOK, InstallResidue, OnConnectFrame, user, FlagsType
<1>2. LockType'
  BY ThreadsFacts DEF TypeOK, InstallResidue, OnConnectFrame, control,
       ChangeCallbacks, LockType, Connectors
<1>3. PcType'
  BY ThreadsFacts DEF TypeOK, InstallResidue, Goto, PcType, ConnectPcs,
       DispatcherPcs, UserPcs, AppPcs, Connectors
<1>4. HistoryType'
  BY DEF TypeOK, InstallResidue, OnConnectFrame, user, ChangeCallbacks,
       HistoryType, Causes
<1>5. SessionType' /\ QueueType' /\ FrameType'
  BY DEF TypeOK, InstallResidue, OnConnectFrame, session, sending, history,
       queue, user, control, SessionType, QueueType, FrameType
<1>6. QED
  BY <1>1, <1>2, <1>3, <1>4, <1>5 DEF TypeOK

LEMMA SetResidueType ==
  ASSUME TypeOK, NEW t \in Connectors, SetResidue(t)
  PROVE  TypeOK'
<1>1. FlagsType'
  BY DEF TypeOK, SetResidue, OnConnectFrame, user, setResidue, FlagsType
<1>2. PcType'
  BY ThreadsFacts DEF TypeOK, SetResidue, Goto, PcType, ConnectPcs,
       DispatcherPcs, UserPcs, AppPcs, Connectors
<1>3. HistoryType'
  BY DEF TypeOK, SetResidue, OnConnectFrame, user, HistoryType, Causes
<1>4. SessionType' /\ QueueType' /\ LockType' /\ FrameType'
  BY DEF TypeOK, SetResidue, OnConnectFrame, session, sending, history, queue,
       control, user, SessionType, QueueType, LockType, FrameType
<1>5. QED
  BY <1>1, <1>2, <1>3, <1>4 DEF TypeOK

LEMMA RunDispatcherType ==
  ASSUME TypeOK, NEW t \in Connectors, RunDispatcher(t)
  PROVE  TypeOK'
<1>1. FlagsType'
  BY DEF TypeOK, RunDispatcher, OnConnectFrame, user, FlagsType
<1>2. LockType'
  BY ThreadsFacts DEF TypeOK, RunDispatcher, OnConnectFrame, control,
       LockType, Connectors
<1>3. PcType'
  <2> DEFINE next == IF frame[t] = "load" THEN "u_end" ELSE "r_unlock"
  <2>1. \/ UNCHANGED pc
        \/ Goto(t, next)
        \/ pc' = [pc EXCEPT ![t] = next, !["disp"] = "d_run"]
    BY DEF RunDispatcher
  <2>2. next \in ConnectPcs \cup UserPcs /\ (t = "disp" => next = "r_unlock")
    BY DEF TypeOK, FrameType, Frames, ConnectPcs, UserPcs
  <2>3. CASE pc' = [pc EXCEPT ![t] = next, !["disp"] = "d_run"]
    BY ThreadsFacts, <2>2, <2>3 DEF TypeOK, PcType, Connectors, DispatcherPcs
  <2>4. CASE Goto(t, next)
    BY ThreadsFacts, <2>2, <2>4 DEF TypeOK, Goto, PcType, Connectors, ConnectPcs
  <2>5. QED
    BY <2>1, <2>3, <2>4, StayType
<1>4. HistoryType'
  BY DEF TypeOK, RunDispatcher, OnConnectFrame, user, HistoryType, Causes
<1>5. SessionType' /\ QueueType' /\ FrameType'
  BY DEF TypeOK, RunDispatcher, OnConnectFrame, session, sending, history,
       queue, user, control, SessionType, QueueType, FrameType
<1>6. QED
  BY <1>1, <1>2, <1>3, <1>4, <1>5 DEF TypeOK

LEMMA ResetUnlockType ==
  ASSUME TypeOK, NEW t \in Connectors, ResetUnlock(t)
  PROVE  TypeOK'
<1>1. LockType'
  BY ThreadsFacts DEF TypeOK, ResetUnlock, elpp, LockType, Connectors
<1>2. PcType'
  BY ThreadsFacts DEF TypeOK, ResetUnlock, Goto, PcType, ConnectPcs,
       DispatcherPcs, UserPcs, AppPcs, Connectors
<1>3. FrameType'
  BY DEF TypeOK, ResetUnlock, user, FrameType, Connectors, Frames
<1>4. FlagsType' /\ SessionType' /\ QueueType' /\ HistoryType'
  BY DEF TypeOK, ResetUnlock, user, elpp, flags, session, history, sending,
       queue, FlagsType, SessionType, QueueType, HistoryType
<1>5. QED
  BY <1>1, <1>2, <1>3, <1>4 DEF TypeOK

LEMMA HealthCheckType ==
  ASSUME TypeOK, NEW t \in Connectors, HealthCheck(t)
  PROVE  TypeOK'
<1>1. FlagsType'
  BY DEF TypeOK, HealthCheck, AfterHealth, user, elpp, FlagsType
<1>2. PcType'
  BY ThreadsFacts DEF TypeOK, HealthCheck, AfterHealth, Goto, PcType,
       ConnectPcs, DispatcherPcs, UserPcs, AppPcs, Connectors
<1>3. FrameType'
  BY DEF TypeOK, HealthCheck, AfterHealth, user, FrameType, Connectors, Frames
<1>4. SessionType' /\ QueueType' /\ LockType' /\ HistoryType'
  BY DEF TypeOK, HealthCheck, session, history, sending, queue, elpp, user,
       SessionType, QueueType, LockType, HistoryType
<1>5. QED
  BY <1>1, <1>2, <1>3, <1>4 DEF TypeOK

LEMMA TouchReplyType ==
  ASSUME TypeOK, NEW t \in Connectors, TouchReply(t)
  PROVE  TypeOK'
<1>1. SessionType'
  BY DEF TypeOK, TouchReply, AfterHealth, SessionType, ClientType
<1>2. PcType'
  BY ThreadsFacts DEF TypeOK, TouchReply, AfterHealth, Goto, PcType,
       ConnectPcs, DispatcherPcs, UserPcs, AppPcs, Connectors
<1>3. FlagsType' /\ QueueType' /\ LockType' /\ FrameType' /\ HistoryType'
  BY DEF TypeOK, TouchReply, user, elpp, flags, history, sending, queue,
       control, FlagsType, QueueType, LockType, FrameType, HistoryType
<1>4. QED
  BY <1>1, <1>2, <1>3 DEF TypeOK

LEMMA DispatcherRunType ==
  ASSUME TypeOK, DispatcherRun
  PROVE  TypeOK'
<1>1. PcType'
  BY ThreadsFacts DEF TypeOK, DispatcherRun, Goto, PcType, ConnectPcs,
       DispatcherPcs, UserPcs, AppPcs, Connectors
<1>2. FlagsType' /\ SessionType' /\ QueueType' /\ LockType' /\ FrameType' /\ HistoryType'
  BY DEF TypeOK, DispatcherRun, othersThanPc, user, elpp, flags, session,
       sending, history, queue, control, FlagsType, SessionType, QueueType,
       LockType, FrameType, HistoryType
<1>3. QED
  BY <1>1, <1>2 DEF TypeOK

LEMMA DispatchWhileType ==
  ASSUME TypeOK, DispatchWhile
  PROVE  TypeOK'
<1>1. PcType'
  BY ThreadsFacts DEF TypeOK, DispatchWhile, Goto, PcType, ConnectPcs,
       DispatcherPcs, UserPcs, AppPcs, Connectors
<1>2. FlagsType' /\ SessionType' /\ QueueType' /\ LockType' /\ FrameType' /\ HistoryType'
  BY DEF TypeOK, DispatchWhile, othersThanPc, user, elpp, flags, session,
       sending, history, queue, control, FlagsType, SessionType, QueueType,
       LockType, FrameType, HistoryType
<1>3. QED
  BY <1>1, <1>2 DEF TypeOK

LEMMA DispatchWaitType ==
  ASSUME TypeOK, DispatchWait
  PROVE  TypeOK'
<1>1. PcType'
  BY ThreadsFacts DEF TypeOK, DispatchWait, Goto, PcType, ConnectPcs,
       DispatcherPcs, UserPcs, AppPcs, Connectors
<1>2. FlagsType' /\ SessionType' /\ QueueType' /\ LockType' /\ FrameType' /\ HistoryType'
  BY DEF TypeOK, DispatchWait, othersThanPc, user, elpp, flags, session,
       sending, history, queue, control, FlagsType, SessionType, QueueType,
       LockType, FrameType, HistoryType
<1>3. QED
  BY <1>1, <1>2 DEF TypeOK

LEMMA DispatchLiveType ==
  ASSUME TypeOK, DispatchLive
  PROVE  TypeOK'
<1>1. FlagsType'
  BY DEF TypeOK, DispatchLive, elpp, DispatchFrame, user, FlagsType
<1>2. PcType'
  BY ThreadsFacts DEF TypeOK, DispatchLive, Goto, PcType, ConnectPcs,
       DispatcherPcs, UserPcs, AppPcs, Connectors
<1>3. FrameType'
  BY DEF TypeOK, DispatchLive, DispatchFrame, user, FrameType, Connectors,
       Frames
<1>4. SessionType' /\ QueueType' /\ LockType' /\ HistoryType'
  BY DEF TypeOK, DispatchLive, session, DispatchFrame, history, sending,
       queue, elpp, user, SessionType, QueueType, LockType, HistoryType
<1>5. QED
  BY <1>1, <1>2, <1>3, <1>4 DEF TypeOK

LEMMA DispatchTotalType ==
  ASSUME TypeOK, DispatchTotal
  PROVE  TypeOK'
<1>1. QueueType'
  <2>1. BulkSize \in Nat /\ Len(m_requests) \in Nat
    BY ResidueClientAssumption DEF TypeOK, QueueType
  <2>2. QED
    BY <2>1 DEF TypeOK, DispatchTotal, totalRequests, queue, history, QueueType
<1>2. PcType'
  BY ThreadsFacts DEF TypeOK, DispatchTotal, Goto, totalRequests, PcType,
       ConnectPcs, DispatcherPcs, UserPcs, AppPcs, Connectors
<1>3. FlagsType' /\ SessionType' /\ LockType' /\ FrameType' /\ HistoryType'
  BY DEF TypeOK, DispatchTotal, elpp, DispatchFrame, user, flags, session,
       FlagsType, SessionType, LockType, FrameType, HistoryType
<1>4. QED
  BY <1>1, <1>2, <1>3 DEF TypeOK

LEMMA DispatchPopType ==
  ASSUME TypeOK, PopBound, DispatchPop
  PROVE  TypeOK'
<1>1. QueueType'
  <2>1. CASE TakeOldest /\ Len(batch) < total
    <3>1. m_requests # <<>>
      BY <2>1 DEF TypeOK, QueueType, PopBound
    <3>2. QED
      BY <2>1, <3>1 DEF TypeOK, DispatchPop, TakeOldest, history, QueueType
  <2>2. CASE UNCHANGED <<batch, m_requests>>
    BY <2>2 DEF TypeOK, DispatchPop, history, QueueType
  <2>3. QED
    BY <2>1, <2>2 DEF DispatchPop
<1>2. PcType'
  BY ThreadsFacts DEF TypeOK, DispatchPop, Goto, TakeOldest, PcType,
       ConnectPcs, DispatcherPcs, UserPcs, AppPcs, Connectors
<1>3. FlagsType' /\ SessionType' /\ LockType' /\ FrameType' /\ HistoryType'
  BY DEF TypeOK, DispatchPop, elpp, DispatchFrame, user, flags, session,
       FlagsType, SessionType, LockType, FrameType, HistoryType
<1>4. QED
  BY <1>1, <1>2, <1>3 DEF TypeOK

LEMMA DispatcherCheckType ==
  ASSUME TypeOK, DispatcherCheck
  PROVE  TypeOK'
<1>1. PcType'
  BY ThreadsFacts DEF TypeOK, DispatcherCheck, Goto, PcType, ConnectPcs,
       DispatcherPcs, UserPcs, AppPcs, Connectors
<1>2. FlagsType' /\ SessionType' /\ QueueType' /\ LockType' /\ FrameType' /\ HistoryType'
  BY DEF TypeOK, DispatcherCheck, othersThanPc, user, elpp, flags, session,
       sending, history, queue, control, FlagsType, SessionType, QueueType,
       LockType, FrameType, HistoryType
<1>3. QED
  BY <1>1, <1>2 DEF TypeOK

LEMMA DispatcherDisconnectType ==
  ASSUME TypeOK, DispatcherDisconnect
  PROVE  TypeOK'
<1>1. FlagsType'
  BY DEF TypeOK, DispatcherDisconnect, elpp, DispatchFrame, user, FlagsType
<1>2. PcType'
  BY ThreadsFacts DEF TypeOK, DispatcherDisconnect, Goto, PcType, ConnectPcs,
       DispatcherPcs, UserPcs, AppPcs, Connectors
<1>3. SessionType' /\ QueueType' /\ LockType' /\ FrameType' /\ HistoryType'
  BY DEF TypeOK, DispatcherDisconnect, session, DispatchFrame, history,
       sending, queue, elpp, user, SessionType, QueueType, LockType,
       FrameType, HistoryType
<1>4. QED
  BY <1>1, <1>2, <1>3 DEF TypeOK

LEMMA DispatcherUninstallType ==
  ASSUME TypeOK, DispatcherUninstall
  PROVE  TypeOK'
<1>1. LockType'
  BY ThreadsFacts DEF TypeOK, DispatcherUninstall, DispatchFrame,
       ChangeCallbacks, LockType, Connectors
<1>2. PcType'
  BY ThreadsFacts DEF TypeOK, DispatcherUninstall, Goto, PcType, ConnectPcs,
       DispatcherPcs, UserPcs, AppPcs, Connectors
<1>3. HistoryType'
  BY DEF TypeOK, DispatcherUninstall, DispatchFrame, user, ChangeCallbacks,
       HistoryType, Causes
<1>4. FlagsType' /\ SessionType' /\ QueueType' /\ FrameType'
  BY DEF TypeOK, DispatcherUninstall, DispatchFrame, user, session, history,
       sending, queue, FlagsType, SessionType, QueueType, FrameType
<1>5. QED
  BY <1>1, <1>2, <1>3, <1>4 DEF TypeOK

LEMMA DispatcherStopType ==
  ASSUME TypeOK, DispatcherStop
  PROVE  TypeOK'
<1>1. FlagsType'
  BY DEF TypeOK, DispatcherStop, RunningLowered, elpp, DispatchFrame, user, FlagsType
<1>2. PcType'
  BY ThreadsFacts DEF TypeOK, DispatcherStop, Goto, PcType, ConnectPcs,
       DispatcherPcs, UserPcs, AppPcs, Connectors
<1>3. SessionType' /\ QueueType' /\ LockType' /\ FrameType' /\ HistoryType'
  BY DEF TypeOK, DispatcherStop, session, DispatchFrame, history, sending,
       queue, elpp, user, SessionType, QueueType, LockType, FrameType,
       HistoryType
<1>4. QED
  BY <1>1, <1>2, <1>3 DEF TypeOK

LEMMA DisconnectCheckType ==
  ASSUME TypeOK, DisconnectCheck
  PROVE  TypeOK'
<1>1. FlagsType'
  BY DEF TypeOK, DisconnectCheck, UserFrame, elpp, user, AfterDisconnect,
       FlagsType
<1>2. PcType'
  BY ThreadsFacts DEF TypeOK, DisconnectCheck, AfterDisconnect, Goto, PcType,
       ConnectPcs, DispatcherPcs, UserPcs, AppPcs, Connectors
<1>3. SessionType' /\ QueueType' /\ LockType' /\ FrameType' /\ HistoryType'
  BY DEF TypeOK, DisconnectCheck, UserFrame, session, sending, history, queue,
       elpp, user, SessionType, QueueType, LockType, FrameType, HistoryType
<1>4. QED
  BY <1>1, <1>2, <1>3 DEF TypeOK

LEMMA DisconnectFlagType ==
  ASSUME TypeOK, DisconnectFlag
  PROVE  TypeOK'
<1>1. FlagsType'
  BY DEF TypeOK, DisconnectFlag, user, UserFrame, elpp, FlagsType
<1>2. PcType'
  BY ThreadsFacts DEF TypeOK, DisconnectFlag, Goto, PcType, ConnectPcs,
       DispatcherPcs, UserPcs, AppPcs, Connectors
<1>3. SessionType' /\ QueueType' /\ LockType' /\ FrameType' /\ HistoryType'
  BY DEF TypeOK, DisconnectFlag, UserFrame, session, sending, history, queue,
       elpp, user, SessionType, QueueType, LockType, FrameType, HistoryType
<1>4. QED
  BY <1>1, <1>2, <1>3 DEF TypeOK

LEMMA WaitType ==
  ASSUME TypeOK, Wait
  PROVE  TypeOK'
<1>1. LockType'
  BY ThreadsFacts DEF TypeOK, Wait, UserFrame, elpp, LockType, Connectors
<1>2. PcType'
  BY ThreadsFacts DEF TypeOK, Wait, Goto, PcType, ConnectPcs, DispatcherPcs,
       UserPcs, AppPcs, Connectors
<1>3. HistoryType'
  BY DEF TypeOK, Wait, user, UserFrame, HistoryType, Causes
<1>4. FlagsType' /\ SessionType' /\ QueueType' /\ FrameType'
  BY DEF TypeOK, Wait, user, UserFrame, elpp, session, sending, history,
       queue, FlagsType, SessionType, QueueType, FrameType
<1>5. QED
  BY <1>1, <1>2, <1>3, <1>4 DEF TypeOK

LEMMA DisconnectStopType ==
  ASSUME TypeOK, DisconnectStop
  PROVE  TypeOK'
<1>1. FlagsType'
  BY DEF TypeOK, DisconnectStop, UserFrame, elpp, user, AfterDisconnect,
       FlagsType
<1>2. PcType'
  BY ThreadsFacts DEF TypeOK, DisconnectStop, AfterDisconnect, Goto, PcType,
       ConnectPcs, DispatcherPcs, UserPcs, AppPcs, Connectors
<1>3. SessionType' /\ QueueType' /\ LockType' /\ FrameType' /\ HistoryType'
  BY DEF TypeOK, DisconnectStop, UserFrame, session, sending, history, queue,
       elpp, user, SessionType, QueueType, LockType, FrameType, HistoryType
<1>4. QED
  BY <1>1, <1>2, <1>3 DEF TypeOK

LEMMA ReturnType ==
  ASSUME TypeOK, Return
  PROVE  TypeOK'
<1>1. FlagsType'
  BY DEF TypeOK, Return, user, UserFrame, elpp, FlagsType
<1>2. PcType'
  BY ThreadsFacts DEF TypeOK, Return, Goto, PcType, ConnectPcs, DispatcherPcs,
       UserPcs, AppPcs, Connectors
<1>3. FrameType'
  BY DEF TypeOK, Return, user, UserFrame, FrameType, Connectors, Frames
<1>4. SessionType' /\ QueueType' /\ LockType' /\ HistoryType'
  BY DEF TypeOK, Return, UserFrame, session, sending, history, queue, elpp,
       user, SessionType, QueueType, LockType, HistoryType
<1>5. QED
  BY <1>1, <1>2, <1>3, <1>4 DEF TypeOK

LEMMA AgeType ==
  ASSUME TypeOK, Age
  PROVE  TypeOK'
<1>1. SessionType'
  BY DEF TypeOK, Age, SessionType, ClientType
<1>2. HistoryType'
  BY DEF TypeOK, Age, user, HistoryType, Causes
<1>3. FlagsType' /\ QueueType' /\ LockType' /\ PcType' /\ FrameType'
  BY DEF TypeOK, Age, user, elpp, flags, history, sending, queue, control,
       FlagsType, QueueType, LockType, PcType, FrameType
<1>4. QED
  BY <1>1, <1>2, <1>3 DEF TypeOK

LEMMA LogType ==
  ASSUME TypeOK, NEW a \in Apps, Log(a)
  PROVE  TypeOK'
<1>1. LockType'
  BY ThreadsFacts DEF TypeOK, Log, AppFrame, control, LockType, Connectors
<1>2. PcType'
  BY ThreadsFacts DEF TypeOK, Log, Goto, PcType, ConnectPcs, DispatcherPcs,
       UserPcs, AppPcs, Connectors
<1>3. FlagsType' /\ SessionType' /\ QueueType' /\ FrameType' /\ HistoryType'
  BY DEF TypeOK, Log, user, AppFrame, flags, session, queue, sending, history,
       control, FlagsType, SessionType, QueueType, FrameType, HistoryType
<1>4. QED
  BY <1>1, <1>2, <1>3 DEF TypeOK

LEMMA IterateType ==
  ASSUME TypeOK, NEW a \in Apps, Iterate(a)
  PROVE  TypeOK'
<1>1. LockType'
  BY ThreadsFacts DEF TypeOK, Iterate, AppFrame, control, LockType, Connectors
<1>2. PcType'
  BY ThreadsFacts DEF TypeOK, Iterate, Goto, PcType, ConnectPcs,
       DispatcherPcs, UserPcs, AppPcs, Connectors
<1>3. HistoryType'
  BY DEF TypeOK, Iterate, AppFrame, user, HistoryType, Causes
<1>4. FlagsType' /\ SessionType' /\ QueueType' /\ FrameType'
  BY DEF TypeOK, Iterate, AppFrame, user, flags, session, sending, history,
       queue, control, FlagsType, SessionType, QueueType, FrameType
<1>5. QED
  BY <1>1, <1>2, <1>3, <1>4 DEF TypeOK

LEMMA AddToQueueType ==
  ASSUME TypeOK, NEW a \in Apps, AddToQueue(a)
  PROVE  TypeOK'
<1>1. QueueType'
  BY DEF TypeOK, AddToQueue, Pushed, AppFrame, sending, history, QueueType
<1>2. LockType'
  BY ThreadsFacts DEF TypeOK, AddToQueue, Pushed, AppFrame, control, LockType,
       Connectors
<1>3. PcType'
  BY ThreadsFacts DEF TypeOK, AddToQueue, Pushed, Goto, PcType, ConnectPcs,
       DispatcherPcs, UserPcs, AppPcs, Connectors
<1>4. FlagsType' /\ SessionType' /\ FrameType' /\ HistoryType'
  BY DEF TypeOK, AddToQueue, AppFrame, user, flags, session, control,
       FlagsType, SessionType, FrameType, HistoryType
<1>5. QED
  BY <1>1, <1>2, <1>3, <1>4 DEF TypeOK

LEMMA CallType ==
  ASSUME TypeOK, NEW c \in Calls, Call(c)
  PROVE  TypeOK'
<1>1. FlagsType'
  BY DEF TypeOK, Call, user, UserFrame, elpp, FlagsType
<1>2. PcType'
  <2>1. \E l \in {"c_begin", "u_check", "u_join"} : Goto("user", l)
    BY ResidueClientAssumption DEF Call
  <2>2. QED
    BY <2>1, GotoType, GotoUserType DEF ConnectPcs, UserPcs, Connectors
<1>3. FrameType'
  BY DEF TypeOK, Call, user, UserFrame, FrameType, Connectors, Frames
<1>4. HistoryType'
  BY DEF TypeOK, Call, user, UserFrame, HistoryType, Causes
<1>5. SessionType' /\ QueueType' /\ LockType'
  BY DEF TypeOK, Call, UserFrame, session, sending, history, queue, elpp,
       SessionType, QueueType, LockType
<1>6. QED
  BY <1>1, <1>2, <1>3, <1>4, <1>5 DEF TypeOK

-----------------------------------------------------------------------------
(* Only four actions touch the queue and what is taken from it. *)
qvars == <<m_requests, enq, batch, total, delivered, lost>>

LEMMA ConnectLeavesQueue ==
  ASSUME NEW t \in Connectors, ConnectStep(t)
  PROVE  UNCHANGED qvars
<1> USE DEF qvars, queue, sending, history
<1>1. CASE ConnectBegin(t) \/ ConnectNet(t) \/ ResetFlags(t) \/ ResetLock(t)
  BY <1>1 DEF ConnectBegin, ConnectNet, ResetFlags, ResetLock
<1>2. CASE ResetConnect(t) \/ ResetConnectAgain(t) \/ ResetReply(t) \/ ResetAck(t)
             \/ ResetAckAgain(t) \/ LoadConnect(t)
  BY <1>2 DEF ResetConnect, ResetConnectAgain, ResetReply, ResetAck, ResetAckAgain,
              LoadConnect, HandshakeFrame
<1>3. CASE Load(t) \/ LoadUnreadable(t) \/ ResetUnlock(t)
  BY <1>3 DEF Load, LoadUnreadable, ResetUnlock
<1>4. CASE UninstallDefault(t) \/ InstallResidue(t) \/ SetResidue(t) \/ RunDispatcher(t)
  BY <1>4 DEF UninstallDefault, InstallResidue, SetResidue, RunDispatcher, OnConnectFrame
<1>5. CASE HealthCheck(t) \/ Touch(t) \/ TouchReply(t)
  BY <1>5 DEF HealthCheck, Touch, TouchReply
<1>6. QED
  BY <1>1, <1>2, <1>3, <1>4, <1>5 DEF ConnectStep

LEMMA OthersLeaveQueue ==
  ASSUME [Next]_vars, ~DispatchTotal, ~DispatchPop, ~DispatchSend,
         \A a \in Apps : ~AddToQueue(a)
  PROVE  UNCHANGED qvars
<1> USE DEF qvars, queue, sending, history
<1>1. CASE \E t \in Connectors : ConnectStep(t)
  BY <1>1, ConnectLeavesQueue DEF qvars
<1>2. CASE DispatcherRun \/ DispatchWhile \/ DispatchWait \/ DispatcherCheck
  BY <1>2 DEF DispatcherRun, DispatchWhile, DispatchWait, DispatcherCheck, othersThanPc
<1>3. CASE DispatchLive \/ DispatcherDisconnect \/ DispatcherUninstall \/ DispatcherStop
  BY <1>3 DEF DispatchLive, DispatcherDisconnect, DispatcherUninstall, DispatcherStop
<1>4. CASE DisconnectCheck \/ DisconnectFlag \/ Wait \/ DisconnectStop \/ Return
             \/ \E c \in Calls : Call(c)
  BY <1>4 DEF DisconnectCheck, DisconnectFlag, Wait, DisconnectStop, Return, Call, UserFrame
<1>5. CASE \E a \in Apps : Log(a) \/ Iterate(a)
  BY <1>5 DEF Log, Iterate, AppFrame
<1>6. CASE Age
  BY <1>6 DEF Age
<1>7. CASE UNCHANGED vars
  BY <1>7 DEF vars
<1>8. QED
  BY <1>1, <1>2, <1>3, <1>4, <1>5, <1>6, <1>7
     DEF Next, DispatcherStep, UserStep, AppStep, Connectors

LEMMA PopBoundStep ==
  ASSUME TypeOK, PopBound, [Next]_vars
  PROVE  PopBound'
<1>0. /\ m_requests \in Seq(Nat) /\ batch \in Seq(Nat) /\ total \in Nat
      /\ enq \in Nat
  BY DEF TypeOK, QueueType
<1>1. CASE DispatchTotal
  <2>1. BulkSize \in Nat
    BY ResidueClientAssumption
  <2>2. QED
    BY <1>0, <1>1, <2>1 DEF DispatchTotal, totalRequests, queue, PopBound
<1>2. CASE DispatchPop
  <2>1. CASE TakeOldest /\ Len(batch) < total
    <3>1. m_requests # <<>>
      BY <1>0, <2>1 DEF PopBound
    <3>2. Len(batch') = Len(batch) + 1 /\ Len(m_requests') = Len(m_requests) - 1
      BY <1>0, <2>1, <3>1 DEF TakeOldest
    <3>3. QED
      BY <1>0, <1>2, <3>2 DEF DispatchPop, PopBound
  <2>2. CASE UNCHANGED <<batch, m_requests>>
    BY <1>2, <2>2 DEF DispatchPop, PopBound
  <2>3. QED
    BY <1>2, <2>1, <2>2 DEF DispatchPop
<1>3. CASE DispatchSend
  BY <1>0, <1>3 DEF DispatchSend, QueueAfterSend, PopBound
<1>4. CASE \E a \in Apps : AddToQueue(a)
  BY <1>0, <1>4 DEF AddToQueue, Pushed, AppFrame, sending, PopBound
<1>5. CASE UNCHANGED qvars
  BY <1>5 DEF qvars, PopBound
<1>6. QED
  BY <1>1, <1>2, <1>3, <1>4, <1>5, OthersLeaveQueue

LEMMA TypeStep ==
  ASSUME TypeOK, PopBound, [Next]_vars
  PROVE  TypeOK'
<1>1. ASSUME NEW t \in Connectors, ConnectStep(t)
      PROVE  TypeOK'
  BY <1>1, ConnectBeginType, ConnectNetType, ResetFlagsType, ResetLockType,
     ResetConnectType, ResetConnectAgainType, ResetReplyType, ResetAckType,
     ResetAckAgainType, LoadType, LoadUnreadableType, LoadConnectType,
     UninstallDefaultType, InstallResidueType, SetResidueType, RunDispatcherType, ResetUnlockType,
     HealthCheckType, TouchType, TouchReplyType
     DEF ConnectStep
<1>2. CASE DispatcherStep
  BY <1>1, <1>2, DispatcherRunType, DispatchWhileType, DispatchWaitType, DispatchLiveType,
     DispatchTotalType, DispatchPopType, DispatchSendType, DispatcherCheckType,
     DispatcherDisconnectType, DispatcherUninstallType, DispatcherStopType
     DEF DispatcherStep, Connectors
<1>3. CASE UserStep
  BY <1>1, <1>3, DisconnectCheckType, DisconnectFlagType, WaitType, DisconnectStopType,
     ReturnType
     DEF UserStep, Connectors
<1>4. CASE \E c \in Calls : Call(c)
  BY <1>4, CallType
<1>5. CASE \E a \in Apps : Log(a) \/ AppStep(a)
  BY <1>5, LogType, IterateType, AddToQueueType DEF AppStep
<1>6. CASE Age
  BY <1>6, AgeType
<1>7. CASE UNCHANGED vars
  BY <1>7 DEF vars, flags, session, elpp, control, user, sending, history, queue,
     TypeOK, FlagsType, SessionType, QueueType, LockType, PcType, FrameType, HistoryType
<1>8. QED
  BY <1>2, <1>3, <1>4, <1>5, <1>6, <1>7 DEF Next

(* Every variable keeps its type, a client that is up has a host, only the *)
(* user's thread loads connections and the dispatcher never pops an empty  *)
(* deque: dispatch(), addToQueue() and every path through reset().         *)
THEOREM TypeCorrect == Spec => [](TypeOK /\ PopBound)
<1>1. Init => TypeOK /\ PopBound
  BY InitTypeOK DEF Init, PopBound
<1>2. TypeOK /\ PopBound /\ [Next]_vars => (TypeOK /\ PopBound)'
  BY TypeStep, PopBoundStep
<1>3. QED
  BY <1>1, <1>2, PTL DEF Spec

-----------------------------------------------------------------------------
(* Which thread a step moves: the dispatcher holds messages only between   *)
(* popping and sending them, and its thread object is replaced only after  *)
(* the thread has finished.                                                *)

(* Only thread t moves. *)
Moves(t) == \A u \in Threads \ {t} : pc'[u] = pc[u]

LEMMA GotoMoves ==
  ASSUME TypeOK, NEW t \in Threads, NEW l, Goto(t, l)
  PROVE  Moves(t)
BY DEF TypeOK, PcType, Goto, Moves

LEMMA StayMoves ==
  ASSUME NEW t \in Threads, UNCHANGED pc
  PROVE  Moves(t)
BY DEF Moves

(* Where a step of the connect path takes its thread: on, back to dispatch *)
(* or to the end of the user's call.                                       *)
Landings == ConnectPcs \cup {"d_pop", "d_while", "d_total", "u_end"}

(* Only thread t moves, and the connect path does not end the thread.      *)
Walks(t) == Moves(t) /\ pc'[t] \in Landings \cup {pc[t]}

LEMMA GotoWalks ==
  ASSUME TypeOK, NEW t \in Threads, NEW l \in Landings, Goto(t, l)
  PROVE  Walks(t)
BY GotoMoves DEF TypeOK, PcType, Goto, Walks

LEMMA StayWalks ==
  ASSUME NEW t \in Threads, UNCHANGED pc
  PROVE  Walks(t)
BY StayMoves DEF Walks

LEMMA ThrowWalks ==
  ASSUME TypeOK, NEW t \in Connectors, NEW exception, Throw(t, exception)
  PROVE  Walks(t) \/ (t \notin {"user", "disp"}) \/ exception \notin {"residue", "system"}
<1>1. t \in Threads
  BY DEF Threads
<1>2. \/ \E l \in Landings : Goto(t, l)
      \/ UNCHANGED pc
      \/ t \notin {"user", "disp"}
      \/ exception \notin {"residue", "system"}
  BY DEF Throw, Landings, ConnectPcs
<1>3. QED
  BY <1>1, <1>2, GotoWalks, StayWalks

LEMMA ConnectHandlerFailsWalks ==
  ASSUME TypeOK, NEW t \in Connectors, NEW text, NEW used, NEW up,
         ConnectHandlerFails(t, text, used, up)
  PROVE  Walks(t)
<1>1. t \in Threads /\ t \in {"user", "disp"}
  BY DEF Threads, Connectors
<1>2. Goto(t, "r_again") \/ Throw(t, "residue")
  BY DEF ConnectHandlerFails, ThrowUnlock
<1>3. QED
  BY <1>1, <1>2, GotoWalks, ThrowWalks DEF Landings, ConnectPcs

LEMMA AckHandlerFailsWalks ==
  ASSUME TypeOK, NEW t \in Connectors, NEW text, NEW used,
         AckHandlerFails(t, text, used)
  PROVE  Walks(t)
<1>1. t \in Threads
  BY DEF Threads
<1>2. Goto(t, "r_ackagain") \/ ConnectHandlerFails(t, text, used, connClient.up)
  BY DEF AckHandlerFails
<1>3. QED
  BY <1>1, <1>2, GotoWalks, ConnectHandlerFailsWalks DEF Landings, ConnectPcs

(* A step of the connect path starts inside it, moves only its own thread, *)
(* and but for RunDispatcher leaves the dispatcher's thread object alone.  *)
LEMMA ConnectMoves ==
  ASSUME TypeOK, NEW t \in Connectors, ConnectStep(t)
  PROVE  /\ pc[t] \in ConnectPcs
         /\ RunDispatcher(t) \/ (Walks(t) /\ UNCHANGED m_dispatcher)
<1>0. t \in Threads /\ t \in {"user", "disp"}
  BY DEF Threads, Connectors
<1>1. CASE ConnectBegin(t)
  <2>1. \/ \E l \in Landings : Goto(t, l)
        \/ UNCHANGED pc
    BY <1>1 DEF ConnectBegin, Landings, ConnectPcs
  <2>2. QED
    BY <1>0, <1>1, <2>1, GotoWalks, StayWalks DEF ConnectBegin, At, ConnectPcs
<1>2. CASE ConnectNet(t)
  <2>1. (\E l \in Landings : Goto(t, l)) \/ \E e \in {"residue", "system"} : Throw(t, e)
    BY <1>2 DEF ConnectNet, Landings, ConnectPcs
  <2>2. QED
    BY <1>0, <1>2, <2>1, GotoWalks, ThrowWalks DEF ConnectNet, At, ConnectPcs
<1>3. CASE ResetFlags(t) \/ ResetLock(t) \/ Load(t) \/ ResetUnlock(t)
  <2>1. \E l \in Landings : Goto(t, l)
    BY <1>3 DEF ResetFlags, ResetLock, Load, ResetUnlock, Landings, ConnectPcs
  <2>2. QED
    BY <1>0, <1>3, <2>1, GotoWalks
       DEF ResetFlags, ResetLock, Load, ResetUnlock, At, ConnectPcs
<1>4. CASE ResetConnect(t)
  <2>1. \E retry \in BOOLEAN : \E o \in SendOutcomes(connClient.up, retry) :
           \/ \E l \in Landings : Goto(t, l)
           \/ \E text, used, up : ConnectHandlerFails(t, text, used, up)
           \/ \E e \in {"residue", "system"} : Throw(t, e)
           \/ o.how \notin Hows
    BY <1>4 DEF ResetConnect, ThrowUnlock, Hows, Landings, ConnectPcs
  <2>2. \/ \E l \in Landings : Goto(t, l)
        \/ \E text, used, up : ConnectHandlerFails(t, text, used, up)
        \/ \E e \in {"residue", "system"} : Throw(t, e)
    BY <2>1, SendOutcomesFacts DEF TypeOK, SessionType, ClientType
  <2>3. QED
    BY <1>0, <1>4, <2>2, GotoWalks, ThrowWalks, ConnectHandlerFailsWalks
       DEF ResetConnect, At, ConnectPcs
<1>5. CASE ResetConnectAgain(t)
  <2>1. (\E l \in Landings : Goto(t, l)) \/ \E e \in {"residue", "system"} : Throw(t, e)
    BY <1>5 DEF ResetConnectAgain, ThrowUnlock, Landings, ConnectPcs
  <2>2. QED
    BY <1>0, <1>5, <2>1, GotoWalks, ThrowWalks DEF ResetConnectAgain, At, ConnectPcs
<1>6. CASE ResetReply(t)
  <2>1. (\E l \in Landings : Goto(t, l))
        \/ \E text, used, up : ConnectHandlerFails(t, text, used, up)
    BY <1>6 DEF ResetReply, Landings, ConnectPcs
  <2>2. QED
    BY <1>0, <1>6, <2>1, GotoWalks, ConnectHandlerFailsWalks DEF ResetReply, At, ConnectPcs
<1>7. CASE ResetAck(t)
  <2>1. \E retry \in BOOLEAN : \E o \in SendOutcomes(connClient.up, retry) :
           \/ \E l \in Landings : Goto(t, l)
           \/ \E text, used : AckHandlerFails(t, text, used)
           \/ \E text, used, up : ConnectHandlerFails(t, text, used, up)
           \/ o.how \notin Hows
    BY <1>7 DEF ResetAck, Hows, Landings, ConnectPcs
  <2>2. \/ \E l \in Landings : Goto(t, l)
        \/ \E text, used : AckHandlerFails(t, text, used)
        \/ \E text, used, up : ConnectHandlerFails(t, text, used, up)
    BY <2>1, SendOutcomesFacts DEF TypeOK, SessionType, ClientType
  <2>3. QED
    BY <1>0, <1>7, <2>2, GotoWalks, AckHandlerFailsWalks, ConnectHandlerFailsWalks
       DEF ResetAck, At, ConnectPcs
<1>8. CASE ResetAckAgain(t)
  <2>1. (\E l \in Landings : Goto(t, l))
        \/ \E text, used, up : ConnectHandlerFails(t, text, used, up)
    BY <1>8 DEF ResetAckAgain, Landings, ConnectPcs
  <2>2. QED
    BY <1>0, <1>8, <2>1, GotoWalks, ConnectHandlerFailsWalks
       DEF ResetAckAgain, At, ConnectPcs
<1>9. CASE LoadConnect(t) \/ LoadUnreadable(t)
  <2>1. \/ \E l \in Landings : Goto(t, l)
        \/ Throw(t, "residue")
        \/ \E text, used : AckHandlerFails(t, text, used)
    BY <1>9 DEF LoadConnect, LoadUnreadable, Landings, ConnectPcs
  <2>2. QED
    BY <1>0, <1>9, <2>1, GotoWalks, ThrowWalks, AckHandlerFailsWalks
       DEF LoadConnect, LoadUnreadable, At, ConnectPcs
<1>10. CASE UninstallDefault(t) \/ InstallResidue(t) \/ SetResidue(t)
  <2>1. (\E l \in Landings : Goto(t, l)) \/ UNCHANGED pc
    BY <1>10 DEF UninstallDefault, InstallResidue, SetResidue, Landings, ConnectPcs
  <2>2. QED
    BY <1>0, <1>10, <2>1, GotoWalks, StayWalks
       DEF UninstallDefault, InstallResidue, SetResidue, At, ConnectPcs
<1>11. CASE RunDispatcher(t)
  BY <1>11 DEF RunDispatcher, At, ConnectPcs
<1>12. CASE HealthCheck(t) \/ TouchReply(t)
  <2>1. \E l \in Landings : Goto(t, l)
    BY <1>12 DEF HealthCheck, TouchReply, AfterHealth, Landings, ConnectPcs
  <2>2. QED
    BY <1>0, <1>12, <2>1, GotoWalks DEF HealthCheck, TouchReply, At, ConnectPcs
<1>13. CASE Touch(t)
  <2>1. \E o \in SendOutcomes(connClient.up, TRUE) :
           (\E l \in Landings : Goto(t, l)) \/ UNCHANGED pc \/ o.how \notin Hows
    BY <1>13 DEF Touch, AfterHealth, Hows, Landings, ConnectPcs
  <2>2. (\E l \in Landings : Goto(t, l)) \/ UNCHANGED pc
    BY <2>1, SendOutcomesFacts DEF TypeOK, SessionType, ClientType
  <2>3. QED
    BY <1>0, <1>13, <2>2, GotoWalks, StayWalks DEF Touch, At, ConnectPcs
<1>14. QED
  BY <1>1, <1>2, <1>3, <1>4, <1>5, <1>6, <1>7, <1>8, <1>9, <1>10, <1>11, <1>12, <1>13
     DEF ConnectStep

-----------------------------------------------------------------------------
LEMMA InHandConnect ==
  ASSUME TypeOK, DispatcherInHand, NEW t \in Connectors, ConnectStep(t)
  PROVE  DispatcherInHand'
<1>0. /\ t \in Threads /\ "user" \in Threads /\ "disp" \in Threads
      /\ t \in {"user", "disp"}
  BY DEF Threads, Connectors
<1>1. batch' = batch
  BY ConnectLeavesQueue DEF qvars
<1>2. pc[t] \in ConnectPcs
  BY ConnectMoves
<1>3. CASE ~RunDispatcher(t)
  <2>1. Moves(t) /\ UNCHANGED m_dispatcher
    BY <1>3, ConnectMoves DEF Walks
  <2>2. CASE t = "user"
    BY <1>0, <1>1, <2>1, <2>2 DEF DispatcherInHand, Moves
  <2>3. CASE t = "disp"
    BY <1>1, <1>2, <2>1, <2>3 DEF DispatcherInHand, ConnectPcs
  <2>4. QED
    BY <1>0, <2>2, <2>3
<1>4. CASE RunDispatcher(t)
  <2> DEFINE next == IF frame[t] = "load" THEN "u_end" ELSE "r_unlock"
  <2>1. \/ /\ UNCHANGED m_dispatcher
           /\ Goto(t, next) \/ UNCHANGED pc
        \/ /\ m_dispatcher # "joinable" /\ m_dispatcher' = "joinable"
           /\ pc' = [pc EXCEPT ![t] = next, !["disp"] = "d_run"]
    BY <1>4 DEF RunDispatcher
  <2>2. CASE UNCHANGED m_dispatcher /\ (Goto(t, next) \/ UNCHANGED pc)
    <3>1. Moves(t)
      BY <1>0, <2>2, GotoMoves, StayMoves
    <3>2. QED
      BY <1>0, <1>1, <1>2, <2>2, <3>1 DEF DispatcherInHand, Moves, ConnectPcs
  <2>3. CASE /\ m_dispatcher # "joinable" /\ m_dispatcher' = "joinable"
             /\ pc' = [pc EXCEPT ![t] = next, !["disp"] = "d_run"]
    BY <1>1, <2>3 DEF DispatcherInHand
  <2>4. QED
    BY <2>1, <2>2, <2>3
<1>5. QED
  BY <1>3, <1>4

LEMMA InHandDispatcher ==
  ASSUME TypeOK, DispatcherInHand, DispatcherStep, ~ConnectStep("disp")
  PROVE  DispatcherInHand'
<1>1. "disp" \in DOMAIN pc
  BY ThreadsFacts DEF TypeOK, PcType
<1>2. UNCHANGED m_dispatcher /\ m_dispatcher = "joinable"
  BY DEF DispatcherStep, DispatcherRun, DispatchWhile, DispatchWait, DispatchLive,
         DispatchTotal, DispatchPop, DispatchSend, DispatcherCheck, DispatcherDisconnect,
         DispatcherUninstall, DispatcherStop, DispatchFrame, othersThanPc, At,
         DispatcherInHand
<1>3. CASE DispatchTotal \/ DispatchSend
  BY <1>2, <1>3 DEF DispatchTotal, DispatchSend, DispatcherInHand
<1>4. CASE DispatchPop
  BY <1>1, <1>2, <1>4 DEF DispatchPop, At, Goto, DispatcherInHand
<1>5. CASE \/ DispatcherRun \/ DispatchWhile \/ DispatchWait \/ DispatchLive
           \/ DispatcherCheck \/ DispatcherDisconnect \/ DispatcherUninstall
           \/ DispatcherStop
  BY <1>2, <1>5
     DEF DispatcherRun, DispatchWhile, DispatchWait, DispatchLive, DispatcherCheck,
         DispatcherDisconnect, DispatcherUninstall, DispatcherStop, othersThanPc,
         sending, At, DispatcherInHand
<1>6. QED
  BY <1>3, <1>4, <1>5 DEF DispatcherStep

LEMMA InHandStep ==
  ASSUME TypeOK, DispatcherInHand, [Next]_vars
  PROVE  DispatcherInHand'
<1>0. /\ "user" \in Threads /\ "disp" \in Threads
      /\ \A a \in Apps : a \in Threads /\ a # "disp"
  BY ThreadsFacts
<1>1. CASE DispatcherStep
  BY <1>1, InHandConnect, InHandDispatcher DEF Connectors
<1>2. CASE ConnectStep("user")
  BY <1>2, InHandConnect DEF Connectors
<1>3. CASE DisconnectCheck \/ DisconnectFlag \/ DisconnectStop \/ Return
             \/ \E c \in Calls : Call(c)
  <2>1. /\ \E l : Goto("user", l)
        /\ UNCHANGED <<m_dispatcher, batch>>
    BY <1>3 DEF DisconnectCheck, DisconnectFlag, DisconnectStop, Return, Call, UserFrame,
                sending
  <2>2. QED
    BY <1>0, <2>1, GotoMoves DEF Moves, DispatcherInHand
<1>4. CASE Wait
  <2>1. UNCHANGED batch
    BY <1>4 DEF Wait, UserFrame, sending
  <2>2. CASE UNCHANGED <<pc, m_dispatcher>>
    BY <2>1, <2>2 DEF DispatcherInHand
  <2>3. CASE /\ \/ m_dispatcher = "joined"
                \/ pc["disp"] = "done"
             /\ \E l : Goto("user", l)
    BY <1>0, <2>1, <2>3, GotoMoves DEF Moves, DispatcherInHand
  <2>4. QED
    BY <1>4, <2>2, <2>3 DEF Wait
<1>5. CASE \E a \in Apps : Log(a) \/ AppStep(a)
  <2>1. PICK a \in Apps : Log(a) \/ Iterate(a) \/ AddToQueue(a)
    BY <1>5 DEF AppStep
  <2>2. (\E l : Goto(a, l)) \/ UNCHANGED pc
    BY <2>1 DEF Log, Iterate, AddToQueue
  <2>3. UNCHANGED <<m_dispatcher, batch>>
    BY <2>1 DEF Log, Iterate, AddToQueue, AppFrame, sending
  <2>4. QED
    BY <1>0, <2>2, <2>3, GotoMoves DEF Moves, DispatcherInHand
<1>6. CASE Age \/ UNCHANGED vars
  BY <1>6 DEF Age, vars, sending, DispatcherInHand
<1>7. QED
  BY <1>1, <1>2, <1>3, <1>4, <1>5, <1>6 DEF Next, UserStep

(* The std::thread is deleted or joined only once its function has         *)
(* returned, and messages are in dispatch()'s hands only while it pops and *)
(* sends them: the connects and touches it makes in between hold none.     *)
THEOREM InHand == Spec => []DispatcherInHand
<1>1. Init => DispatcherInHand
  BY ThreadsFacts DEF Init, DispatcherInHand
<1>2. TypeOK /\ DispatcherInHand /\ [Next]_vars => DispatcherInHand'
  BY InHandStep
<1>3. QED
  BY <1>1, <1>2, TypeCorrect, PTL DEF Spec

-----------------------------------------------------------------------------
(* m_running tells of the thread.  Only onConnect raises it, and starts a  *)
(* thread; the thread lowers it as it ends, and disconnect() once it has   *)
(* joined the thread.                                                      *)
JoinedBeforeStop == Alive /\ pc["user"] = "u_stop" => pc["disp"] = "done"

RunningInv == RunningMeansThread /\ JoinedBeforeStop

LEMMA ConnectLeavesRunning ==
  ASSUME NEW t \in Connectors, ConnectStep(t), ~RunDispatcher(t)
  PROVE  m_running' = m_running
<1> USE DEF flags
<1>1. CASE ConnectBegin(t) \/ ConnectNet(t) \/ ResetFlags(t) \/ ResetLock(t)
  BY <1>1 DEF ConnectBegin, ConnectNet, ResetFlags, ResetLock
<1>2. CASE ResetConnect(t) \/ ResetConnectAgain(t) \/ ResetReply(t) \/ ResetAck(t)
             \/ ResetAckAgain(t) \/ LoadConnect(t)
  BY <1>2 DEF ResetConnect, ResetConnectAgain, ResetReply, ResetAck, ResetAckAgain,
              LoadConnect
<1>3. CASE Load(t) \/ LoadUnreadable(t) \/ ResetUnlock(t)
  BY <1>3 DEF Load, LoadUnreadable, ResetUnlock
<1>4. CASE UninstallDefault(t) \/ InstallResidue(t) \/ SetResidue(t)
  BY <1>4 DEF UninstallDefault, InstallResidue, SetResidue
<1>5. CASE HealthCheck(t) \/ Touch(t) \/ TouchReply(t)
  BY <1>5 DEF HealthCheck, Touch, TouchReply
<1>6. QED
  BY <1>1, <1>2, <1>3, <1>4, <1>5 DEF ConnectStep

(* Where the dispatcher ends or stays as it is, and so does the user's way *)
(* to the end of disconnect().                                             *)
LEMMA RunningKept ==
  ASSUME RunningInv, aborted = "no", UNCHANGED <<m_running, m_dispatcher>>,
         pc'["disp"] = "done" <=> pc["disp"] = "done",
         pc'["user"] = "u_stop" => pc["user"] = "u_stop" \/ pc["disp"] = "done"
  PROVE  RunningInv'
BY DEF RunningInv, RunningMeansThread, JoinedBeforeStop, Alive

LEMMA RunningConnect ==
  ASSUME TypeOK, DispatcherInHand, RunningInv, NEW t \in Connectors, ConnectStep(t),
         aborted = "no"
  PROVE  RunningInv'
<1>0. /\ "user" \in Threads /\ "disp" \in Threads /\ t \in {"user", "disp"}
      /\ t \in Threads /\ "user" \in DOMAIN pc /\ "disp" \in DOMAIN pc
  BY ThreadsFacts DEF Connectors, TypeOK, PcType
<1>1. pc[t] \in ConnectPcs
  BY ConnectMoves
<1>2. CASE ~RunDispatcher(t)
  <2>1. Walks(t) /\ UNCHANGED <<m_running, m_dispatcher>>
    BY <1>2, ConnectMoves, ConnectLeavesRunning
  <2>2. pc'[t] \notin {"done", "u_stop"} /\ pc[t] \notin {"done", "u_stop"}
    BY <1>1, <2>1 DEF Walks, Landings, ConnectPcs
  <2>3. \A u \in {"user", "disp"} : pc'[u] = pc[u] \/ u = t
    BY <1>0, <2>1 DEF Walks, Moves
  <2>4. QED
    BY <1>0, <2>1, <2>2, <2>3, RunningKept
<1>3. CASE RunDispatcher(t)
  <2> DEFINE next == IF frame[t] = "load" THEN "u_end" ELSE "r_unlock"
  <2>1. \/ Goto(t, next) /\ UNCHANGED <<m_running, m_dispatcher>>
        \/ aborted' # "no"
        \/ /\ m_running' = TRUE /\ m_dispatcher' = "joinable"
           /\ pc' = [pc EXCEPT ![t] = next, !["disp"] = "d_run"]
    BY <1>3 DEF RunDispatcher
  <2>2. next \notin {"done", "u_stop"}
    OBVIOUS
  <2>3. CASE Goto(t, next) /\ UNCHANGED <<m_running, m_dispatcher>>
    <3>1. \A u \in {"user", "disp"} : pc'[u] = IF u = t THEN next ELSE pc[u]
      BY <1>0, <2>3 DEF Goto, TypeOK, PcType
    <3>2. pc[t] \notin {"done", "u_stop"}
      BY <1>1 DEF ConnectPcs
    <3>3. QED
      BY <1>0, <2>2, <2>3, <3>1, <3>2, RunningKept
  <2>4. CASE aborted' # "no"
    BY <2>4 DEF RunningInv, RunningMeansThread, JoinedBeforeStop, Alive
  <2>5. CASE /\ m_running' = TRUE /\ m_dispatcher' = "joinable"
             /\ pc' = [pc EXCEPT ![t] = next, !["disp"] = "d_run"]
    <3>1. pc'["disp"] = "d_run"
      BY <1>0, <2>5 DEF TypeOK, PcType
    <3>2. t = "user"
      <4>1. SUFFICES ASSUME t = "disp" PROVE m_running = TRUE
        BY <1>0, <1>3, <2>5, <4>1 DEF RunDispatcher, HasDispatcher
      <4>2. QED
        BY <1>1, <4>1 DEF RunningInv, RunningMeansThread, Alive, ConnectPcs, TypeOK, FlagsType
    <3>3. pc'["user"] # "u_stop"
      BY <1>0, <2>2, <2>5, <3>2 DEF TypeOK, PcType
    <3>4. QED
      BY <2>5, <3>1, <3>3 DEF RunningInv, RunningMeansThread, JoinedBeforeStop, Alive
  <2>6. QED
    BY <2>1, <2>3, <2>4, <2>5
<1>4. QED
  BY <1>2, <1>3

LEMMA RunningStep ==
  ASSUME TypeOK, DispatcherInHand, RunningInv, [Next]_vars
  PROVE  RunningInv'
<1>0. /\ "user" \in Threads /\ "disp" \in Threads
      /\ \A a \in Apps : a \in Threads /\ a # "disp" /\ a # "user"
  BY ThreadsFacts
<1>1. CASE UNCHANGED vars
  BY <1>1 DEF vars, flags, RunningInv, RunningMeansThread, JoinedBeforeStop, Alive
<1> SUFFICES ASSUME Next PROVE RunningInv'
  BY <1>1
<1>2. aborted = "no"
  BY DEF Next, DispatcherStep, UserStep, ConnectStep, AppStep, ConnectBegin, ConnectNet,
     ResetFlags, ResetLock, ResetConnect, ResetConnectAgain, ResetReply, ResetAck,
     ResetAckAgain, Load, LoadUnreadable, LoadConnect, UninstallDefault, InstallResidue,
     SetResidue, RunDispatcher, ResetUnlock, HealthCheck, Touch, TouchReply,
     DispatcherRun, DispatchWhile, DispatchWait, DispatchLive, DispatchTotal,
     DispatchPop, DispatchSend, DispatcherCheck, DispatcherDisconnect,
     DispatcherUninstall, DispatcherStop, DisconnectCheck, DisconnectFlag, Wait,
     DisconnectStop, Return, Call, Log, Iterate, AddToQueue, Age, At, Alive
<1>3. CASE \E t \in Connectors : ConnectStep(t)
  BY <1>2, <1>3, RunningConnect
<1>4. CASE \/ DispatcherRun \/ DispatchWhile \/ DispatchWait \/ DispatchLive \/ DispatchTotal
           \/ DispatchPop \/ DispatchSend \/ DispatcherCheck \/ DispatcherDisconnect
           \/ DispatcherUninstall
  <2>1. UNCHANGED <<m_running, m_dispatcher>> /\ pc["disp"] # "done"
    BY <1>4 DEF DispatcherRun, DispatchWhile, DispatchWait, DispatchLive, DispatchTotal,
       DispatchPop, DispatchSend, DispatcherCheck, DispatcherDisconnect,
       DispatcherUninstall, othersThanPc, DispatchFrame, flags, At
  <2>2. m_running = TRUE
    BY <1>2, <2>1 DEF RunningInv, RunningMeansThread, Alive, TypeOK, FlagsType
  <2>3. UNCHANGED pc \/ \E l : l # "done" /\ Goto("disp", l)
    BY <1>4, <2>2 DEF DispatcherRun, DispatchWhile, DispatchWait, DispatchLive,
       DispatchTotal, DispatchPop, DispatchSend, DispatcherCheck, DispatcherDisconnect,
       DispatcherUninstall
  <2>4. pc'["user"] = pc["user"] /\ pc'["disp"] # "done"
    BY <1>0, <2>1, <2>3 DEF Goto, TypeOK, PcType
  <2>5. QED
    BY <1>2, <2>1, <2>4, RunningKept
<1>5. CASE DispatcherStop
  <2>1. m_running' = FALSE /\ Goto("disp", "done")
    BY <1>5 DEF DispatcherStop, RunningLowered
  <2>2. pc'["disp"] = "done"
    BY <1>0, <2>1 DEF Goto, TypeOK, PcType
  <2>3. QED
    BY <2>1, <2>2 DEF RunningInv, RunningMeansThread, JoinedBeforeStop
<1>6. CASE DisconnectCheck \/ DisconnectFlag \/ Return \/ \E c \in Calls : Call(c)
  <2>1. UNCHANGED <<m_running, m_dispatcher>>
    BY <1>6 DEF DisconnectCheck, DisconnectFlag, Return, Call
  <2>2. \E l : l # "u_stop" /\ Goto("user", l)
    BY <1>6, ResidueClientAssumption
       DEF DisconnectCheck, DisconnectFlag, Return, Call, AfterDisconnect
  <2>3. pc'["user"] # "u_stop" /\ pc'["disp"] = pc["disp"]
    BY <1>0, <2>2 DEF Goto, TypeOK, PcType
  <2>4. QED
    BY <1>2, <2>1, <2>3, RunningKept
<1>7. CASE Wait
  <2>1. m_running' = m_running
    BY <1>7 DEF Wait
  <2>2. CASE aborted' # "no"
    BY <2>2 DEF RunningInv, RunningMeansThread, JoinedBeforeStop, Alive
  <2>3. CASE /\ m_dispatcher = "joined" \/ pc["disp"] = "done"
             /\ \E l : Goto("user", l)
    <3>1. pc["disp"] = "done"
      BY <2>3 DEF DispatcherInHand
    <3>2. pc'["disp"] = "done"
      BY <1>0, <2>3, <3>1 DEF Goto, TypeOK, PcType
    <3>3. ~m_running
      BY <1>2, <3>1 DEF RunningInv, RunningMeansThread, Alive
    <3>4. QED
      BY <2>1, <3>2, <3>3 DEF RunningInv, RunningMeansThread, JoinedBeforeStop
  <2>4. QED
    BY <1>2, <1>7, <2>2, <2>3 DEF Wait
<1>8. CASE DisconnectStop
  <2>1. pc["user"] = "u_stop" /\ m_running' = FALSE /\ Goto("user", AfterDisconnect)
    BY <1>8 DEF DisconnectStop, At
  <2>2. pc["disp"] = "done"
    BY <1>2, <2>1 DEF RunningInv, JoinedBeforeStop, Alive
  <2>3. pc'["disp"] = "done"
    BY <1>0, <2>1, <2>2 DEF Goto, TypeOK, PcType
  <2>4. QED
    BY <2>1, <2>3 DEF RunningInv, RunningMeansThread, JoinedBeforeStop
<1>9. CASE \E a \in Apps : Log(a) \/ AppStep(a)
  <2>1. PICK a \in Apps : Log(a) \/ Iterate(a) \/ AddToQueue(a)
    BY <1>9 DEF AppStep
  <2>2. (\E l : Goto(a, l)) \/ UNCHANGED pc
    BY <2>1 DEF Log, Iterate, AddToQueue
  <2>3. UNCHANGED <<m_running, m_dispatcher>>
    BY <2>1 DEF Log, Iterate, AddToQueue, AppFrame, flags
  <2>4. pc'["user"] = pc["user"] /\ pc'["disp"] = pc["disp"]
    BY <1>0, <2>2 DEF Goto, TypeOK, PcType
  <2>5. QED
    BY <1>2, <2>3, <2>4, RunningKept
<1>10. CASE Age
  BY <1>10 DEF Age, flags, RunningInv, RunningMeansThread, JoinedBeforeStop, Alive
<1>11. QED
  BY <1>3, <1>4, <1>5, <1>6, <1>7, <1>8, <1>9, <1>10
     DEF Next, DispatcherStep, UserStep, Connectors

(* Under any faults and any use of the API m_running is raised exactly     *)
(* while there is a dispatcher thread, so onConnect, which goes by it,     *)
(* never starts a second one nor deletes one that runs.                    *)
THEOREM RunningHasThread == Spec => []RunningMeansThread
<1>1. Init => RunningInv
  BY ThreadsFacts DEF Init, RunningInv, RunningMeansThread, JoinedBeforeStop
<1>2. TypeOK /\ DispatcherInHand /\ RunningInv /\ [Next]_vars => RunningInv'
  BY RunningStep
<1>3. RunningInv => RunningMeansThread
  BY DEF RunningInv
<1>4. QED
  BY <1>1, <1>2, <1>3, TypeCorrect, InHand, PTL DEF Spec

-----------------------------------------------------------------------------
(***************************************************************************)
(* What ResidueClient keeps under all faults.  The messages: they reach    *)
(* the servers in the order in which they were queued and no more than     *)
(* once, and each is in one place.  The inductive invariant is Numbering,  *)
(* Settled and InOrder together; ResidueClient implements LogDelivery.     *)
(* The handshakes: reset() on the user's thread and reset() on the         *)
(* dispatcher's exclude each other.  MutexHeld is inductive with TypeOK: a *)
(* step of one thread keeps what MutexHeld says of that thread             *)
(* (OwnsMutex), and takes or releases m_mutex only for itself              *)
(* (OthersMutex), so it keeps what MutexHeld says of the other.            *)
(***************************************************************************)

QueueInv == Numbering /\ Settled /\ InOrder

-----------------------------------------------------------------------------
(* Facts about sequences and intervals. *)
LEMMA ConcatFacts ==
  ASSUME NEW S, NEW d \in Seq(S), NEW e \in Seq(S)
  PROVE  /\ d \o e \in Seq(S) /\ Len(d \o e) = Len(d) + Len(e)
         /\ \A i \in 1..Len(d) : (d \o e)[i] = d[i]
         /\ \A i \in 1..Len(e) : (d \o e)[Len(d) + i] = e[i]
         /\ d \o <<>> = d
OBVIOUS

LEMMA SeqEqual ==
  ASSUME NEW S, NEW d \in Seq(S), NEW e \in Seq(S), Len(d) = Len(e),
         \A i \in 1..Len(d) : d[i] = e[i]
  PROVE  d = e
OBVIOUS

LEMMA IntervalCardinality ==
  ASSUME NEW m \in Nat, NEW n \in Nat
  PROVE  IsFiniteSet((m + 1)..(m + n)) /\ Cardinality((m + 1)..(m + n)) = n
<1> DEFINE a == m + 1
           b == m + n
<1>1. a \in Int /\ b \in Int /\ a = m + 1 /\ b = m + n
  OBVIOUS
<1> HIDE DEF a, b
<1>2. IsFiniteSet(a..b) /\ Cardinality(a..b) = IF a > b THEN 0 ELSE b - a + 1
  BY <1>1, FS_Interval
<1>3. (IF a > b THEN 0 ELSE b - a + 1) = n
  BY <1>1
<1>4. QED
  BY <1>1, <1>2, <1>3

LEMMA QueueTypes ==
  ASSUME TypeOK
  PROVE  /\ m_requests \in Seq(Nat) /\ batch \in Seq(Nat) /\ enq \in Nat
         /\ delivered \in Seq(Hosts \X Nat) /\ lost \subseteq Nat
         /\ Len(m_requests) \in Nat /\ Len(batch) \in Nat /\ Len(delivered) \in Nat
         /\ total \in Nat
BY DEF TypeOK, QueueType

(* Pushing and popping move the border between the places. *)
LEMMA AddToQueueNumbering ==
  ASSUME TypeOK, QueueInv, NEW a \in Apps, AddToQueue(a)
  PROVE  QueueInv'
<1>1. /\ enq' = enq + 1 /\ m_requests' = Append(m_requests, enq + 1)
      /\ UNCHANGED <<batch, delivered, lost>>
  BY DEF AddToQueue, Pushed, AppFrame, sending, history
<1>2. settled' = settled
  BY <1>1, QueueTypes DEF settled
<1>3. Len(m_requests') = Len(m_requests) + 1
  BY <1>1, QueueTypes
<1>4. ASSUME NEW i \in 1..Len(m_requests')
      PROVE  m_requests'[i] = settled + Len(batch) + i
  <2>1. CASE i = Len(m_requests) + 1
    BY <1>1, <2>1, QueueTypes DEF settled
  <2>2. CASE i \in 1..Len(m_requests)
    <3>1. m_requests'[i] = m_requests[i]
      BY <1>1, <2>2, QueueTypes
    <3>2. QED
      BY <2>2, <3>1 DEF QueueInv, Numbering
  <2>3. QED
    BY <1>3, <1>4, <2>1, <2>2, QueueTypes
<1>5. QED
  BY <1>1, <1>2, <1>4 DEF QueueInv, Numbering, Settled, InOrder, Sent

LEMMA DispatchPopNumbering ==
  ASSUME TypeOK, PopBound, QueueInv, DispatchPop
  PROVE  QueueInv'
<1>0. UNCHANGED <<enq, delivered, lost>>
  BY DEF DispatchPop, history
<1>1. CASE UNCHANGED <<batch, m_requests>>
  BY <1>0, <1>1 DEF QueueInv, Numbering, Settled, InOrder, Sent, settled
<1>2. CASE TakeOldest /\ Len(batch) < total
  <2>1. m_requests # <<>>
    BY <1>2, QueueTypes DEF PopBound
  <2>2. /\ batch' = Append(batch, Head(m_requests)) /\ m_requests' = Tail(m_requests)
    BY <1>2 DEF TakeOldest
  <2>8. Len(batch') = Len(batch) + 1 /\ Len(m_requests') = Len(m_requests) - 1
    BY <2>1, <2>2, QueueTypes
  <2>3. settled' = settled
    BY <1>0, <2>8, QueueTypes DEF settled
  <2>4. Head(m_requests) = settled + Len(batch) + 1
    BY <2>1, QueueTypes DEF QueueInv, Numbering
  <2>5. ASSUME NEW i \in 1..Len(batch')
        PROVE  batch'[i] = settled + i
    <3>1. CASE i = Len(batch) + 1
      BY <2>2, <2>4, <3>1, QueueTypes DEF QueueInv, Numbering
    <3>2. CASE i \in 1..Len(batch)
      <4>1. batch'[i] = batch[i]
        BY <2>2, <3>2, QueueTypes
      <4>2. QED
        BY <3>2, <4>1 DEF QueueInv, Numbering
    <3>3. i = Len(batch) + 1 \/ i \in 1..Len(batch)
      <4>1. Len(batch') = Len(batch) + 1 /\ Len(batch) \in Nat /\ i \in 1..Len(batch')
        BY <2>8, QueueTypes
      <4>2. QED
        BY <4>1
    <3>4. QED
      BY <3>1, <3>2, <3>3
  <2>6. ASSUME NEW i \in 1..Len(m_requests')
        PROVE  m_requests'[i] = settled + Len(batch') + i
    <3>1. m_requests'[i] = m_requests[i + 1] /\ i + 1 \in 1..Len(m_requests)
      BY <2>1, <2>2, <2>8, QueueTypes
    <3>2. m_requests[i + 1] = settled + Len(batch) + (i + 1) /\ settled \in Nat
      BY <3>1 DEF QueueInv, Numbering
    <3>3. QED
      BY <2>8, <3>1, <3>2, QueueTypes
  <2>7. QED
    BY <1>0, <2>3, <2>5, <2>6 DEF QueueInv, Numbering, Settled, InOrder, Sent
<1>3. QED
  BY <1>1, <1>2 DEF DispatchPop

LEMMA DispatchTotalNumbering ==
  ASSUME TypeOK, DispatcherInHand, QueueInv, DispatchTotal
  PROVE  QueueInv'
<1>1. batch = <<>>
  BY DEF DispatcherInHand, DispatchTotal, At
<1>2. UNCHANGED <<m_requests, enq, batch, delivered, lost>>
  BY <1>1 DEF DispatchTotal, queue, history
<1>3. QED
  BY <1>2 DEF QueueInv, Numbering, Settled, InOrder, Sent, settled

(* What a send does to the messages: all delivered, or all lost. *)
LEMMA DispatchSendEffect ==
  ASSUME DispatchSend
  PROVE  /\ batch' = <<>> /\ UNCHANGED <<m_requests, enq>>
         /\ \/ \E h : delivered' = delivered \o Numbered(h, batch) /\ lost' = lost
            \/ lost' = lost \cup Members(batch) /\ delivered' = delivered
BY DEF DispatchSend, QueueAfterSend

LEMMA MembersInterval ==
  ASSUME TypeOK, Numbering
  PROVE  /\ Members(batch) = (settled + 1)..(settled + Len(batch))
         /\ Members(m_requests) = (settled + Len(batch) + 1)..enq
         /\ settled + Len(batch) + Len(m_requests) = enq
<1>1. settled + Len(batch) + Len(m_requests) = enq /\ settled \in Nat
  BY QueueTypes DEF settled, Numbering
<1>2. Members(batch) = (settled + 1)..(settled + Len(batch))
  <2>1. ASSUME NEW n \in (settled + 1)..(settled + Len(batch))
        PROVE  n \in Members(batch)
    <3> DEFINE i == n - settled
    <3>1. i \in 1..Len(batch) /\ settled + i = n
      BY <1>1, QueueTypes
    <3>2. batch[i] = n
      BY <3>1 DEF Numbering
    <3>3. QED
      BY <3>1, <3>2 DEF Members
  <2>2. ASSUME NEW i \in 1..Len(batch)
        PROVE  batch[i] \in (settled + 1)..(settled + Len(batch))
    <3>1. batch[i] = settled + i
      BY DEF Numbering
    <3>2. QED
      BY <1>1, <3>1, QueueTypes
  <2>3. QED
    BY <2>1, <2>2 DEF Members
<1>3. Members(m_requests) = (settled + Len(batch) + 1)..enq
  <2>1. ASSUME NEW n \in (settled + Len(batch) + 1)..enq
        PROVE  n \in Members(m_requests)
    <3> DEFINE i == n - settled - Len(batch)
    <3>1. i \in 1..Len(m_requests) /\ settled + Len(batch) + i = n
      BY <1>1, QueueTypes
    <3>2. m_requests[i] = n
      BY <3>1 DEF Numbering
    <3>3. QED
      BY <3>1, <3>2 DEF Members
  <2>2. ASSUME NEW i \in 1..Len(m_requests)
        PROVE  m_requests[i] \in (settled + Len(batch) + 1)..enq
    <3>1. m_requests[i] = settled + Len(batch) + i
      BY DEF Numbering
    <3>2. QED
      BY <1>1, <3>1, QueueTypes
  <2>3. QED
    BY <2>1, <2>2 DEF Members
<1>4. QED
  BY <1>1, <1>2, <1>3

LEMMA NumberedFacts ==
  ASSUME TypeOK, NEW h
  PROVE  /\ Len(delivered \o Numbered(h, batch)) = Len(delivered) + Len(batch)
         /\ \A i \in 1..Len(delivered) :
              (delivered \o Numbered(h, batch))[i] = delivered[i]
         /\ \A i \in 1..Len(batch) :
              (delivered \o Numbered(h, batch))[Len(delivered) + i][2] = batch[i]
<1>1. /\ Numbered(h, batch) \in Seq({h} \X Nat)
      /\ Len(Numbered(h, batch)) = Len(batch)
      /\ \A i \in 1..Len(batch) : Numbered(h, batch)[i] = <<h, batch[i]>>
  BY QueueTypes DEF Numbered
<1>2. /\ delivered \in Seq((Hosts \cup {h}) \X Nat)
      /\ Numbered(h, batch) \in Seq((Hosts \cup {h}) \X Nat)
  BY <1>1, QueueTypes
<1>3. /\ Len(delivered \o Numbered(h, batch)) = Len(delivered) + Len(batch)
      /\ \A i \in 1..Len(delivered) :
           (delivered \o Numbered(h, batch))[i] = delivered[i]
      /\ \A i \in 1..Len(batch) :
           (delivered \o Numbered(h, batch))[Len(delivered) + i] = <<h, batch[i]>>
  <2> DEFINE e == Numbered(h, batch)
  <2> HIDE DEF e
  <2>1. /\ Len(delivered \o e) = Len(delivered) + Len(e)
        /\ \A i \in 1..Len(delivered) : (delivered \o e)[i] = delivered[i]
        /\ \A i \in 1..Len(e) : (delivered \o e)[Len(delivered) + i] = e[i]
    BY <1>2, ConcatFacts DEF e
  <2>2. QED
    BY <1>1, <2>1 DEF e
<1>4. QED
  BY <1>3

LEMMA DispatchSendNumbering ==
  ASSUME TypeOK, QueueInv, TypeOK', DispatchSend
  PROVE  QueueInv'
<1>1. batch' = <<>> /\ UNCHANGED <<m_requests, enq>>
  BY DispatchSendEffect
<1>2. settled' = settled + Len(batch) /\ settled \in Nat
  BY <1>1, QueueTypes DEF settled, QueueInv, Numbering
<1>3. Numbering'
  BY <1>1, <1>2, QueueTypes DEF QueueInv, Numbering
<1>4. Members(batch) = (settled + 1)..(settled + Len(batch))
  BY MembersInterval DEF QueueInv
<1>5. \A n \in Sent : n \in 1..settled
  BY DEF QueueInv, Settled
<1>6. CASE lost' = lost \cup Members(batch) /\ delivered' = delivered
  <2>1. Sent' = Sent /\ InOrder'
    BY <1>6 DEF Sent, QueueInv, InOrder
  <2>2. Sent' \cup lost' = 1..settled' /\ Sent' \cap lost' = {}
    BY <1>2, <1>4, <1>6, <2>1, QueueTypes DEF QueueInv, Settled
  <2>3. QED
    BY <1>3, <2>1, <2>2 DEF QueueInv, Settled
<1>7. ASSUME NEW h, delivered' = delivered \o Numbered(h, batch), lost' = lost
      PROVE  QueueInv'
  <2>1. /\ Len(delivered') = Len(delivered) + Len(batch)
        /\ \A i \in 1..Len(delivered) : delivered'[i] = delivered[i]
        /\ \A i \in 1..Len(batch) : delivered'[Len(delivered) + i][2] = batch[i]
    BY <1>7, NumberedFacts
  <2>2. \A i \in 1..Len(delivered') :
           \/ i \in 1..Len(delivered)
           \/ \E j \in 1..Len(batch) : i = Len(delivered) + j
    <3>1. TAKE i \in 1..Len(delivered')
    <3>2. i \notin 1..Len(delivered) =>
            /\ i - Len(delivered) \in 1..Len(batch)
            /\ i = Len(delivered) + (i - Len(delivered))
      BY <2>1, QueueTypes
    <3>3. QED
      BY <3>2, QueueTypes
  <2>3. Sent' = Sent \cup Members(batch)
    <3>1. ASSUME NEW n \in Sent'
          PROVE  n \in Sent \cup Members(batch)
      <4>1. PICK i \in 1..Len(delivered') : n = delivered'[i][2]
        BY DEF Sent
      <4>2. CASE i \in 1..Len(delivered)
        BY <2>1, <4>1, <4>2 DEF Sent
      <4>3. CASE \E j \in 1..Len(batch) : i = Len(delivered) + j
        BY <2>1, <4>1, <4>3 DEF Members
      <4>4. QED
        BY <2>2, <4>2, <4>3
    <3>2. ASSUME NEW n \in Sent
          PROVE  n \in Sent'
      <4>1. PICK i \in 1..Len(delivered) : n = delivered[i][2]
        BY DEF Sent
      <4>2. i \in 1..Len(delivered') /\ n = delivered'[i][2]
        BY <2>1, <4>1, QueueTypes
      <4>3. QED
        BY <4>2 DEF Sent
    <3>3. ASSUME NEW n \in Members(batch)
          PROVE  n \in Sent'
      <4>1. PICK i \in 1..Len(batch) : n = batch[i]
        BY DEF Members
      <4>2. Len(delivered) + i \in 1..Len(delivered')
        BY <2>1, QueueTypes
      <4>3. QED
        BY <2>1, <4>1, <4>2 DEF Sent
    <3>4. QED
      BY <3>1, <3>2, <3>3
  <2>4. Settled'
    <3>1. Sent' \cup lost' = 1..settled'
      BY <1>2, <1>4, <1>7, <2>3, QueueTypes DEF QueueInv, Settled
    <3>2. Sent' \cap lost' = {}
      BY <1>2, <1>4, <1>7, <2>3, QueueTypes DEF QueueInv, Settled
    <3>3. QED
      BY <3>1, <3>2 DEF Settled
  <2>5. InOrder'
    <3>1. SUFFICES ASSUME NEW i \in 1..Len(delivered'), NEW j \in 1..Len(delivered'), i < j
                   PROVE  delivered'[i][2] < delivered'[j][2]
      BY DEF InOrder
    <3>2. CASE i \in 1..Len(delivered) /\ j \in 1..Len(delivered)
      BY <2>1, <3>1, <3>2 DEF QueueInv, InOrder
    <3>3. CASE i \in 1..Len(delivered) /\ j \notin 1..Len(delivered)
      <4>1. delivered'[i][2] \in 1..settled
        BY <1>5, <2>1, <3>3 DEF Sent
      <4>2. PICK k \in 1..Len(batch) : j = Len(delivered) + k
        BY <2>2, <3>3
      <4>3. delivered'[j][2] = settled + k
        BY <2>1, <4>2 DEF QueueInv, Numbering
      <4>4. QED
        BY <1>2, <4>1, <4>2, <4>3
    <3>4. CASE i \notin 1..Len(delivered)
      <4>1. PICK k \in 1..Len(batch) : i = Len(delivered) + k
        BY <2>2, <3>4
      <4>2. j \notin 1..Len(delivered)
        BY <3>1, <4>1, QueueTypes
      <4>3. PICK m \in 1..Len(batch) : j = Len(delivered) + m
        BY <2>2, <4>2
      <4>4. delivered'[i][2] = settled + k /\ delivered'[j][2] = settled + m
        BY <2>1, <4>1, <4>3 DEF QueueInv, Numbering
      <4>5. QED
        BY <1>2, <3>1, <4>1, <4>3, <4>4, QueueTypes
    <3>5. QED
      BY <3>2, <3>3, <3>4
  <2>6. QED
    BY <1>3, <2>4, <2>5 DEF QueueInv
<1>8. QED
  BY <1>6, <1>7, DispatchSendEffect

LEMMA QueueStep ==
  ASSUME TypeOK, TypeOK', PopBound, DispatcherInHand, QueueInv, [Next]_vars
  PROVE  QueueInv'
<1>1. CASE UNCHANGED qvars
  BY <1>1 DEF qvars, QueueInv, Numbering, Settled, InOrder, Sent, settled
<1>2. QED
  BY <1>1, OthersLeaveQueue, AddToQueueNumbering, DispatchPopNumbering,
     DispatchTotalNumbering, DispatchSendNumbering

THEOREM QueueInvariant == Spec => []QueueInv
<1>1. Init => QueueInv
  BY DEF Init, QueueInv, Numbering, Settled, InOrder, Sent, settled
<1>2. /\ TypeOK /\ PopBound /\ DispatcherInHand /\ QueueInv
      /\ TypeOK' /\ [Next]_vars
      => QueueInv'
  BY QueueStep
<1>3. QED
  BY <1>1, <1>2, TypeCorrect, InHand, PTL DEF Spec

-----------------------------------------------------------------------------
(* Messages reach the servers in the order addToQueue() gave them, and no  *)
(* message reaches them twice, whatever faults, retries and reconnects.    *)
THEOREM DeliveredInOrder == Spec => []InOrder
BY QueueInvariant, PTL DEF QueueInv

(* dispatch() never calls back() on an empty deque, although it reads the  *)
(* size without the lock and before a health check that may take long.     *)
THEOREM PopsFromNonempty == Spec => []NeverPopsEmpty
<1>1. TypeOK /\ PopBound => NeverPopsEmpty
  BY QueueTypes DEF PopBound, NeverPopsEmpty
<1>2. QED
  BY <1>1, TypeCorrect, PTL

(* No message is forgotten or held twice: each is queued, in dispatch()'s  *)
(* hands, delivered or lost.                                               *)
THEOREM EveryMessageAccounted == Spec => []Accounted
<1>1. TypeOK /\ QueueInv => Accounted
  <2>1. SUFFICES ASSUME TypeOK, QueueInv
                 PROVE  Accounted
    OBVIOUS
  <2>2. /\ Members(batch) = (settled + 1)..(settled + Len(batch))
        /\ Members(m_requests) = (settled + Len(batch) + 1)..enq
        /\ settled + Len(batch) + Len(m_requests) = enq
        /\ settled \in Nat
    BY <2>1, MembersInterval DEF QueueInv, Numbering
  <2>3. Sent \cup lost = 1..settled /\ Sent \cap lost = {}
    BY <2>1 DEF QueueInv, Settled
  <2>4. 1..enq = Members(m_requests) \cup Members(batch) \cup Sent \cup lost
    BY <2>1, <2>2, <2>3, QueueTypes
  <2>5. /\ Cardinality(Members(batch)) = Len(batch)
        /\ Cardinality(Members(m_requests)) = Len(m_requests)
        /\ IsFiniteSet(1..settled) /\ Cardinality(1..settled) = settled
    <3>1. Cardinality(Members(batch)) = Len(batch)
      <4>1. settled \in Nat /\ Len(batch) \in Nat
        BY <2>2, QueueTypes
      <4>2. Cardinality((settled + 1)..(settled + Len(batch))) = Len(batch)
        BY <4>1, IntervalCardinality
      <4>3. QED
        BY <2>2, <4>2
    <3>2. Cardinality(Members(m_requests)) = Len(m_requests)
      <4>1. settled + Len(batch) \in Nat /\ Len(m_requests) \in Nat
        BY <2>2, QueueTypes
      <4>2. Cardinality(((settled + Len(batch)) + 1)..((settled + Len(batch)) + Len(m_requests)))
              = Len(m_requests)
        BY <4>1, IntervalCardinality
      <4>3. QED
        BY <2>2, <4>2
    <3>3. IsFiniteSet(1..settled) /\ Cardinality(1..settled) = settled
      <4>1. /\ IsFiniteSet((0 + 1)..(0 + settled))
            /\ Cardinality((0 + 1)..(0 + settled)) = settled
        BY <2>2, IntervalCardinality
      <4>2. 0 + 1 = 1 /\ 0 + settled = settled
        BY <2>2
      <4>3. QED
        BY <4>1, <4>2
    <3>4. QED
      BY <3>1, <3>2, <3>3
  <2>6. Cardinality(Sent) + Cardinality(lost) = settled
    <3>1. IsFiniteSet(Sent) /\ IsFiniteSet(lost)
      BY <2>3, <2>5, FS_Subset
    <3>2. /\ Cardinality(Sent) \in Nat /\ Cardinality(lost) \in Nat
          /\ Cardinality({}) = 0
      BY <3>1, FS_CardinalityType, FS_EmptySet
    <3>3. Cardinality(Sent \cup lost) = Cardinality(Sent) + Cardinality(lost) - 0
      <4>1. Cardinality(Sent \cup lost)
              = Cardinality(Sent) + Cardinality(lost) - Cardinality(Sent \cap lost)
        BY <3>1, FS_Union
      <4>2. QED
        BY <2>3, <3>2, <4>1
    <3>4. QED
      <4>1. Cardinality(Sent) + Cardinality(lost) - 0 = Cardinality(Sent) + Cardinality(lost)
        BY <3>2
      <4>2. QED
        BY <2>3, <2>5, <3>3, <4>1
  <2>7. QED
    <3>1. Cardinality(Members(m_requests)) + Cardinality(Members(batch))
            + Cardinality(Sent) + Cardinality(lost) = enq
      <4>1. Cardinality(Sent) \in Nat /\ Cardinality(lost) \in Nat
        BY <2>3, <2>5, FS_Subset, FS_CardinalityType
      <4>2. Len(m_requests) + Len(batch) + Cardinality(Sent) + Cardinality(lost) = enq
        <5> DEFINE cs == Cardinality(Sent)
                   cl == Cardinality(lost)
        <5>1. /\ cs \in Nat /\ cl \in Nat /\ cs + cl = settled
              /\ Len(m_requests) \in Nat /\ Len(batch) \in Nat
              /\ settled + Len(batch) + Len(m_requests) = enq
          BY <2>1, <2>2, <2>6, <4>1, QueueTypes
        <5> HIDE DEF cs, cl
        <5>2. Len(m_requests) + Len(batch) + cs + cl = enq
          BY <5>1
        <5>3. QED
          BY <5>2 DEF cs, cl
      <4>3. QED
        BY <2>5, <4>2
    <3>2. QED
      BY <2>4, <3>1 DEF Accounted
<1>2. QED
  BY <1>1, TypeCorrect, QueueInvariant, PTL

-----------------------------------------------------------------------------
(* The abstract delivery: every step of the client is one of its steps, or *)
(* changes nothing that it sees.                                           *)
LEMMA PromiseStep ==
  ASSUME TypeOK, TypeOK', PopBound, DispatcherInHand, [Next]_vars
  PROVE  [Promise!Next]_(Promise!vars)
<1> DEFINE seen(d) == [i \in 1..Len(d) |-> d[i][2]]
<1>1. ASSUME NEW a \in Apps, AddToQueue(a)
      PROVE  Promise!Queue
  BY <1>1 DEF AddToQueue, Pushed, AppFrame, sending, history, Promise!Queue
<1>2. CASE DispatchPop
  <2>1. CASE TakeOldest /\ Len(batch) < total
    <3>1. m_requests # <<>>
      BY <2>1, QueueTypes DEF PopBound
    <3>2. Promise!Take
      BY <1>2, <2>1, <3>1 DEF DispatchPop, TakeOldest, history, Promise!Take
    <3>3. QED
      BY <3>2 DEF Promise!Next
  <2>2. CASE UNCHANGED <<batch, m_requests>>
    BY <1>2, <2>2 DEF DispatchPop, history, Promise!vars
  <2>3. QED
    BY <1>2, <2>1, <2>2 DEF DispatchPop
<1>3. CASE DispatchTotal
  <2>1. batch = <<>>
    BY <1>3 DEF DispatcherInHand, DispatchTotal, At
  <2>2. QED
    BY <1>3, <2>1 DEF DispatchTotal, queue, history, Promise!vars
<1>4. CASE DispatchSend
  <2>1. batch' = <<>> /\ UNCHANGED <<m_requests, enq>>
    BY <1>4, DispatchSendEffect
  <2>2. ASSUME NEW h, delivered' = delivered \o Numbered(h, batch), lost' = lost
        PROVE  seen(delivered') = seen(delivered) \o batch
    <3>1. /\ Len(delivered') = Len(delivered) + Len(batch)
          /\ \A i \in 1..Len(delivered) : delivered'[i] = delivered[i]
          /\ \A i \in 1..Len(batch) : delivered'[Len(delivered) + i][2] = batch[i]
      BY <2>2, NumberedFacts
    <3>2. seen(delivered) \in Seq(Nat) /\ Len(seen(delivered)) = Len(delivered)
      BY QueueTypes
    <3>3. /\ seen(delivered) \o batch \in Seq(Nat)
          /\ Len(seen(delivered) \o batch) = Len(delivered')
      BY <3>1, <3>2, QueueTypes
    <3>4. ASSUME NEW i \in 1..Len(delivered')
          PROVE  (seen(delivered) \o batch)[i] = delivered'[i][2]
      <4>1. CASE i \in 1..Len(delivered)
        BY <3>1, <3>2, <4>1, QueueTypes
      <4>2. CASE i \notin 1..Len(delivered)
        <5>1. i - Len(delivered) \in 1..Len(batch)
          BY <3>1, <4>2, QueueTypes
        <5>2. (seen(delivered) \o batch)[i] = batch[i - Len(delivered)]
          BY <3>2, <3>3, <4>2, <5>1, QueueTypes
        <5>3. i = Len(delivered) + (i - Len(delivered))
          BY QueueTypes
        <5>4. QED
          BY <3>1, <5>1, <5>2, <5>3
      <4>3. QED
        BY <4>1, <4>2
    <3>5. seen(delivered') \in Seq(Nat) /\ Len(seen(delivered')) = Len(delivered')
      <4>1. delivered' \in Seq(Hosts \X Nat)
        BY DEF TypeOK, QueueType
      <4>2. QED
        BY <4>1
    <3>6. \A i \in 1..Len(delivered') : seen(delivered')[i] = delivered'[i][2]
      OBVIOUS
    <3>7. QED
      BY <3>3, <3>4, <3>5, <3>6, SeqEqual
  <2>3. CASE batch # <<>>
    <3>1. ASSUME NEW h, delivered' = delivered \o Numbered(h, batch), lost' = lost
          PROVE  Promise!Deliver
      BY <2>1, <2>2, <2>3, <3>1 DEF Promise!Deliver
    <3>2. CASE lost' = lost \cup Members(batch) /\ delivered' = delivered
      BY <2>1, <2>3, <3>2 DEF Members, Promise!Lose, Promise!Next
    <3>3. QED
      BY <1>4, <3>1, <3>2, DispatchSendEffect DEF Promise!Next
  <2>4. CASE batch = <<>>
    <3>1. Numbered("none", <<>>) = <<>> /\ \A h : Numbered(h, batch) = <<>>
      BY <2>4 DEF Numbered
    <3>2. delivered \o <<>> = delivered /\ lost \cup Members(<<>>) = lost
      BY ConcatFacts, QueueTypes DEF Members
    <3>3. delivered' = delivered /\ lost' = lost
      BY <1>4, <2>4, <3>1, <3>2, DispatchSendEffect
    <3>4. QED
      BY <2>1, <2>4, <3>3 DEF Promise!vars
  <2>5. QED
    BY <2>3, <2>4
<1>5. CASE UNCHANGED qvars
  BY <1>5 DEF qvars, Promise!vars
<1>6. QED
  BY <1>1, <1>2, <1>3, <1>4, <1>5, OthersLeaveQueue DEF Promise!Next

(* The client keeps the promise of LogDelivery under any faults: messages  *)
(* are taken oldest first and a batch is delivered once and in one piece   *)
(* or lost as a whole.                                                     *)
THEOREM Refinement == Spec => KeepsPromise
<1>1. Init => Promise!Init
  BY DEF Init, Promise!Init
<1>2. TypeOK /\ TypeOK' /\ PopBound /\ DispatcherInHand /\ [Next]_vars
      => [Promise!Next]_(Promise!vars)
  BY PromiseStep
<1>3. QED
  BY <1>1, <1>2, TypeCorrect, InHand, PTL DEF Spec, KeepsPromise, Promise!Spec

-----------------------------------------------------------------------------
(* A step of t takes a free mutex or gives up its own, and changes no      *)
(* frame but its own.                                                      *)
OthersMutex(t) ==
  /\ \/ m_mutex' = m_mutex
     \/ m_mutex = "none" /\ m_mutex' = t
     \/ m_mutex = t /\ m_mutex' = "none"
  /\ \A u \in Connectors \ {t} : frame'[u] = frame[u]

LEMMA TypeFacts ==
  ASSUME TypeOK
  PROVE  /\ pc \in [Threads -> ConnectPcs \cup DispatcherPcs \cup UserPcs \cup AppPcs]
         /\ frame \in [Connectors -> {"connect", "reconnect", "health", "load"}]
         /\ frame["disp"] # "load"
         /\ "user" \in Threads /\ "disp" \in Threads
         /\ \A t \in Connectors : t \in Threads /\ t \in {"user", "disp"}
BY ThreadsFacts DEF TypeOK, PcType, FrameType, Frames, Connectors

LEMMA LandedOwns ==
  ASSUME TypeOK, NEW t \in Connectors, NEW l, Goto(t, l)
  PROVE  pc'[t] = l
BY TypeFacts DEF Goto

(* An exception takes t out of reset(). *)
LEMMA ThrowOwns ==
  ASSUME TypeOK, NEW t \in Connectors, NEW exception \in {"residue", "system"},
         Throw(t, exception), aborted = "no", aborted' = "no"
  PROVE  OwnsMutex(t)' /\ \A u \in Connectors \ {t} : frame'[u] = frame[u]
<1>1. \/ \E l \in {"d_pop", "d_while", "u_end"} : Goto(t, l) /\ UNCHANGED frame
      \/ Goto(t, "o_uninstall") /\ frame' = [frame EXCEPT ![t] = "load"]
  BY TypeFacts DEF Throw
<1>2. CASE \E l \in {"d_pop", "d_while", "u_end"} : Goto(t, l) /\ UNCHANGED frame
  BY <1>2, LandedOwns DEF OwnsMutex, InReset
<1>3. CASE Goto(t, "o_uninstall") /\ frame' = [frame EXCEPT ![t] = "load"]
  BY <1>3, LandedOwns, TypeFacts DEF OwnsMutex, InReset
<1>4. QED
  BY <1>1, <1>2, <1>3

LEMMA ConnectHandlerFailsOwns ==
  ASSUME TypeOK, NEW t \in Connectors, NEW text, NEW used, NEW up,
         ConnectHandlerFails(t, text, used, up), m_mutex = t, frame[t] # "load",
         aborted = "no", aborted' = "no"
  PROVE  OwnsMutex(t)' /\ OthersMutex(t)
<1>1. \/ Goto(t, "r_again") /\ UNCHANGED <<frame, m_mutex>>
      \/ m_mutex' = "none" /\ Throw(t, "residue")
  BY DEF ConnectHandlerFails, ThrowUnlock
<1>2. CASE Goto(t, "r_again") /\ UNCHANGED <<frame, m_mutex>>
  BY <1>2, LandedOwns DEF OwnsMutex, InReset, OthersMutex
<1>3. CASE m_mutex' = "none" /\ Throw(t, "residue")
  BY <1>3, ThrowOwns DEF OthersMutex
<1>4. QED
  BY <1>1, <1>2, <1>3

LEMMA AckHandlerFailsOwns ==
  ASSUME TypeOK, NEW t \in Connectors, NEW text, NEW used,
         AckHandlerFails(t, text, used), m_mutex = t, frame[t] # "load",
         aborted = "no", aborted' = "no"
  PROVE  OwnsMutex(t)' /\ OthersMutex(t)
<1>1. \/ Goto(t, "r_ackagain") /\ UNCHANGED <<frame, m_mutex>>
      \/ ConnectHandlerFails(t, text, used, connClient.up)
  BY DEF AckHandlerFails
<1>2. CASE Goto(t, "r_ackagain") /\ UNCHANGED <<frame, m_mutex>>
  BY <1>2, LandedOwns DEF OwnsMutex, InReset, OthersMutex
<1>3. CASE ConnectHandlerFails(t, text, used, connClient.up)
  BY <1>3, ConnectHandlerFailsOwns
<1>4. QED
  BY <1>1, <1>2, <1>3

-----------------------------------------------------------------------------
(* Inside reset() every way on either stays inside, with the mutex, or     *)
(* unwinds.                                                                *)
LEMMA InsideOwns ==
  ASSUME TypeOK, NEW t \in Connectors, OwnsMutex(t), aborted = "no", aborted' = "no",
         \/ ResetConnect(t) \/ ResetConnectAgain(t) \/ ResetReply(t) \/ ResetAck(t)
         \/ ResetAckAgain(t)
  PROVE  OwnsMutex(t)' /\ OthersMutex(t)
<1>1. m_mutex = t /\ frame[t] # "load"
  BY DEF ResetConnect, ResetConnectAgain, ResetReply, ResetAck, ResetAckAgain, At,
         OwnsMutex, InReset
<1>2. \/ /\ \E l \in {"r_connect", "r_reply", "r_ack", "r_load", "r_unlock"} : Goto(t, l)
         /\ UNCHANGED <<frame, m_mutex>>
      \/ \E e \in {"residue", "system"} : m_mutex' = "none" /\ Throw(t, e)
      \/ \E text, used, up : ConnectHandlerFails(t, text, used, up)
      \/ \E text, used : AckHandlerFails(t, text, used)
  <2>1. CASE ResetConnect(t)
    <3>1. PICK o \in SendOutcomes(connClient.up, "connect" \notin retried[t]) :
            \/ Goto(t, "r_reply") /\ UNCHANGED <<frame, m_mutex>>
            \/ Goto(t, "r_unlock") /\ UNCHANGED <<frame, m_mutex>>
            \/ \E text, used, up : ConnectHandlerFails(t, text, used, up)
            \/ \E e \in {"residue", "system"} : m_mutex' = "none" /\ Throw(t, e)
            \/ o.how \notin Hows
      BY <2>1 DEF ResetConnect, ThrowUnlock, Hows
    <3>2. o.how \in Hows
      BY SendOutcomesFacts DEF TypeOK, SessionType, ClientType
    <3>3. QED
      BY <3>1, <3>2
  <2>2. CASE ResetConnectAgain(t)
    BY <2>2 DEF ResetConnectAgain, ThrowUnlock
  <2>3. CASE ResetReply(t)
    BY <2>3 DEF ResetReply
  <2>4. CASE ResetAck(t)
    <3>1. PICK o \in SendOutcomes(connClient.up, "ack" \notin retried[t]) :
            \/ Goto(t, "r_load") /\ UNCHANGED <<frame, m_mutex>>
            \/ Goto(t, "r_unlock") /\ UNCHANGED <<frame, m_mutex>>
            \/ \E text, used : AckHandlerFails(t, text, used)
            \/ \E text, used, up : ConnectHandlerFails(t, text, used, up)
            \/ o.how \notin Hows
      BY <2>4 DEF ResetAck, Hows
    <3>2. o.how \in Hows
      BY SendOutcomesFacts DEF TypeOK, SessionType, ClientType
    <3>3. QED
      BY <3>1, <3>2
  <2>5. CASE ResetAckAgain(t)
    BY <2>5 DEF ResetAckAgain
  <2>6. QED
    BY <2>1, <2>2, <2>3, <2>4, <2>5
<1>3. CASE /\ \E l \in {"r_connect", "r_reply", "r_ack", "r_load", "r_unlock"} : Goto(t, l)
           /\ UNCHANGED <<frame, m_mutex>>
  BY <1>1, <1>3, LandedOwns DEF OwnsMutex, InReset, OthersMutex
<1>4. CASE \E e \in {"residue", "system"} : m_mutex' = "none" /\ Throw(t, e)
  BY <1>1, <1>4, ThrowOwns DEF OthersMutex
<1>5. CASE \E text, used, up : ConnectHandlerFails(t, text, used, up)
  BY <1>1, <1>5, ConnectHandlerFailsOwns
<1>6. CASE \E text, used : AckHandlerFails(t, text, used)
  BY <1>1, <1>6, AckHandlerFailsOwns
<1>7. QED
  BY <1>2, <1>3, <1>4, <1>5, <1>6

LEMMA ConnectOwns ==
  ASSUME TypeOK, NEW t \in Connectors, OwnsMutex(t), ConnectStep(t),
         aborted = "no", aborted' = "no"
  PROVE  OwnsMutex(t)' /\ OthersMutex(t)
<1>0. t \in Threads /\ t \in {"user", "disp"} /\ t \in DOMAIN pc /\ t \in DOMAIN frame
  BY TypeFacts
<1>1. CASE \/ ResetConnect(t) \/ ResetConnectAgain(t) \/ ResetReply(t) \/ ResetAck(t)
           \/ ResetAckAgain(t)
  BY <1>1, InsideOwns
<1>2. CASE ConnectBegin(t)
  <2>1. /\ UNCHANGED <<frame, m_mutex>>
        /\ \/ \E l \in {"d_total", "u_end", "c_net"} : Goto(t, l)
           \/ frame[t] = "load" /\ Goto(t, "r_load")
    BY <1>2 DEF ConnectBegin, control
  <2>2. QED
    BY <2>1, LandedOwns DEF OwnsMutex, InReset, OthersMutex
<1>3. CASE ConnectNet(t)
  <2>1. /\ UNCHANGED m_mutex
        /\ \/ UNCHANGED frame /\ frame[t] = "load" /\ Goto(t, "r_load")
           \/ UNCHANGED frame /\ frame[t] # "load" /\ Goto(t, "r_flags")
           \/ \E e \in {"residue", "system"} : Throw(t, e)
    BY <1>3 DEF ConnectNet
  <2>2. QED
    BY <2>1, LandedOwns, ThrowOwns DEF OwnsMutex, InReset, OthersMutex
<1>4. CASE ResetFlags(t)
  <2>1. /\ UNCHANGED <<frame, m_mutex>> /\ Goto(t, "r_lock") /\ pc[t] = "r_flags"
    BY <1>4 DEF ResetFlags, control, At
  <2>2. QED
    BY <2>1, LandedOwns DEF OwnsMutex, InReset, OthersMutex
<1>5. CASE ResetLock(t)
  <2>1. /\ UNCHANGED frame /\ Goto(t, "r_connect") /\ pc[t] = "r_lock"
        /\ m_mutex = "none" /\ m_mutex' = t
    BY <1>5 DEF ResetLock, MayReset, At
  <2>2. QED
    BY <2>1, LandedOwns DEF OwnsMutex, InReset, OthersMutex
<1>6. CASE Load(t)
  <2>1. /\ UNCHANGED <<frame, m_mutex>> /\ Goto(t, "r_lognet") /\ pc[t] = "r_load"
    BY <1>6 DEF Load, control, At
  <2>2. QED
    BY <2>1, LandedOwns DEF OwnsMutex, InReset, OthersMutex
<1>7. CASE LoadConnect(t)
  <2>1. /\ pc[t] = "r_lognet"
        /\ \/ /\ frame[t] = "load" /\ Goto(t, "h_check") /\ UNCHANGED <<frame, m_mutex>>
           \/ /\ frame[t] # "load" /\ Goto(t, "o_uninstall")
              /\ UNCHANGED <<frame, m_mutex>>
           \/ Throw(t, "residue") /\ UNCHANGED m_mutex
           \/ frame[t] # "load" /\ \E text, used : AckHandlerFails(t, text, used)
    BY <1>7 DEF LoadConnect, At
  <2>2. CASE frame[t] = "load" /\ Goto(t, "h_check") /\ UNCHANGED <<frame, m_mutex>>
    BY <2>2, LandedOwns DEF OwnsMutex, InReset, OthersMutex
  <2>3. CASE frame[t] # "load" /\ Goto(t, "o_uninstall") /\ UNCHANGED <<frame, m_mutex>>
    BY <2>1, <2>3, LandedOwns DEF OwnsMutex, InReset, OthersMutex
  <2>4. CASE Throw(t, "residue") /\ UNCHANGED m_mutex
    BY <2>4, ThrowOwns DEF OthersMutex
  <2>5. CASE frame[t] # "load" /\ \E text, used : AckHandlerFails(t, text, used)
    <3>1. m_mutex = t
      BY <2>1, <2>5 DEF OwnsMutex, InReset
    <3>2. QED
      BY <2>5, <3>1, AckHandlerFailsOwns
  <2>6. QED
    BY <2>1, <2>2, <2>3, <2>4, <2>5
<1>8. CASE UninstallDefault(t) \/ InstallResidue(t) \/ SetResidue(t)
  <2>1. /\ UNCHANGED <<frame, m_mutex>>
        /\ pc[t] \in {"o_uninstall", "o_install", "o_set"}
        /\ \E l \in {"o_install", "o_set", "o_run"} : Goto(t, l)
    BY <1>8 DEF UninstallDefault, InstallResidue, SetResidue, OnConnectFrame, control, At
  <2>2. QED
    BY <2>1, LandedOwns DEF OwnsMutex, InReset, OthersMutex
<1>9. CASE RunDispatcher(t)
  <2> DEFINE next == IF frame[t] = "load" THEN "u_end" ELSE "r_unlock"
  <2>1. /\ UNCHANGED <<frame, m_mutex>> /\ pc[t] = "o_run"
        /\ \/ Goto(t, next)
           \/ pc' = [pc EXCEPT ![t] = next, !["disp"] = "d_run"]
    BY <1>9 DEF RunDispatcher, OnConnectFrame, control, At
  <2>2. CASE Goto(t, next)
    BY <2>1, <2>2, LandedOwns DEF OwnsMutex, InReset, OthersMutex
  <2>3. CASE pc' = [pc EXCEPT ![t] = next, !["disp"] = "d_run"]
    <3>1. pc'[t] = next \/ pc'[t] = "d_run"
      BY <1>0, <2>3, TypeFacts
    <3>2. QED
      BY <2>1, <3>1 DEF OwnsMutex, InReset, OthersMutex
  <2>4. QED
    BY <2>1, <2>2, <2>3
<1>10. CASE ResetUnlock(t)
  <2>1. /\ pc[t] = "r_unlock" /\ m_mutex' = "none"
        /\ \/ Goto(t, "o_uninstall") /\ frame' = [frame EXCEPT ![t] = "load"]
           \/ /\ \E l \in {"u_end", "d_pop", "d_total"} : Goto(t, l)
              /\ UNCHANGED frame
    BY <1>10, TypeFacts DEF ResetUnlock, At
  <2>2. m_mutex = t
    BY <2>1 DEF OwnsMutex, InReset
  <2>3. CASE Goto(t, "o_uninstall") /\ frame' = [frame EXCEPT ![t] = "load"]
    BY <1>0, <2>1, <2>2, <2>3, LandedOwns DEF OwnsMutex, InReset, OthersMutex
  <2>4. CASE (\E l \in {"u_end", "d_pop", "d_total"} : Goto(t, l)) /\ UNCHANGED frame
    BY <2>1, <2>2, <2>4, LandedOwns DEF OwnsMutex, InReset, OthersMutex
  <2>5. QED
    BY <2>1, <2>3, <2>4
<1>11. CASE HealthCheck(t)
  <2>1. /\ pc[t] = "h_check" /\ UNCHANGED m_mutex
        /\ \/ frame' = [frame EXCEPT ![t] = "health"] /\ Goto(t, "r_flags")
           \/ Goto(t, "t_send") /\ UNCHANGED frame
           \/ Goto(t, AfterHealth(t)) /\ UNCHANGED frame
    BY <1>11 DEF HealthCheck, At
  <2>2. CASE frame' = [frame EXCEPT ![t] = "health"] /\ Goto(t, "r_flags")
    BY <1>0, <2>1, <2>2, LandedOwns DEF OwnsMutex, InReset, OthersMutex
  <2>3. CASE Goto(t, "t_send") /\ UNCHANGED frame
    BY <2>1, <2>3, LandedOwns DEF OwnsMutex, InReset, OthersMutex
  <2>4. CASE Goto(t, AfterHealth(t)) /\ UNCHANGED frame
    BY <1>0, <2>1, <2>4, LandedOwns DEF AfterHealth, OwnsMutex, InReset, OthersMutex
  <2>5. QED
    BY <2>1, <2>2, <2>3, <2>4
<1>12. CASE Touch(t)
  <2>1. PICK o \in SendOutcomes(connClient.up, TRUE) :
          Goto(t, "t_lock") \/ Goto(t, AfterHealth(t)) \/ o.how \notin Hows
    BY <1>12 DEF Touch, Hows
  <2>2. o.how \in Hows
    BY SendOutcomesFacts DEF TypeOK, SessionType, ClientType
  <2>3. pc[t] = "t_send" /\ UNCHANGED <<frame, m_mutex>>
    BY <1>12 DEF Touch, control, At
  <2>4. QED
    BY <1>0, <2>1, <2>2, <2>3, LandedOwns DEF AfterHealth, OwnsMutex, InReset, OthersMutex
<1>13. CASE TouchReply(t)
  <2>1. /\ pc[t] = "t_lock" /\ UNCHANGED <<frame, m_mutex>>
        /\ Goto(t, AfterHealth(t))
    BY <1>13 DEF TouchReply, control, At
  <2>2. QED
    BY <1>0, <2>1, LandedOwns DEF AfterHealth, OwnsMutex, InReset, OthersMutex
<1>14. CASE LoadUnreadable(t)
  <2>1. UNCHANGED m_mutex /\ Throw(t, "residue")
    BY <1>14 DEF LoadUnreadable
  <2>2. QED
    BY <2>1, ThrowOwns DEF OthersMutex
<1>15. QED
  BY <1>1, <1>2, <1>3, <1>4, <1>5, <1>6, <1>7, <1>8, <1>9, <1>10, <1>11, <1>12, <1>13,
     <1>14
     DEF ConnectStep

-----------------------------------------------------------------------------
LEMMA MutexHeldStep ==
  ASSUME TypeOK, TypeOK', MutexHeld, [Next]_vars
  PROVE  MutexHeld'
<1>0. SUFFICES ASSUME aborted' = "no"
               PROVE  \A t \in Connectors : OwnsMutex(t)'
  BY DEF MutexHeld, Alive
<1>1. CASE UNCHANGED vars
  BY <1>0, <1>1 DEF vars, control, MutexHeld, Alive, OwnsMutex, InReset
<1>2. CASE Next
  <2>1. aborted = "no" /\ \A t \in Connectors : OwnsMutex(t)
    <3>1. aborted = "no"
      BY <1>2
         DEF Next, DispatcherStep, UserStep, ConnectStep, AppStep, ConnectBegin,
             ConnectNet, ResetFlags, ResetLock, ResetConnect, ResetConnectAgain,
             ResetReply, ResetAck, ResetAckAgain, Load, LoadUnreadable, LoadConnect,
             UninstallDefault, InstallResidue, SetResidue, RunDispatcher, ResetUnlock,
             HealthCheck, Touch, TouchReply, DispatcherRun, DispatchWhile, DispatchWait, DispatchLive,
             DispatchTotal, DispatchPop, DispatchSend, DispatcherCheck,
             DispatcherDisconnect, DispatcherUninstall, DispatcherStop, DisconnectCheck,
             DisconnectFlag, Wait, DisconnectStop, Return, Call, Log, Iterate,
             AddToQueue, Age, At, Alive
    <3>2. QED
      BY <3>1 DEF MutexHeld, Alive
  <2>2. ASSUME NEW t \in Connectors, ConnectStep(t)
        PROVE  \A u \in Connectors : OwnsMutex(u)'
    <3>1. OwnsMutex(t)' /\ OthersMutex(t)
      BY <1>0, <2>1, <2>2, ConnectOwns
    <3>2. ASSUME NEW u \in Connectors \ {t}
          PROVE  OwnsMutex(u)'
      <4>1. pc'[u] = pc[u] \/ pc'[u] = "d_run"
        <5>1. CASE ~RunDispatcher(t)
          BY <2>2, <5>1, ConnectMoves, TypeFacts DEF Walks, Moves
        <5>2. CASE RunDispatcher(t)
          BY <5>2, TypeFacts DEF RunDispatcher, Goto
        <5>3. QED
          BY <5>1, <5>2
      <4>2. frame'[u] = frame[u] /\ (m_mutex = u => m_mutex' = u)
        BY <3>1, TypeFacts DEF OthersMutex
      <4>3. QED
        BY <2>1, <4>1, <4>2 DEF OwnsMutex, InReset
    <3>3. QED
      BY <3>1, <3>2
  <2>3. CASE DispatcherStep /\ ~ConnectStep("disp")
    <3>1. /\ UNCHANGED m_mutex
          /\ frame'["user"] = frame["user"]
          /\ pc'["user"] = pc["user"]
          /\ pc'["disp"] \in DispatcherPcs \cup {"c_begin", "h_check"}
      <4>1. CASE \/ DispatcherRun \/ DispatchWhile \/ DispatchWait \/ DispatcherCheck
        BY <4>1, TypeFacts
           DEF DispatcherRun, DispatchWhile, DispatchWait, DispatcherCheck, DispatcherPcs,
               othersThanPc, control, Goto
      <4>2. CASE \/ DispatchTotal \/ DispatcherDisconnect \/ DispatcherUninstall
                 \/ DispatcherStop
        BY <4>2, TypeFacts
           DEF DispatchTotal, DispatcherDisconnect, DispatcherUninstall, DispatcherStop,
               DispatcherPcs, Goto
      <4>3. CASE DispatchLive
        <5>1. /\ UNCHANGED m_mutex
              /\ Goto("disp", "d_total") \/ Goto("disp", "c_begin")
              /\ UNCHANGED frame \/ frame' = [frame EXCEPT !["disp"] = "reconnect"]
          BY <4>3 DEF DispatchLive
        <5>2. frame'["user"] = frame["user"]
          BY <5>1, TypeFacts DEF Connectors
        <5>3. QED
          BY <5>1, <5>2, TypeFacts DEF DispatcherPcs, Goto
      <4>4. CASE DispatchPop
        BY <4>4, TypeFacts DEF DispatchPop, DispatcherPcs, Goto, At
      <4>5. CASE DispatchSend
        <5>1. UNCHANGED <<m_mutex, frame>>
          BY <4>5 DEF DispatchSend
        <5>2. Goto("disp", "d_while")
          BY <1>0, <4>5 DEF DispatchSend
        <5>3. QED
          BY <5>1, <5>2, TypeFacts DEF DispatcherPcs, Goto
      <4>6. QED
        BY <2>3, <4>1, <4>2, <4>3, <4>4, <4>5 DEF DispatcherStep
    <3>2. OwnsMutex("user")'
      BY <2>1, <3>1 DEF OwnsMutex, InReset, Connectors
    <3>3. OwnsMutex("disp")'
      BY <3>1 DEF OwnsMutex, InReset, DispatcherPcs
    <3>4. QED
      BY <3>2, <3>3 DEF Connectors
  <2>4. CASE \/ DisconnectCheck \/ DisconnectFlag \/ Wait \/ DisconnectStop \/ Return
             \/ \E c \in Calls : Call(c)
    <3>1. \E l \in UserPcs \cup {"c_begin"} : Goto("user", l)
      BY <1>0, <2>1, <2>4, ResidueClientAssumption
         DEF DisconnectCheck, DisconnectFlag, Wait, DisconnectStop, Return, Call,
             AfterDisconnect, UserPcs
    <3>2. UNCHANGED m_mutex /\ frame'["disp"] = frame["disp"]
      <4>1. CASE \E c \in Calls : Call(c)
        BY <4>1, TypeFacts DEF Call, UserFrame
      <4>2. CASE \/ DisconnectCheck \/ DisconnectFlag \/ Wait \/ DisconnectStop \/ Return
        BY <4>2 DEF DisconnectCheck, DisconnectFlag, Wait, DisconnectStop, Return, UserFrame
      <4>3. QED
        BY <2>4, <4>1, <4>2
    <3>3. pc'["disp"] = pc["disp"] /\ pc'["user"] \in UserPcs \cup {"c_begin"}
      BY <3>1, TypeFacts DEF Goto
    <3>4. OwnsMutex("disp")'
      BY <2>1, <3>2, <3>3 DEF OwnsMutex, InReset, Connectors
    <3>5. OwnsMutex("user")'
      BY <3>3 DEF OwnsMutex, InReset, UserPcs
    <3>6. QED
      BY <3>4, <3>5 DEF Connectors
  <2>5. CASE \E a \in Apps : Log(a) \/ AppStep(a)
    <3>1. PICK a \in Apps : Log(a) \/ Iterate(a) \/ AddToQueue(a)
      BY <2>5 DEF AppStep
    <3>2. (\E l : Goto(a, l)) \/ UNCHANGED pc
      BY <3>1 DEF Log, Iterate, AddToQueue
    <3>3. UNCHANGED <<frame, m_mutex>>
      BY <3>1 DEF Log, Iterate, AddToQueue, AppFrame, control
    <3>4. \A t \in Connectors : pc'[t] = pc[t]
      BY <3>2, TypeFacts, ThreadsFacts DEF Goto, Connectors
    <3>5. QED
      BY <2>1, <3>3, <3>4 DEF OwnsMutex, InReset
  <2>6. CASE Age
    BY <2>1, <2>6 DEF Age, control, OwnsMutex, InReset
  <2>7. QED
    BY <1>2, <2>2, <2>3, <2>4, <2>5, <2>6 DEF Next, UserStep, Connectors
<1>3. QED
  BY <1>1, <1>2

(* reset() runs on one thread at a time: the key, the client id and the    *)
(* sockets of a handshake are not another handshake's.                     *)
THEOREM HandshakesExclude == Spec => []HandshakeExclusive
<1>1. Init => MutexHeld
  BY ThreadsFacts DEF Init, MutexHeld, OwnsMutex, InReset, Connectors
<1>2. TypeOK /\ TypeOK' /\ MutexHeld /\ [Next]_vars => MutexHeld'
  BY MutexHeldStep
<1>3. MutexHeld => HandshakeExclusive
  BY DEF MutexHeld, HandshakeExclusive, OwnsMutex, Connectors
<1>4. QED
  BY <1>1, <1>2, <1>3, TypeCorrect, PTL DEF Spec

-----------------------------------------------------------------------------
(***************************************************************************)
(* What ResidueClient promises where nothing fails: a program that uses    *)
(* the API as the samples do, a network and a server without faults, and a *)
(* session that does not expire (it may age and be touched).  For any      *)
(* number of threads, messages and calls.                                  *)
(***************************************************************************)

Reliable ==
  /\ Faults = {} /\ ServerFaults = {}
  /\ Disciplined /\ UserHost \in Reachable

(* The session is renewed in time. *)
Fresh == health # "expired"

-----------------------------------------------------------------------------
(* The user's way through connect, reconnect and loadConnection: until the *)
(* dispatcher has been started, and from where m_connected is set.         *)
Linking == {"c_net", "r_flags", "r_lock", "r_connect", "r_reply", "r_ack", "r_load",
            "r_lognet"}
Opened  == {"h_check", "t_send", "t_lock", "o_uninstall", "o_install", "o_set", "o_run"}
Opening == {"c_begin"} \cup Linking \cup Opened

Draining == {"d_run", "d_while", "d_wait", "d_live", "d_total", "h_check", "t_send",
             "t_lock", "d_pop", "d_send", "d_check"}
Stopping == {"d_disc", "d_uninst", "d_stop", "done"}

(* The user holds a connection, or is giving it up. *)
Holding ==
  \/ pc["user"] \in {"r_unlock", "u_check"}
  \/ pc["user"] = "u_end" /\ call # "disconnect"
  \/ pc["user"] = "u_join" /\ call = "wait"
  \/ pc["user"] = "idle" /\ logging
Closing ==
  \/ pc["user"] = "u_flag"
  \/ pc["user"] = "u_join" /\ call # "wait"

(* No call fails and no thread leaves its course. *)
Orderly ==
  /\ aborted = "no" /\ result = "ok"
  /\ frame["user"] \in {"connect", "load"} /\ frame["disp"] = "connect"
  /\ pc["user"] \in Opening \cup UserPcs \cup {"r_unlock"}
  /\ pc["disp"] \in Draining \cup Stopping
  /\ pc["user"] \in Opening \cup {"r_unlock"} => call \in {"connect", "reconnect", "load"}
  /\ pc["user"] \in {"u_check", "u_flag", "u_stop"} => call \in {"reconnect", "disconnect"}
  /\ pc["user"] = "u_join" => call \in {"reconnect", "disconnect", "wait"}
  /\ pc["user"] = "u_end" => call # "wait"
  /\ logging => pc["user"] = "idle" \/ (pc["user"] = "u_join" /\ call = "wait")

(* Threads log only while the user holds a connection and makes no call;   *)
(* who has left "idle" has ELPP's lock.                                    *)
Quiet ==
  \A a \in Apps : /\ pc[a] # "idle" <=> elppLock = a
                  /\ pc[a] # "idle" => pc["user"] = "idle" /\ logging

(* Both clients are up and the server knows the session. *)
Linked ==
  /\ m_host \in {"none", UserHost}
  /\ call \in {"reconnect", "load"} => m_host = UserHost
  /\ pc["user"] \in Linking \cup Opened =>
       ~m_disconnected /\ m_host = UserHost /\ connClient.host = UserHost
  /\ pc["user"] \in (Linking \ {"c_net"}) \cup Opened => connClient.up
  /\ pc["user"] = "r_lognet" => logClient.host = UserHost /\ m_key = "live"
  /\ pc["user"] \in Opened \/ Holding \/ Closing =>
       connClient.up /\ logClient.up /\ m_key = "live"

(* The dispatcher runs while there is a connection, and is gone otherwise. *)
Served ==
  /\ Holding =>
       /\ m_connected /\ ~m_disconnected /\ m_running /\ m_dispatcher = "joinable"
       /\ pc["disp"] \in Draining /\ "Residue" \in callbacks /\ residueSet
  /\ Closing =>
       /\ ~m_connected /\ m_dispatcher = "joinable"
       /\ m_running <=> pc["disp"] # "done"
       /\ "Residue" \in callbacks <=> pc["disp"] \in Draining \cup {"d_disc", "d_uninst"}
  /\ ~Holding /\ ~Closing =>
       /\ pc["disp"] = "done" /\ ~m_running /\ m_dispatcher # "joinable"
       /\ m_connected <=> pc["user"] \in Opened
       /\ "Residue" \in callbacks <=> pc["user"] \in {"o_set", "o_run"}
       /\ pc["user"] = "o_run" => residueSet
  /\ pc["disp"] \in Stopping => m_requests = <<>>

Raised ==
  m_connecting => \/ pc["user"] \in {"r_lock", "r_connect", "r_ack", "t_send"}
                  \/ pc["disp"] = "t_send"

Lossless == lost = {}

ReliableInv == Orderly /\ Quiet /\ Linked /\ Served /\ Raised /\ Lossless

-----------------------------------------------------------------------------
(* A send of a client that is up is answered, a connect gets through. *)
LEMMA ReliableSend ==
  ASSUME Reliable, NEW retry \in BOOLEAN, NEW o \in SendOutcomes(TRUE, retry)
  PROVE  o.how = "reply" /\ o.up = TRUE /\ o.copies > 0
<1>1. ReadFaults = {} /\ WriteFaults = {} /\ "writetimeout" \notin Faults
  BY DEF Reliable, ReadFaults, WriteFaults
<1>2. o \in LastOutcomes(0)
  BY <1>1 DEF SendOutcomes
<1>3. o = Outcome("reply", TRUE, 1, 0)
  BY <1>1, <1>2 DEF LastOutcomes, ReadOutcomes, WriteOutcomes
<1> QED BY <1>3 DEF Outcome

LEMMA ReliableConnecting ==
  ASSUME Reliable, NEW o, Connecting(UserHost, o)
  PROVE  o = "ok"
BY DEF Reliable, Connecting, ConnectOutcomes, ConnectFaults

(* The state but for what no action of the user's touches. *)
LEMMA PcFacts ==
  ASSUME TypeOK
  PROVE  /\ "user" \in DOMAIN pc /\ "disp" \in DOMAIN pc /\ "user" # "disp"
         /\ \A a \in Apps : a \in DOMAIN pc /\ a \notin {"user", "disp", "none"}
         /\ frame \in [Connectors -> {"connect", "reconnect", "health", "load"}]
         /\ retried \in [Connectors -> SUBSET {"connect", "ack"}]
         /\ connClient \in [host : Hosts \cup {"none"}, up : BOOLEAN]
         /\ logClient \in [host : Hosts \cup {"none"}, up : BOOLEAN]
BY ThreadsFacts DEF TypeOK, PcType, FrameType, Frames, SessionType, ClientType

(* What a jump of one of the two connecting threads does to the places. *)
LEMMA Jump ==
  ASSUME TypeOK, NEW t \in Connectors, NEW l, Goto(t, l)
  PROVE  /\ pc'[t] = l /\ pc'[Other(t)] = pc[Other(t)]
         /\ \A a \in Apps : pc'[a] = pc[a]
BY PcFacts DEF Goto, Other, Connectors

LEMMA JumpUser ==
  ASSUME TypeOK, NEW l, Goto("user", l)
  PROVE  pc'["user"] = l /\ pc'["disp"] = pc["disp"] /\ \A a \in Apps : pc'[a] = pc[a]
BY Jump DEF Other, Connectors

LEMMA JumpDisp ==
  ASSUME TypeOK, NEW l, Goto("disp", l)
  PROVE  pc'["disp"] = l /\ pc'["user"] = pc["user"] /\ \A a \in Apps : pc'[a] = pc[a]
BY Jump DEF Other, Connectors

(* Steps of the user and of the dispatcher leave the logging threads be. *)
LEMMA QuietKept ==
  ASSUME TypeOK, Quiet, UNCHANGED elppLock,
         \A a \in Apps : pc'[a] = pc[a],
         pc["user"] = "idle" /\ logging => pc'["user"] = "idle" /\ logging'
  PROVE  Quiet'
BY DEF Quiet

(* The steps of connect_, reset and loadConnectionFromJson_ up to the      *)
(* connect to the logging server.                                          *)
LEMMA LinkingStep ==
  ASSUME TypeOK, ReliableInv, Reliable,
         \/ ConnectBegin("user") \/ ConnectNet("user")
         \/ ResetFlags("user") \/ ResetLock("user") \/ ResetConnect("user")
         \/ ResetReply("user") \/ ResetAck("user") \/ Load("user")
  PROVE  ReliableInv'
<1> USE PcFacts, JumpUser, QuietKept
     DEF ReliableInv, Lossless, Orderly, Linked, Served, Raised, Holding, Closing,
         Opening, Linking, Opened, Stopping, At, user, elpp, queue, history
<1>1. CASE ConnectBegin("user")
  <2>1. pc["user"] = "c_begin" /\ ~m_connected /\ pc["disp"] = "done"
    BY <1>1 DEF ConnectBegin
  <2>2. /\ ~m_disconnected' /\ m_host' = UserHost
        /\ connClient' = Client(UserHost, FALSE) /\ Goto("user", "c_net")
        /\ aborted' = "no"
        /\ UNCHANGED <<m_connected, m_connecting, m_running, logClient, m_key>>
        /\ UNCHANGED <<m_requests, m_dispatcher, elpp, frame, user, lost>>
    BY <1>1, <2>1 DEF ConnectBegin, Target, Other, UsesConn, control
  <2> QED BY <2>1, <2>2 DEF Client
<1>2. CASE ConnectNet("user")
  <2>1. pc["user"] = "c_net" /\ connClient.host = UserHost
    BY <1>2 DEF ConnectNet
  <2>2. PICK l \in {"r_load", "r_flags"} :
          /\ connClient' = [connClient EXCEPT !.up = TRUE] /\ Goto("user", l)
          /\ UNCHANGED <<flags, m_host, logClient, m_key, m_requests, m_dispatcher, elpp>>
          /\ UNCHANGED <<frame, user, lost, aborted>>
    BY <1>2, <2>1, ReliableConnecting DEF ConnectNet
  <2> QED BY <2>1, <2>2 DEF flags
<1>3. CASE ResetFlags("user")
  <2>1. /\ pc["user"] = "r_flags" /\ Goto("user", "r_lock")
        /\ m_connecting' = TRUE /\ m_connected' = FALSE
        /\ UNCHANGED <<m_disconnected, m_running, m_host, session, m_requests>>
        /\ UNCHANGED <<m_dispatcher, elpp, frame, user, lost, aborted>>
    BY <1>3 DEF ResetFlags, Reconnecting, control
  <2> QED BY <2>1 DEF session
<1>4. CASE ResetLock("user")
  <2>1. /\ pc["user"] = "r_lock" /\ Goto("user", "r_connect")
        /\ UNCHANGED <<flags, m_host, session, m_requests>>
        /\ UNCHANGED <<m_dispatcher, elpp, frame, user, lost, aborted>>
    BY <1>4 DEF ResetLock
  <2> QED BY <2>1 DEF session, flags
<1>5. CASE ResetConnect("user")
  <2>1. /\ pc["user"] = "r_connect" /\ connClient.up = TRUE
    BY <1>5 DEF ResetConnect
  <2>2. PICK o \in SendOutcomes(TRUE, "connect" \notin retried["user"]) :
          /\ o.how = "reply" =>
               /\ HandlerCalled /\ connClient' = [connClient EXCEPT !.up = o.up]
               /\ Goto("user", "r_reply") /\ UNCHANGED <<frame, result, aborted>>
    BY <1>5, <2>1 DEF ResetConnect
  <2>3. o.how = "reply" /\ o.up = TRUE
    BY <2>2, ReliableSend
  <2>4. /\ m_connecting' = FALSE /\ connClient' = [connClient EXCEPT !.up = TRUE]
        /\ Goto("user", "r_reply") /\ UNCHANGED <<frame, user, aborted>>
        /\ UNCHANGED <<m_connected, m_disconnected, m_running, m_host, logClient, m_key>>
        /\ UNCHANGED <<m_requests, m_dispatcher, elpp, lost>>
    BY <1>5, <2>2, <2>3 DEF ResetConnect, HandlerCalled, HandshakeFrame
  <2> QED BY <2>1, <2>4
<1>6. CASE ResetReply("user")
  <2>1. pc["user"] = "r_reply" /\ pc["disp"] = "done"
    BY <1>6 DEF ResetReply
  <2>2. /\ m_connecting' = TRUE /\ Goto("user", "r_ack") /\ aborted' = "no"
        /\ UNCHANGED <<connClient, frame, user>>
        /\ UNCHANGED <<m_connected, m_disconnected, m_running, m_host, logClient>>
        /\ UNCHANGED <<m_requests, m_dispatcher, elpp, lost>>
    BY <1>6, <2>1 DEF ResetReply, HandshakeFrame, Reliable, Other
  <2> QED BY <2>1, <2>2
<1>7. CASE ResetAck("user")
  <2>1. /\ pc["user"] = "r_ack" /\ connClient.up = TRUE
    BY <1>7 DEF ResetAck
  <2>2. PICK o \in SendOutcomes(TRUE, "ack" \notin retried["user"]) :
          /\ o.how = "reply" =>
               /\ HandlerCalled /\ connClient' = [connClient EXCEPT !.up = o.up]
               /\ Goto("user", "r_load") /\ UNCHANGED <<frame, result, aborted>>
    BY <1>7, <2>1 DEF ResetAck, Reliable
  <2>3. o.how = "reply" /\ o.up = TRUE
    BY <2>2, ReliableSend
  <2>4. /\ m_connecting' = FALSE /\ connClient' = [connClient EXCEPT !.up = TRUE]
        /\ Goto("user", "r_load") /\ UNCHANGED <<frame, user, aborted>>
        /\ UNCHANGED <<m_connected, m_disconnected, m_running, m_host, logClient, m_key>>
        /\ UNCHANGED <<m_requests, m_dispatcher, elpp, lost>>
    BY <1>7, <2>2, <2>3 DEF ResetAck, HandlerCalled, HandshakeFrame
  <2> QED BY <2>1, <2>4
<1>8. CASE Load("user")
  <2>1. pc["user"] = "r_load" /\ pc["disp"] = "done"
    BY <1>8 DEF Load
  <2>2. /\ m_key' = "live" /\ logClient' = Client(m_host, FALSE)
        /\ Goto("user", "r_lognet") /\ aborted' = "no"
        /\ UNCHANGED <<flags, m_host, connClient, m_requests, m_dispatcher, elpp>>
        /\ UNCHANGED <<frame, user, lost>>
    BY <1>8, <2>1 DEF Load, Other, UsesLog, control
  <2> QED BY <2>1, <2>2 DEF flags, Client
<1> QED BY <1>1, <1>2, <1>3, <1>4, <1>5, <1>6, <1>7, <1>8

(* The callbacks are changed only while no thread iterates over them. *)
LEMMA NobodyIterates ==
  ASSUME TypeOK, Quiet, pc["user"] # "idle" \/ ~logging
  PROVE  ~Iterating
BY PcFacts DEF Quiet, Iterating, TypeOK, LockType

(* The rest of loadConnectionFromJson_, its health check and onConnect. *)
LEMMA OpeningStep ==
  ASSUME TypeOK, ReliableInv, Reliable, Fresh,
         \/ LoadConnect("user") \/ HealthCheck("user") \/ Touch("user")
         \/ TouchReply("user") \/ UninstallDefault("user") \/ InstallResidue("user")
         \/ SetResidue("user") \/ RunDispatcher("user") \/ ResetUnlock("user")
  PROVE  ReliableInv'
<1> USE PcFacts, JumpUser, QuietKept
     DEF ReliableInv, Lossless, Orderly, Linked, Served, Raised, Holding, Closing,
         Opening, Linking, Opened, Stopping, At, user, elpp, queue, history
<1>1. CASE LoadConnect("user")
  <2>1. pc["user"] = "r_lognet" /\ logClient.host = UserHost
    BY <1>1 DEF LoadConnect
  <2>2. PICK l \in {"h_check", "o_uninstall"} :
          /\ logClient' = [logClient EXCEPT !.up = TRUE] /\ m_connected' = TRUE
          /\ Goto("user", l)
          /\ UNCHANGED <<m_connecting, connClient, frame, result, aborted>>
    BY <1>1, <2>1, ReliableConnecting DEF LoadConnect, Loaded
  <2>3. /\ UNCHANGED <<m_disconnected, m_running, m_host, m_key, m_requests>>
        /\ UNCHANGED <<m_dispatcher, elpp, lost, call, logging>>
    BY <1>1 DEF LoadConnect, HandshakeFrame
  <2> QED BY <2>1, <2>2, <2>3
<1>2. CASE HealthCheck("user")
  <2>1. pc["user"] = "h_check"
    BY <1>2 DEF HealthCheck
  <2>2. \/ Goto("user", "o_uninstall") /\ UNCHANGED m_connecting
        \/ Goto("user", "t_send")
    BY <1>2 DEF HealthCheck, AfterHealth, isClientValid, Fresh
  <2>3. /\ UNCHANGED <<m_connected, m_disconnected, m_running, m_host, session>>
        /\ UNCHANGED <<m_requests, m_dispatcher, elpp, frame, user, lost, aborted>>
    BY <1>2 DEF HealthCheck, isClientValid, Fresh
  <2> QED BY <2>1, <2>2, <2>3 DEF session
<1>3. CASE Touch("user")
  <2>1. pc["user"] = "t_send" /\ connClient.up = TRUE
    BY <1>3 DEF Touch
  <2>2. PICK o \in SendOutcomes(TRUE, TRUE) :
          /\ connClient' = [connClient EXCEPT !.up = o.up]
          /\ o.how = "reply" => HandlerCalled /\ Goto("user", "t_lock") /\ UNCHANGED aborted
    BY <1>3, <2>1 DEF Touch, Reliable
  <2>3. o.how = "reply" /\ o.up = TRUE
    BY <2>2, ReliableSend
  <2>4. /\ connClient' = [connClient EXCEPT !.up = TRUE] /\ m_connecting' = FALSE
        /\ Goto("user", "t_lock")
        /\ UNCHANGED <<m_connected, m_disconnected, m_running, m_host, logClient, m_key>>
        /\ UNCHANGED <<m_requests, m_dispatcher, elpp, frame, user, lost, aborted>>
    BY <1>3, <2>2, <2>3 DEF Touch, HandlerCalled, control
  <2> QED BY <2>1, <2>4
<1>4. CASE TouchReply("user") \/ UninstallDefault("user")
  <2>1. PICK l \in {"o_uninstall", "o_install"} :
          /\ pc["user"] \in {"t_lock", "o_uninstall"} /\ Goto("user", l)
    BY <1>4 DEF TouchReply, UninstallDefault, AfterHealth
  <2>2. /\ "Residue" \in callbacks' <=> "Residue" \in callbacks
        /\ aborted' = "no"
    BY <1>4, NobodyIterates DEF TouchReply, UninstallDefault, ChangeCallbacks
  <2>3. /\ UNCHANGED <<flags, m_host, connClient, logClient, m_key, m_requests>>
        /\ UNCHANGED <<m_dispatcher, residueSet, elppLock, frame, user, lost>>
    BY <1>4 DEF TouchReply, UninstallDefault, OnConnectFrame, session, flags, control
  <2> QED BY <2>1, <2>2, <2>3 DEF flags
<1>5. CASE InstallResidue("user")
  <2>1. /\ pc["user"] = "o_install" /\ Goto("user", "o_set")
        /\ "Residue" \in callbacks' /\ aborted' = "no"
    BY <1>5, NobodyIterates DEF InstallResidue, ChangeCallbacks
  <2>2. /\ UNCHANGED <<flags, m_host, connClient, logClient, m_key, m_requests>>
        /\ UNCHANGED <<m_dispatcher, elppLock, frame, user, lost>>
    BY <1>5 DEF InstallResidue, OnConnectFrame, session, flags, control
  <2> QED BY <2>1, <2>2 DEF flags
<1>6. CASE SetResidue("user")
  <2>1. /\ pc["user"] = "o_set" /\ "Residue" \in callbacks
    BY <1>6 DEF SetResidue
  <2>2. Goto("user", "o_run") /\ residueSet' /\ UNCHANGED <<callbacks, aborted>>
    BY <1>6, <2>1 DEF SetResidue, setResidue
  <2>3. /\ UNCHANGED <<flags, m_host, connClient, logClient, m_key, m_requests>>
        /\ UNCHANGED <<m_dispatcher, elppLock, frame, user, lost>>
    BY <1>6 DEF SetResidue, OnConnectFrame, session, flags, control
  <2> QED BY <2>1, <2>2, <2>3 DEF flags
<1>7. CASE RunDispatcher("user")
  <2>1. pc["user"] = "o_run" /\ ~m_running /\ m_dispatcher # "joinable"
    BY <1>7 DEF RunDispatcher
  <2>2. PICK next \in {"u_end", "r_unlock"} :
          /\ m_running' = TRUE /\ m_dispatcher' = "joinable"
          /\ pc' = [pc EXCEPT !["user"] = next, !["disp"] = "d_run"]
          /\ UNCHANGED <<aborted, callbacks, residueSet>>
    BY <1>7, <2>1 DEF RunDispatcher, HasDispatcher
  <2>3. pc'["user"] = next /\ pc'["disp"] = "d_run" /\ \A a \in Apps : pc'[a] = pc[a]
    BY <2>2
  <2>4. /\ UNCHANGED <<m_connected, m_connecting, m_disconnected, m_host, connClient>>
        /\ UNCHANGED <<logClient, m_key, m_requests, elppLock, frame, user, lost>>
    BY <1>7 DEF RunDispatcher, OnConnectFrame, session, control
  <2> QED BY <2>1, <2>2, <2>3, <2>4 DEF Draining, UserPcs
<1>8. CASE ResetUnlock("user")
  <2>1. /\ pc["user"] = "r_unlock" /\ Goto("user", "u_end") /\ UNCHANGED frame
        /\ UNCHANGED <<flags, m_host, session, m_requests, m_dispatcher, elpp, user>>
        /\ UNCHANGED <<lost, aborted>>
    BY <1>8 DEF ResetUnlock
  <2> QED BY <2>1 DEF flags, session, UserPcs
<1> QED BY <1>1, <1>2, <1>3, <1>4, <1>5, <1>6, <1>7, <1>8

-----------------------------------------------------------------------------
(* What a step of a draining dispatcher may change. *)
Drained ==
  /\ pc'["disp"] \in Draining /\ pc'["user"] = pc["user"]
  /\ \A a \in Apps : pc'[a] = pc[a]
  /\ connClient'.host = connClient.host /\ connClient'.up = connClient.up
  /\ logClient'.host = logClient.host /\ logClient'.up = logClient.up
  /\ m_connecting' => m_connecting \/ pc'["disp"] = "t_send"
  /\ UNCHANGED <<m_connected, m_disconnected, m_running, m_host, m_key, m_dispatcher>>
  /\ UNCHANGED <<callbacks, residueSet, elppLock, frame, lost, aborted>>
  /\ UNCHANGED <<call, result, logging>>

LEMMA DrainedKeeps ==
  ASSUME TypeOK, ReliableInv, pc["disp"] \in Draining, Drained,
         pc["disp"] = "t_send" => m_connecting' = FALSE
  PROVE  ReliableInv'
<1> USE DEF Drained, ReliableInv, Lossless
<1>1. Quiet'
  BY QuietKept
<1>2. Orderly'
  BY DEF Orderly
<1>3. Linked'
  BY DEF Linked, Holding, Closing
<1>4. Served'
  BY DEF Served, Holding, Closing, Draining, Stopping
<1>5. Raised'
  BY DEF Raised
<1> QED BY <1>1, <1>2, <1>3, <1>4, <1>5

(* The same of one on its way out, while the user waits for it.            *)
Stopped ==
  /\ pc'["disp"] \in Stopping /\ pc'["user"] = pc["user"]
  /\ \A a \in Apps : pc'[a] = pc[a]
  /\ ~m_connected' /\ aborted' = "no"
  /\ m_running' <=> pc'["disp"] # "done"
  /\ "Residue" \in callbacks' <=> pc'["disp"] \in {"d_disc", "d_uninst"}
  /\ UNCHANGED <<m_connecting, m_disconnected, m_host, connClient, logClient, m_key>>
  /\ UNCHANGED <<m_requests, m_dispatcher, elppLock, frame, lost, call, result, logging>>

LEMMA StoppedKeeps ==
  ASSUME TypeOK, ReliableInv, Closing, ~Holding, m_requests = <<>>, pc["disp"] # "t_send",
         Stopped
  PROVE  ReliableInv'
<1> USE DEF Stopped, ReliableInv, Lossless
<1>1. Quiet'
  BY QuietKept
<1>2. Orderly'
  BY DEF Orderly
<1>3. Linked'
  BY DEF Linked, Holding, Closing
<1>4. Served'
  BY DEF Served, Holding, Closing, Draining, Stopping
<1>5. Raised'
  BY DEF Raised
<1> QED BY <1>1, <1>2, <1>3, <1>4, <1>5

(* The dispatcher neither reconnects nor fails, and stops only once the    *)
(* user has disconnected and the queue is empty.                           *)
LEMMA DispatcherReliable ==
  ASSUME TypeOK, ReliableInv, Reliable, Fresh, DispatcherStep
  PROVE  ReliableInv'
<1> USE PcFacts, JumpDisp
<1>0. /\ pc["disp"] \in Draining \cup Stopping /\ aborted = "no"
      /\ frame["disp"] = "connect"
  BY DEF ReliableInv, Orderly
<1>1. ASSUME pc["disp"] \in Draining \cup {"d_disc", "d_uninst", "d_stop"}
      PROVE  /\ Holding \/ Closing
             /\ connClient.up = TRUE /\ logClient.up = TRUE /\ m_key = "live"
             /\ m_running
  BY <1>1 DEF ReliableInv, Served, Linked, Holding, Closing, Draining, TypeOK,
     SessionType, ClientType
<1>2. CASE \/ DispatcherRun \/ DispatchWhile \/ DispatchWait
           \/ DispatcherCheck /\ ~ForceDisconnect
  <2>1. pc["disp"] \in Draining \ {"t_send"}
    BY <1>2 DEF DispatcherRun, DispatchWhile, DispatchWait, DispatcherCheck, At, Draining
  <2>2. PICK l \in Draining : Goto("disp", l)
    BY <1>1, <1>2, <2>1 DEF DispatcherRun, DispatchWhile, DispatchWait, DispatcherCheck, Draining
  <2>3. UNCHANGED othersThanPc
    BY <1>2 DEF DispatcherRun, DispatchWhile, DispatchWait, DispatcherCheck
  <2>4. Drained
    BY <2>2, <2>3 DEF Drained, othersThanPc, flags, session, elpp, control, history, user
  <2> QED BY <2>1, <2>4, DrainedKeeps
<1>3. CASE DispatchLive \/ DispatchTotal \/ DispatchPop
  <2>1. pc["disp"] \in Draining \ {"t_send"}
    BY <1>3 DEF DispatchLive, DispatchTotal, DispatchPop, At, Draining
  <2>2. /\ \/ pc' = pc
           \/ Goto("disp", "d_total") \/ Goto("disp", "h_check") \/ Goto("disp", "d_send")
        /\ UNCHANGED <<m_connected, frame>>
    BY <1>1, <1>3, <2>1 DEF DispatchLive, DispatchTotal, DispatchPop, flags
  <2>3. /\ UNCHANGED <<m_connecting, m_running, session, elpp, history, aborted>>
        /\ DispatchFrame
    BY <1>3 DEF DispatchLive, DispatchTotal, DispatchPop, flags
  <2>4. Drained
    BY <2>1, <2>2, <2>3 DEF Drained, DispatchFrame, session, elpp, history, user, Draining
  <2> QED BY <2>1, <2>4, DrainedKeeps
<1>4. CASE HealthCheck("disp")
  <2>1. pc["disp"] = "h_check"
    BY <1>4 DEF HealthCheck, At
  <2>2. /\ \/ Goto("disp", "d_pop") /\ UNCHANGED m_connecting
           \/ Goto("disp", "t_send")
        /\ UNCHANGED frame
    BY <1>4 DEF HealthCheck, AfterHealth, isClientValid, Fresh
  <2>3. /\ UNCHANGED <<m_connected, m_disconnected, m_running, m_host, session>>
        /\ UNCHANGED <<m_dispatcher, elpp, user, history, aborted>>
    BY <1>4 DEF HealthCheck
  <2>4. Drained
    BY <2>2, <2>3 DEF Drained, session, elpp, history, user, Draining
  <2> QED BY <2>1, <2>4, DrainedKeeps DEF Draining
<1>5. CASE Touch("disp")
  <2>1. pc["disp"] = "t_send" /\ connClient.up = TRUE
    BY <1>1, <1>5 DEF Touch, At, Draining
  <2>2. PICK o \in SendOutcomes(TRUE, TRUE) :
          /\ connClient' = [connClient EXCEPT !.up = o.up]
          /\ o.how = "reply" => HandlerCalled /\ Goto("disp", "t_lock") /\ UNCHANGED aborted
    BY <1>5, <2>1 DEF Touch, Reliable
  <2>3. o.how = "reply" /\ o.up = TRUE
    BY <2>2, ReliableSend
  <2>4. /\ connClient' = [connClient EXCEPT !.up = TRUE] /\ m_connecting' = FALSE
        /\ Goto("disp", "t_lock") /\ UNCHANGED aborted
    BY <2>2, <2>3 DEF HandlerCalled
  <2>5. /\ UNCHANGED <<m_connected, m_disconnected, m_running, m_host, logClient, m_key>>
        /\ UNCHANGED <<m_dispatcher, elpp, control, user, history>>
    BY <1>5 DEF Touch
  <2>6. Drained
    BY <2>1, <2>4, <2>5 DEF Drained, elpp, control, history, user, Draining
  <2> QED BY <2>1, <2>4, <2>6, DrainedKeeps DEF Draining
<1>6. CASE TouchReply("disp")
  <2>1. pc["disp"] = "t_lock" /\ Goto("disp", "d_pop")
    BY <1>6 DEF TouchReply, At, AfterHealth
  <2>2. /\ UNCHANGED <<flags, m_host, connClient, logClient, m_key, m_dispatcher>>
        /\ UNCHANGED <<elpp, control, user, history, aborted>>
    BY <1>6 DEF TouchReply
  <2>3. Drained
    BY <2>1, <2>2 DEF Drained, flags, elpp, control, history, user, Draining
  <2> QED BY <2>1, <2>3, DrainedKeeps DEF Draining
<1>7. CASE DispatchSend
  <2>1. pc["disp"] = "d_send" /\ logClient.up = TRUE /\ Accepted
    BY <1>1, <1>7 DEF DispatchSend, At, Draining, Accepted, Fresh
  <2>2. PICK o \in SendOutcomes(TRUE, TRUE) :
          /\ logClient' = [logClient EXCEPT !.up = o.up]
          /\ o.copies > 0 => UNCHANGED lost
          /\ o.how = "reply" => Goto("disp", "d_while") /\ UNCHANGED aborted
    BY <1>7, <2>1 DEF DispatchSend
  <2>3. o.how = "reply" /\ o.up = TRUE /\ o.copies > 0
    BY <2>2, ReliableSend
  <2>4. /\ logClient' = [logClient EXCEPT !.up = TRUE] /\ UNCHANGED <<lost, aborted>>
        /\ Goto("disp", "d_while")
    BY <2>2, <2>3
  <2>5. UNCHANGED <<flags, connClient, m_key, elpp, frame>> /\ DispatchFrame
    BY <1>7 DEF DispatchSend
  <2>6. Drained
    BY <2>1, <2>4, <2>5 DEF Drained, DispatchFrame, flags, elpp, user, Draining
  <2> QED BY <2>1, <2>6, DrainedKeeps DEF Draining
<1>8. ASSUME pc["disp"] \in {"d_check", "d_disc", "d_uninst", "d_stop"},
             pc["disp"] = "d_check" => ForceDisconnect
      PROVE  Closing /\ ~Holding /\ m_requests = <<>> /\ ~m_connected
  BY <1>1, <1>8 DEF ReliableInv, Served, Draining, Stopping, ForceDisconnect
<1>9. CASE DispatcherCheck /\ ForceDisconnect
  <2>1. pc["disp"] = "d_check" /\ Goto("disp", "d_disc") /\ UNCHANGED othersThanPc
    BY <1>9 DEF DispatcherCheck, At
  <2>2. Closing /\ ~Holding /\ m_requests = <<>> /\ ~m_connected
    BY <1>8, <1>9, <2>1
  <2>3. m_running /\ "Residue" \in callbacks
    BY <1>1, <2>1, <2>2 DEF ReliableInv, Served, Draining
  <2>4. Stopped
    BY <1>0, <2>1, <2>2, <2>3 DEF Stopped, othersThanPc, flags, session, queue, elpp, control,
       history, user, Stopping
  <2> QED BY <2>1, <2>2, <2>4, StoppedKeeps
<1>10. CASE DispatcherDisconnect \/ DispatcherUninstall \/ DispatcherStop
  <2>1. /\ pc["disp"] \in {"d_disc", "d_uninst", "d_stop"}
        /\ m_connected' = FALSE
    BY <1>8, <1>10 DEF DispatcherDisconnect, DispatcherUninstall, DispatcherStop, At
  <2>2. PICK l \in {"d_uninst", "d_stop", "done"} : 
          /\ Goto("disp", l)
          /\ m_running' <=> l # "done"
          /\ "Residue" \in callbacks' <=> l = "d_uninst"
          /\ aborted' = "no"
    BY <1>0, <1>1, <1>8, <1>10, <2>1, NobodyIterates
       DEF DispatcherDisconnect, DispatcherUninstall, DispatcherStop, RunningLowered, At,
           ChangeCallbacks, elpp, ReliableInv, Served, Closing, Draining
  <2>3. /\ UNCHANGED <<m_connecting, session, queue, elppLock, frame, history>>
        /\ DispatchFrame
    BY <1>10 DEF DispatcherDisconnect, DispatcherUninstall, DispatcherStop, elpp
  <2> QED BY <1>8, <2>1, <2>2, <2>3, StoppedKeeps DEF Stopped, DispatchFrame, session, queue,
             history, user, Stopping
<1>11. ~ConnectStep("disp") \/ HealthCheck("disp") \/ Touch("disp") \/ TouchReply("disp")
  BY <1>0 DEF ConnectStep, ConnectBegin, ConnectNet, ResetFlags, ResetLock, ResetConnect,
     ResetConnectAgain, ResetReply, ResetAck, ResetAckAgain, Load, LoadUnreadable,
     LoadConnect, UninstallDefault, InstallResidue, SetResidue, RunDispatcher, ResetUnlock,
     At, Draining, Stopping
<1> QED BY <1>2, <1>3, <1>4, <1>5, <1>6, <1>7, <1>9, <1>10, <1>11 DEF DispatcherStep

-----------------------------------------------------------------------------
(* The calls of a program that uses the API as the samples do.             *)
LEMMA CallReliable ==
  ASSUME TypeOK, ReliableInv, Reliable, NEW c \in Calls, Call(c)
  PROVE  ReliableInv'
<1>1. /\ pc["user"] = "idle" /\ \A a \in Apps : pc[a] = "idle"
      /\ logging <=> c \notin {"connect", "load"}
      /\ c \in {"reconnect", "load"} => m_host = UserHost
      /\ c \in {"connect", "reconnect", "disconnect", "load", "wait"}
  BY ResidueClientAssumption DEF Call, At, Reliable, Resting, ReliableInv, Linked
<1>2. PICK l \in {"c_begin", "u_check", "u_join"} :
        /\ Goto("user", l)
        /\ l = "c_begin" <=> c \in {"connect", "load"}
        /\ l = "u_join" <=> c = "wait"
  BY <1>1 DEF Call
<1>3. /\ pc'["user"] = l /\ pc'["disp"] = pc["disp"] /\ \A a \in Apps : pc'[a] = "idle"
  BY <1>1, <1>2, JumpUser
<1>4. /\ call' = c /\ result' = "ok" /\ logging' = (logging /\ c = "wait")
      /\ frame' = [frame EXCEPT !["user"] = IF c = "load" THEN "load" ELSE "connect"]
      /\ UNCHANGED <<m_connected, m_disconnected, m_running, m_dispatcher, aborted>>
      /\ UNCHANGED <<m_connecting, m_host, connClient, logClient, m_key, m_requests, elpp, lost>>
  BY DEF Call, UserFrame, session, queue, history
<1>5. frame'["user"] \in {"connect", "load"} /\ frame'["disp"] = frame["disp"]
  BY <1>4, TypeFacts DEF Connectors
<1>6. Quiet'
  BY <1>1, <1>3, <1>4 DEF ReliableInv, Quiet, elpp
<1>7. Orderly'
  BY <1>1, <1>2, <1>3, <1>4, <1>5 DEF ReliableInv, Orderly, UserPcs, Opening, Opened, Linking
<1>8. Linked'
  BY <1>1, <1>2, <1>3, <1>4 DEF ReliableInv, Linked, Opened, Linking, Holding, Closing
<1>9. Served'
  BY <1>1, <1>2, <1>3, <1>4 DEF ReliableInv, Served, Opened, Holding, Closing, elpp
<1>10. Raised'
  BY <1>1, <1>3, <1>4 DEF ReliableInv, Raised
<1> QED BY <1>4, <1>6, <1>7, <1>8, <1>9, <1>10 DEF ReliableInv, Lossless

(* The steps of disconnect and wait, and the return of every call.         *)
LEMMA UserReliable ==
  ASSUME TypeOK, ReliableInv, Reliable,
         DisconnectCheck \/ DisconnectFlag \/ Wait \/ DisconnectStop \/ Return
  PROVE  ReliableInv'
<1> USE PcFacts, JumpUser, QuietKept
     DEF ReliableInv, Lossless, Orderly, Linked, Served, Raised, Holding, Closing,
         Opening, Linking, Opened, UserPcs, At, user, elpp, queue, history
<1>0. /\ UNCHANGED <<m_connecting, m_host, session, m_requests, elpp, lost, frame>>
  BY DEF DisconnectCheck, DisconnectFlag, Wait, DisconnectStop, Return, UserFrame
<1>1. CASE DisconnectCheck
  <2>1. /\ pc["user"] = "u_check" /\ m_connected' = FALSE /\ Goto("user", "u_flag")
        /\ UNCHANGED <<m_disconnected, m_running, m_dispatcher, user, aborted>>
    BY <1>1 DEF DisconnectCheck
  <2> QED BY <1>0, <2>1 DEF session, Draining, Stopping
<1>2. CASE DisconnectFlag
  <2>1. /\ pc["user"] = "u_flag" /\ Goto("user", "u_join")
        /\ UNCHANGED <<m_connected, m_running, m_dispatcher, user, aborted>>
    BY <1>2 DEF DisconnectFlag
  <2> QED BY <1>0, <2>1 DEF session
<1>3. CASE Wait
  <2>1. /\ pc["user"] = "u_join" /\ m_dispatcher = "joinable"
    BY <1>3 DEF Wait
  <2>2. /\ pc["disp"] = "done" /\ call # "wait"
        /\ m_dispatcher' = "joined" /\ Goto("user", "u_stop")
        /\ UNCHANGED <<m_connected, m_disconnected, m_running, user, aborted>>
    BY <1>3, <2>1 DEF Wait, Draining
  <2> QED BY <1>0, <2>1, <2>2 DEF session, Draining, Stopping
<1>4. CASE DisconnectStop
  <2>1. /\ pc["user"] = "u_stop" /\ m_running' = FALSE
        /\ Goto("user", IF call = "reconnect" THEN "c_begin" ELSE "u_end")
        /\ UNCHANGED <<m_connected, m_disconnected, m_dispatcher, user, aborted>>
    BY <1>4 DEF DisconnectStop, AfterDisconnect
  <2> QED BY <1>0, <2>1 DEF session
<1>5. CASE Return
  <2>1. /\ pc["user"] = "u_end" /\ Goto("user", "idle") /\ call' = "none"
        /\ logging' <=> Holding
        /\ UNCHANGED <<m_connected, m_disconnected, m_running, m_dispatcher, result, aborted>>
    BY <1>5 DEF Return
  <2> QED BY <1>0, <2>1 DEF session
<1> QED BY <1>1, <1>2, <1>3, <1>4, <1>5

(* Log statements find the callback and the Residue.                       *)
LEMMA AppReliable ==
  ASSUME TypeOK, ReliableInv, Reliable, NEW a \in Apps, Log(a) \/ AppStep(a)
  PROVE  ReliableInv'
<1> USE PcFacts
<1>1. /\ UNCHANGED <<m_connected, m_connecting, m_disconnected, m_running, m_host>>
      /\ UNCHANGED <<connClient, logClient, m_key, m_dispatcher, callbacks, residueSet>>
      /\ UNCHANGED <<frame, call, result, logging, lost>>
  BY DEF Log, AppStep, Iterate, AddToQueue, AppFrame, flags, session, control, user, history
<1>2. pc["user"] = "idle" /\ logging
  BY DEF Log, AppStep, Iterate, AddToQueue, At, Reliable, ReliableInv, Quiet
<1>3. PICK l \in {"idle", "iterate", "push"} :
        /\ Goto(a, l)
        /\ elppLock' = (IF l = "idle" THEN "none" ELSE a)
        /\ elppLock \in {"none", a}
        /\ aborted' = "no"
  BY <1>2 DEF Log, AppStep, Iterate, AddToQueue, At, ReliableInv, Orderly, Served, Holding,
     Quiet, Alive
<1>4. /\ pc'[a] = l /\ \A b \in Apps \ {a} : pc'[b] = pc[b] 
      /\ pc'["user"] = pc["user"] /\ pc'["disp"] = pc["disp"]
  BY <1>3 DEF Goto
<1>5. Quiet'
  BY <1>1, <1>2, <1>3, <1>4 DEF ReliableInv, Quiet
<1>6. Orderly' /\ Linked' /\ Raised'
  BY <1>1, <1>3, <1>4 DEF ReliableInv, Orderly, Linked, Raised, Holding, Closing
<1>7. Served'
  BY <1>1, <1>2, <1>4 DEF ReliableInv, Served, Holding, Closing, Draining, Stopping
<1> QED BY <1>1, <1>5, <1>6, <1>7 DEF ReliableInv, Lossless

-----------------------------------------------------------------------------
LEMMA ReliableInit ==
  ASSUME Reliable, Init
  PROVE  ReliableInv
<1>1. pc["user"] = "idle" /\ pc["disp"] = "done" /\ \A a \in Apps : pc[a] = "idle"
  BY ThreadsFacts DEF Init
<1>2. frame["user"] = "connect" /\ frame["disp"] = "connect"
  BY DEF Init, Connectors
<1>3. Orderly /\ Raised
  BY <1>1, <1>2 DEF Init, Orderly, Raised, UserPcs, Stopping, Opening, Opened, Linking
<1>4. Quiet
  BY <1>1, ResidueClientAssumption DEF Init, Quiet
<1>5. Linked
  BY <1>1 DEF Init, Linked, Opened, Linking, Holding, Closing
<1>6. Served
  BY <1>1 DEF Init, Served, Opened, Holding, Closing
<1> QED BY <1>3, <1>4, <1>5, <1>6 DEF Init, ReliableInv, Lossless

LEMMA ReliableStep ==
  ASSUME Reliable, TypeOK, ReliableInv, Fresh, [Next]_vars
  PROVE  ReliableInv'
<1>1. CASE Age \/ UNCHANGED vars
  BY <1>1 DEF Age, vars, flags, queue, elpp, control, user, history, session, ReliableInv,
     Lossless, Orderly, Quiet, Linked, Served, Raised, Holding, Closing
<1>2. CASE UserStep
  <2>1. CASE ConnectStep("user")
    <3>1. /\ ~ResetConnectAgain("user") /\ ~ResetAckAgain("user")
          /\ ~LoadUnreadable("user")
      BY DEF ResetConnectAgain, ResetAckAgain, LoadUnreadable, At, Reliable, ReliableInv,
         Orderly, Opening, Opened, Linking, UserPcs
    <3> QED BY <2>1, <3>1, LinkingStep, OpeningStep DEF ConnectStep
  <2> QED BY <1>2, <2>1, UserReliable DEF UserStep
<1> QED BY <1>1, <1>2, DispatcherReliable, CallReliable, AppReliable DEF Next

THEOREM ReliableInvariant ==
  ASSUME Reliable
  PROVE  Spec /\ []Fresh => []ReliableInv
<1>1. Init => ReliableInv
  BY ReliableInit
<1>2. TypeOK /\ ReliableInv /\ Fresh /\ [Next]_vars => ReliableInv'
  BY ReliableStep
<1> QED BY <1>1, <1>2, TypeCorrect, PTL DEF Spec

(* The process survives: no data race on the callbacks or the clients, no  *)
(* null callback, dispatcher or Residue, no deletion of a running thread,  *)
(* and no exception out of a thread's function or of touch().              *)
THEOREM ReliableSurvives ==
  ASSUME Reliable
  PROVE  Spec /\ []Fresh => []NoAbort
<1>1. ReliableInv => NoAbort
  BY DEF ReliableInv, Orderly, NoAbort, Alive
<1> QED BY <1>1, ReliableInvariant, PTL

(* When disconnect() returns the queue is empty, nothing is in dispatch()'s*)
(* hands, the thread has ended and its callback is gone.                   *)
THEOREM ReliableFlushes ==
  ASSUME Reliable
  PROVE  Spec /\ []Fresh => []FlushedOnDisconnect
<1>1. DispatcherInHand /\ ReliableInv => FlushedOnDisconnect
  BY DEF ReliableInv, Served, Holding, Closing, Opened, Stopping, DispatcherInHand,
     FlushedOnDisconnect
<1> QED BY <1>1, ReliableInvariant, InHand, PTL

(* While the user holds a connection the dispatcher runs and the callback  *)
(* that fills its queue is installed and knows its Residue.                *)
THEOREM ReliableServes ==
  ASSUME Reliable
  PROVE  Spec /\ []Fresh => []ConnectionServed
<1>1. ReliableInv => ConnectionServed
  BY DEF ReliableInv, Orderly, Served, Holding, ConnectionServed, Draining
<1> QED BY <1>1, ReliableInvariant, PTL

(* m_connecting, which holds dispatch() back, is never left raised.        *)
THEOREM ReliableLowersConnecting ==
  ASSUME Reliable
  PROVE  Spec /\ []Fresh => []ConnectingInProgress
<1>1. ReliableInv => ConnectingInProgress
  BY DEF ReliableInv, Raised, ConnectingInProgress, InHandshake, Connectors
<1> QED BY <1>1, ReliableInvariant, PTL

(* Nothing is lost: every step queues, takes or delivers, as LogDelivery   *)
(* promises of a network that has no faults.                               *)
THEOREM ReliableDelivery ==
  ASSUME Reliable
  PROVE  Spec /\ []Fresh => Promise!Init /\ [][Promise!ReliableNext]_(Promise!vars)
<1>1. Init => Promise!Init
  BY DEF Init, Promise!Init
<1>2. /\ TypeOK /\ TypeOK' /\ PopBound /\ DispatcherInHand /\ [Next]_vars
      /\ Lossless'
      => [Promise!ReliableNext]_(Promise!vars)
  <2> SUFFICES ASSUME TypeOK, [Promise!Next]_(Promise!vars), lost' = {}
               PROVE  [Promise!ReliableNext]_(Promise!vars)
    BY PromiseStep DEF Lossless
  <2>1. ~Promise!Lose
    <3> SUFFICES ASSUME batch # <<>>, {} = lost \cup {batch[i] : i \in 1..Len(batch)}
                 PROVE  FALSE
      BY DEF Promise!Lose
    <3>1. 1 \in 1..Len(batch)
      BY QueueTypes
    <3> QED BY <3>1
  <2> QED BY <2>1 DEF Promise!Next, Promise!ReliableNext
<1>3. ReliableInv => Lossless
  BY DEF ReliableInv
<1> QED BY <1>1, <1>2, <1>3, ReliableInvariant, TypeCorrect, InHand, PTL DEF Spec
=============================================================================
