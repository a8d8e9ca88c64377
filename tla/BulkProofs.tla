----------------------------- MODULE BulkProofs -----------------------------
(***************************************************************************)
(* Bulk dispatch keeps its types, its frames, the server's limits and its  *)
(* sessions for every server, clock and sequence of setters.               *)
(***************************************************************************)
EXTENDS BulkDispatch, TLAPS

(* What every proof below does first: a step is one of these.              *)
LEMMA Steps ==
  ASSUME [Next]_vars
  PROVE  \/ Connect \/ Grant \/ HandshakeFails \/ Parameters \/ AutoParameters
         \/ Clamp \/ Connected \/ Open \/ Size \/ Renew \/ Touch \/ TouchRefused
         \/ TouchFails \/ Healthy \/ Pop \/ Send \/ Stop \/ SetBulkSize
         \/ EnableBulkDispatch \/ Assign \/ DisableBulkDispatch
         \/ SetAutoBulkParams \/ Log \/ Tick \/ UNCHANGED vars
  BY DEF Next, Thread

(* The constants' ranges, and that a round fits into TOUCH_THRESHOLD.      *)
LEMMA Bounds ==
  /\ Policies \subseteq [age : Nat, allow : BOOLEAN, max : Nat]
  /\ Sizes \subseteq Nat /\ AutoBulkSize \in Nat /\ Start \in Nat
  /\ RoundTime \in Nat /\ Skew \in Int /\ Modulus \in Nat
  /\ TOUCH_THRESHOLD \in Nat
  /\ RoundTime < TOUCH_THRESHOLD /\ RoundTime - Skew < TOUCH_THRESHOLD
  /\ \A p \in Policies : /\ p.age = 0 \/ p.age > RoundTime
                         /\ p.age <= Modulus /\ p.age - Skew <= Modulus
  BY BulkDispatchAssumption, RoundTimeAssumption, SessionClockAssumption

(* Moving the switch is noted in the round and changes nothing else of it. *)
LEMMA MovedOnly ==
  ASSUME round \in RoundType, NEW on \in BOOLEAN
  PROVE  /\ Moved(on) \in RoundType
         /\ Moved(on).on = round.on /\ Moved(on).n = round.n
         /\ Moved(on).open = round.open /\ Moved(on).close = round.close
         /\ Moved(on).max = round.max /\ Moved(on).loose = round.loose
         /\ Moved(on).refused = round.refused
         /\ Moved(on).moved = (round.moved \/ (round.on /\ on # m_bulkDispatch))
<1>1. \A b : [round EXCEPT !.moved = b].moved = b
  BY DEF RoundType
<1>2. (round.moved \/ (round.on /\ on # m_bulkDispatch)) \in BOOLEAN OBVIOUS
<1>3. \A b \in BOOLEAN : [round EXCEPT !.moved = b] \in RoundType
  BY DEF RoundType
<1> QED BY <1>1, <1>2, <1>3 DEF Moved, RoundType

(* A refused touch is noted in the round and changes nothing else of it.   *)
LEMMA RefusedOnly ==
  ASSUME round \in RoundType, TouchRefused
  PROVE  /\ round'.on = round.on /\ round'.n = round.n
         /\ round'.open = round.open /\ round'.close = round.close
         /\ round'.max = round.max /\ round'.loose = round.loose
         /\ round'.moved = round.moved /\ round'.refused
  BY DEF TouchRefused, RoundType

(* A batch takes from the queue what there is at most.                     *)
LEMMA CutToQueue ==
  ASSUME TypeOK PROVE totalRequests \in Nat /\ totalRequests <= m_requests
  BY DEF TypeOK, totalRequests

-----------------------------------------------------------------------------
(* The client is made with an empty queue and no round under way.          *)
LEMMA InitTypeCorrect == Init => TypeOK /\ Cut
<1> SUFFICES ASSUME Init PROVE TypeOK /\ Cut OBVIOUS
<1>1. round \in RoundType /\ setter \in [call : {"none", "setBulkSize",
        "enableBulkDispatch"}, size : Nat, fresh : BOOLEAN]
  BY DEF Init, NoRound, NoSetter, RoundType
<1>2. lease \in [age : Nat, created : Nat, max : Nat, allow : BOOLEAN]
  BY Bounds DEF Init
<1> QED BY <1>1, <1>2, Bounds DEF Init, TypeOK, Cut, NoRound

(* The steps in the order of the program; only Size and Pop touch what a   *)
(* round means to take, and only Log, on other threads, the queue.         *)
LEMMA StepTypeCorrect == TypeOK /\ Cut /\ [Next]_vars => TypeOK' /\ Cut'
<1> SUFFICES ASSUME TypeOK, Cut, [Next]_vars PROVE TypeOK' /\ Cut' OBVIOUS
<1> USE Bounds DEF TypeOK, Cut, RoundType, Handshake, Goto, loose
<1>1. CASE Connect BY <1>1 DEF Connect, session, limits, bulk, calls, queue
<1>2. CASE Grant BY <1>2 DEF Grant, limits, bulk, calls, queue
<1>3. CASE HandshakeFails
  BY <1>3 DEF HandshakeFails, session, limits, bulk, calls, queue
<1>4. CASE Parameters BY <1>4 DEF Parameters, calls, queue
<1>5. CASE AutoParameters
  BY <1>5, MovedOnly DEF AutoParameters, AutoSize, session, limits, bulk, calls, queue
<1>6. CASE Clamp
  <2>1. /\ m_bulkDispatch' \in BOOLEAN /\ looseSize' \in BOOLEAN
        /\ looseSwitch' \in BOOLEAN
    BY <1>6, Zenon DEF Clamp
  <2> QED BY <1>6, <2>1, MovedOnly DEF Clamp, Clamped, session, limits, calls, queue
<1>7. CASE Connected BY <1>7 DEF Connected, limits, bulk, calls, queue
<1>8. CASE Open BY <1>8 DEF Open, NoRound, session, limits, bulk, calls, queue
<1>9. CASE Size
  BY <1>9, CutToQueue DEF Size, session, limits, bulk, calls, queue
<1>10. CASE Renew
  <2>1. m_connected' \in BOOLEAN BY <1>10, Zenon DEF Renew
  <2> QED BY <1>10, <2>1 DEF Renew, limits, bulk, calls, queue
<1>11. CASE Touch BY <1>11 DEF Touch, Touches, limits, bulk, calls, queue
<1>12. CASE TouchRefused
  BY <1>12 DEF TouchRefused, Touches, session, limits, bulk, calls, queue
<1>13. CASE TouchFails BY <1>13 DEF TouchFails, Touches, limits, bulk, calls, queue
<1>14. CASE Healthy BY <1>14 DEF Healthy, limits, bulk, calls, queue
<1>15. CASE Pop BY <1>15 DEF Pop, session, limits, bulk, calls
<1>16. CASE Send BY <1>16 DEF Send, NoRound, session, limits, bulk, calls, queue
<1>17. CASE Stop BY <1>17 DEF Stop, session, limits, bulk, calls, queue
<1>18. CASE SetBulkSize
  BY <1>18 DEF SetBulkSize, Calls, session, limits, bulk, queue
<1>19. CASE EnableBulkDispatch
  BY <1>19 DEF EnableBulkDispatch, Calls, session, limits, bulk, queue
<1>20. CASE Assign
  <2>1. looseSize' \in BOOLEAN /\ looseSwitch' \in BOOLEAN BY <1>20 DEF Assign
  <2> QED BY <1>20, <2>1, MovedOnly DEF Assign, NoSetter, session, limits, queue
<1>21. CASE DisableBulkDispatch
  <2>1. m_bulkDispatch' \in BOOLEAN BY <1>21, Zenon DEF DisableBulkDispatch
  <2>2. round' \in RoundType /\ round'.on = round.on /\ round'.n = round.n
    <3>1. round' = Moved(FALSE) BY <1>21 DEF DisableBulkDispatch
    <3>2. FALSE \in BOOLEAN OBVIOUS
    <3> QED BY <3>1, <3>2, MovedOnly
  <2>3. /\ UNCHANGED <<session, limits, m_bulkSize, loose, m_autoBulkParams,
                       setter, queue, pc, now, spent>>
        /\ sets' = sets + 1
    BY <1>21, Zenon DEF DisableBulkDispatch, Calls
  <2> QED BY ONLY TypeOK, Cut, <2>1, <2>2, <2>3
        DEF session, limits, loose, queue, TypeOK, Cut, RoundType, Handshake
<1>22. CASE SetAutoBulkParams
  BY <1>22 DEF SetAutoBulkParams, Calls, session, limits, bulk, queue
<1>23. CASE Log BY <1>23 DEF Log, session, limits, bulk, calls
<1>24. CASE Tick BY <1>24 DEF Tick, limits, bulk, calls, queue
<1>25. CASE UNCHANGED vars
  BY <1>25 DEF vars, session, limits, bulk, calls, queue
<1> QED
  BY ONLY Steps, <1>1, <1>2, <1>3, <1>4, <1>5, <1>6, <1>7, <1>8, <1>9, <1>10, <1>11,
    <1>12, <1>13, <1>14, <1>15, <1>16, <1>17, <1>18, <1>19, <1>20, <1>21, <1>22,
    <1>23, <1>24, <1>25, [Next]_vars

(* Every variable keeps its type, for every server, clock and setter, and  *)
(* dispatch() never takes more than the queue has.                         *)
THEOREM TypeCorrect == Spec => [](TypeOK /\ Cut)
  BY InitTypeCorrect, StepTypeCorrect, PTL DEF Spec

-----------------------------------------------------------------------------
(* What a round has read of the switch stays true of it until it is moved; *)
(* Open, Size and Pop read it.                                             *)
LEMMA StepRoundKept ==
  TypeOK /\ Cut /\ RoundKept /\ [Next]_vars => RoundKept'
<1> SUFFICES ASSUME TypeOK, Cut, RoundKept, [Next]_vars PROVE RoundKept' OBVIOUS
<1> USE DEF Cut, RoundKept, Goto
<1>0. round \in RoundType /\ m_bulkDispatch \in BOOLEAN BY DEF TypeOK
<1>1. CASE Connect \/ Grant \/ HandshakeFails \/ Connected \/ Renew \/ Touch
          \/ TouchFails \/ Healthy \/ Stop
  BY <1>1, <1>0 DEF Connect, Grant, HandshakeFails, Connected, Renew, Touch, Touches,
     TouchFails, Healthy, Stop, bulk, Handshake
<1>2. CASE Parameters BY <1>2, <1>0 DEF Parameters, RoundType
<1>3. CASE AutoParameters
  BY <1>3, <1>0, MovedOnly DEF AutoParameters, bulk
<1>4. CASE Clamp
  BY <1>4, <1>0, MovedOnly DEF Clamp
<1>5. CASE Open BY <1>5, <1>0 DEF Open, NoRound, bulk
<1>6. CASE Size BY <1>6, <1>0 DEF Size, totalRequests, RoundType, bulk, TypeOK
<1>7. CASE TouchRefused BY <1>7, <1>0, RefusedOnly DEF TouchRefused, Touches, bulk
<1>8. CASE Pop BY <1>8, <1>0 DEF Pop, RoundType, bulk
<1>9. CASE Send BY <1>9, <1>0 DEF Send, NoRound, bulk
<1>10. CASE SetBulkSize \/ EnableBulkDispatch \/ SetAutoBulkParams \/ Log \/ Tick
  BY <1>10 DEF SetBulkSize, EnableBulkDispatch, SetAutoBulkParams, Log, Tick, bulk
<1>11. CASE Assign BY <1>11, <1>0, MovedOnly DEF Assign
<1>12. CASE DisableBulkDispatch BY <1>12, <1>0, MovedOnly DEF DisableBulkDispatch
<1>13. CASE UNCHANGED vars BY <1>13 DEF vars, bulk
<1> QED
  BY ONLY Steps, <1>1, <1>2, <1>3, <1>4, <1>5, <1>6, <1>7, <1>8, <1>9, <1>10, <1>11,
    <1>12, <1>13, [Next]_vars

(* Only moving the switch within a round spoils the frame of its batch.    *)
THEOREM FramesWellFormed == Spec => []WellFormed
<1>1. Init => RoundKept BY DEF Init, NoRound, RoundKept
<1>2. RoundKept /\ Cut => WellFormed BY DEF RoundKept, Cut, WellFormed
<1> QED BY <1>1, <1>2, StepRoundKept, TypeCorrect, PTL DEF Spec

-----------------------------------------------------------------------------
(* Only a handshake moves the limits, and it clamps the size or leaves it  *)
(* loose; only a setter moves the size, which is fresh or makes it loose.  *)
LEMMA StepLimitsKept ==
  TypeOK /\ Cut /\ LimitsKept /\ [Next]_vars => LimitsKept'
<1> SUFFICES ASSUME TypeOK, Cut, LimitsKept, [Next]_vars PROVE LimitsKept' OBVIOUS
<1> USE DEF Cut, LimitsKept, Handshake, Goto
<1>0. /\ round \in RoundType /\ m_bulkDispatch \in BOOLEAN /\ allow \in BOOLEAN
      /\ looseSize \in BOOLEAN /\ looseSwitch \in BOOLEAN
      /\ m_bulkSize \in Nat /\ m_maxBulkSize \in Nat /\ m_requests \in Nat
      /\ setter \in [call : {"none", "setBulkSize", "enableBulkDispatch"},
                     size : Nat, fresh : BOOLEAN]
  BY DEF TypeOK
<1>1. CASE Connect \/ Grant \/ HandshakeFails \/ Connected \/ Renew \/ Touch
          \/ TouchFails \/ Healthy \/ Stop
  BY <1>1 DEF Connect, Grant, HandshakeFails, Connected, Renew, Touch, Touches,
     TouchFails, Healthy, Stop, session, limits, bulk, loose, calls
<1>2. CASE Parameters
  <2>1. lease.max \in Nat /\ lease.allow \in BOOLEAN BY DEF TypeOK
  <2>2. ~looseSize' => m_bulkSize' <= m_maxBulkSize'
    <3>1. m_bulkSize' = m_bulkSize /\ m_maxBulkSize' = lease.max
      BY <1>2 DEF Parameters
    <3>2. ~looseSize' => ~looseSize /\ ~(lease.max < m_maxBulkSize)
      BY <1>2, Zenon DEF Parameters
    <3>3. ~looseSize => m_bulkSize <= m_maxBulkSize OBVIOUS
    <3> QED BY <1>0, <2>1, <3>1, <3>2, <3>3
  <2>3. m_bulkDispatch' /\ ~looseSwitch' => allow'
    BY <1>2, <1>0, <2>1, Zenon DEF Parameters
  <2>4. ~setter'.fresh BY <1>2, <1>0 DEF Parameters
  <2>5. /\ round'.on = round.on /\ round'.n = round.n /\ round'.loose = round.loose
        /\ round'.max >= round.max /\ pc = "params"
    BY <1>2, <1>0, <2>1 DEF Parameters, RoundType
  <2>6. round'.on /\ pc' # "size" /\ ~round'.loose /\ round'.n > 1 =>
          round'.n <= round'.max
    BY <1>0, <2>1, <2>5, <1>2 DEF RoundType, Parameters
  <2> QED BY <2>2, <2>3, <2>4, <2>6
<1>3. CASE AutoParameters
  <2>1. /\ round'.on = round.on /\ round'.n = round.n /\ round'.max = round.max
        /\ round'.loose = round.loose
    BY <1>3, <1>0, MovedOnly DEF AutoParameters
  <2>2. UNCHANGED <<m_maxBulkSize, allow, setter>> /\ pc = "auto"
    BY <1>3 DEF AutoParameters, limits, calls
  <2>3. CASE m_autoBulkParams /\ allow
    <3>1. m_bulkSize' = AutoSize BY <1>3, <2>3 DEF AutoParameters
    <3>2. AutoSize <= m_maxBulkSize BY <1>0, Bounds DEF AutoSize
    <3> QED BY <1>0, <2>1, <2>2, <2>3, <3>1, <3>2
  <2>4. CASE ~(m_autoBulkParams /\ allow)
    <3>1. UNCHANGED <<bulk, round>> BY <1>3, <2>4 DEF AutoParameters
    <3> QED BY <1>0, <2>2, <3>1 DEF bulk, loose
  <2> QED BY <2>3, <2>4
<1>4. CASE Clamp
  <2>1. m_bulkDispatch' \in BOOLEAN /\ (m_bulkDispatch' => m_bulkDispatch /\ allow)
    BY <1>4, <1>0, Zenon DEF Clamp, Allowed
  <2>2. ~looseSize' => m_bulkSize' <= m_maxBulkSize
    BY <1>4, <1>0 DEF Clamp, Clamped
  <2>3. UNCHANGED <<session, limits, calls>> /\ pc = "clamp" BY <1>4 DEF Clamp
  <2>4. /\ round'.on = round.on /\ round'.n = round.n /\ round'.max = round.max
        /\ round'.loose = round.loose
    BY <1>4, <1>0, <2>1, MovedOnly DEF Clamp
  <2> QED
    BY <1>0, <2>1, <2>2, <2>3, <2>4 DEF session, limits, calls
<1>5. CASE Open BY <1>5, <1>0 DEF Open, NoRound, session, limits, bulk, loose, calls
<1>6. CASE Size
  <2>1. /\ round'.n = totalRequests /\ round'.max = m_maxBulkSize
        /\ round'.loose = looseSize
    BY <1>6, <1>0 DEF Size, RoundType
  <2>2. totalRequests > 1 => m_bulkDispatch /\ totalRequests <= m_bulkSize
    BY <1>0 DEF totalRequests
  <2>3. totalRequests \in Nat BY CutToQueue
  <2>4. pc' = "health" /\ UNCHANGED <<session, limits, bulk, calls>>
    BY <1>6 DEF Size
  <2>5. ~round'.loose /\ round'.n > 1 => round'.n <= round'.max
    <3> SUFFICES ASSUME ~round'.loose, round'.n > 1 PROVE round'.n <= round'.max
      OBVIOUS
    <3>1. m_bulkSize <= m_maxBulkSize BY <2>1
    <3>2. totalRequests <= m_bulkSize BY <2>1, <2>2
    <3> QED BY <1>0, <2>1, <2>3, <3>1, <3>2
  <2> QED BY <2>4, <2>5 DEF session, limits, bulk, loose, calls
<1>7. CASE TouchRefused
  BY <1>7, <1>0, RefusedOnly DEF TouchRefused, Touches, session, limits, bulk, loose, calls
<1>8. CASE Pop BY <1>8, <1>0 DEF Pop, RoundType, session, limits, bulk, loose, calls
<1>9. CASE Send BY <1>9, <1>0 DEF Send, NoRound, session, limits, bulk, loose, calls
<1>10. CASE SetBulkSize
  BY <1>10, <1>0, Bounds DEF SetBulkSize, Refused, session, limits, bulk, loose
<1>11. CASE EnableBulkDispatch
  BY <1>11, <1>0 DEF EnableBulkDispatch, session, limits, bulk, loose
<1>12. CASE SetAutoBulkParams \/ Log \/ Tick
  BY <1>12 DEF SetAutoBulkParams, Log, Tick, session, limits, bulk, loose, calls
<1>13. CASE Assign
  <2>1. UNCHANGED <<session, limits, pc>> BY <1>13 DEF Assign
  <2>2. ~setter'.fresh BY <1>13 DEF Assign, NoSetter
  <2>3. /\ round'.on = round.on /\ round'.n = round.n /\ round'.max = round.max
        /\ round'.loose = round.loose
    BY <1>13, <1>0, MovedOnly DEF Assign
  <2>4. CASE setter.call = "setBulkSize"
    <3>1. /\ m_bulkSize' = setter.size /\ looseSize' = ~setter.fresh
          /\ UNCHANGED <<m_bulkDispatch, looseSwitch>>
      BY <1>13, <2>4 DEF Assign
    <3> QED BY <1>0, <2>1, <2>2, <2>3, <2>4, <3>1 DEF limits
  <2>5. CASE setter.call # "setBulkSize"
    <3>1. looseSwitch' = ~setter.fresh /\ UNCHANGED <<m_bulkSize, looseSize>>
      BY <1>13, <2>5 DEF Assign
    <3> QED BY <1>0, <2>1, <2>2, <2>3, <2>5, <3>1 DEF limits
  <2> QED BY <2>4, <2>5
<1>14. CASE DisableBulkDispatch
  <2>1. /\ round'.on = round.on /\ round'.n = round.n /\ round'.max = round.max
        /\ round'.loose = round.loose
    BY <1>14, <1>0, MovedOnly DEF DisableBulkDispatch
  <2> QED BY <1>14, <1>0, <2>1 DEF DisableBulkDispatch, session, limits, loose
<1>15. CASE UNCHANGED vars BY <1>15 DEF vars, session, limits, bulk, loose, calls
<1> QED
  BY ONLY Steps, <1>1, <1>2, <1>3, <1>4, <1>5, <1>6, <1>7, <1>8, <1>9, <1>10, <1>11,
    <1>12, <1>13, <1>14, <1>15, [Next]_vars

(* The size and the switch stay within the limits.                         *)
LEMMA LimitsAlwaysKept == Spec => []LimitsKept
<1>1. Init => LimitsKept BY DEF Init, NoRound, NoSetter, LimitsKept
<1> QED BY <1>1, StepLimitsKept, TypeCorrect, PTL DEF Spec

(* Bulk dispatch is on only where the server takes it, but for a setter    *)
(* that was overtaken.                                                     *)
THEOREM BulkAllowed == Spec => []BulkOnlyWhereAllowed
<1>1. LimitsKept => BulkOnlyWhereAllowed BY DEF LimitsKept, BulkOnlyWhereAllowed
<1> QED BY <1>1, LimitsAlwaysKept, PTL

(* A batch is within the server's limit, whenever the program sets a size *)
(* and turns bulk dispatch on, unless its size was never compared with it. *)
THEOREM BatchesWithinLimit == Spec => []WithinLimit
<1>1. LimitsKept /\ Cut => WithinLimit BY DEF LimitsKept, Cut, WithinLimit
<1> QED BY <1>1, LimitsAlwaysKept, TypeCorrect, PTL

-----------------------------------------------------------------------------
(* The health check's arithmetic: what is neither ended nor to be touched  *)
(* by a clock that differs by Skew leaves the server's session more than   *)
(* a round.                                                                *)
LEMMA CheckLeavesRound ==
  ASSUME NEW age \in Nat, NEW created \in Nat, now \in Nat, created <= now, age # 0,
         age <= Modulus, age - Skew <= Modulus,
         isClientValid(age, created, Local), ~shouldTouch(age, created, Local)
  PROVE  age - (now - created) > RoundTime
<1> USE Bounds DEF Local
<1>1. Minus(Local, created) < age BY DEF isClientValid
<1>2. created <= Local BY <1>1 DEF Minus
<1>3. Minus(Local, created) = Local - created BY <1>2 DEF Minus
<1>4. Minus(age, Local - created) = age - (Local - created) BY <1>1, <1>3 DEF Minus
<1>5. age - (Local - created) >= TOUCH_THRESHOLD BY <1>3, <1>4 DEF shouldTouch
<1> QED BY <1>5

(* Ticks within a round are counted by since, which starts at a check or a *)
(* grant with more than RoundTime left.                                    *)
LEMMA StepSessionKept ==
  TypeOK /\ Cut /\ SessionKept /\ [Next]_vars => SessionKept'
<1> SUFFICES ASSUME TypeOK, Cut, SessionKept, [Next]_vars PROVE SessionKept' OBVIOUS
<1> USE DEF Cut, SessionKept, Goto
<1>0. /\ lease \in [age : Nat, created : Nat, max : Nat, allow : BOOLEAN]
      /\ now \in Nat /\ since \in Nat /\ spent \in Nat /\ m_age \in Nat
      /\ m_dateCreated \in Nat /\ round \in RoundType
  BY DEF TypeOK
<1>1. CASE Connect \/ HandshakeFails \/ Renew \/ Stop
  BY <1>1, <1>0 DEF Connect, HandshakeFails, Renew, Stop, session
<1>2. CASE Grant
  <2>1. PICK p \in Policies :
          lease' = [age |-> p.age, created |-> now, max |-> p.max, allow |-> p.allow]
    BY <1>2 DEF Grant
  <2>2. lease'.age = p.age /\ lease'.created = now BY <2>1
  <2>3. p.age \in Nat /\ (p.age = 0 \/ p.age > RoundTime) BY Bounds
  <2> QED BY <1>2, <1>0, <2>2, <2>3, Bounds DEF Grant
<1>3. CASE Parameters BY <1>3, <1>0 DEF Parameters, RoundType
<1>4. CASE AutoParameters BY <1>4, <1>0, MovedOnly DEF AutoParameters, session
<1>5. CASE Clamp BY <1>5, <1>0, MovedOnly DEF Clamp, session
<1>6. CASE Connected BY <1>6, <1>0 DEF Connected
<1>7. CASE Open \/ Size \/ Send
  BY <1>7, <1>0 DEF Open, Size, Send, session
<1>8. CASE Touch
  <2>1. lease'.age = lease.age /\ lease'.created = now BY <1>8, <1>0 DEF Touch
  <2>2. lease.age = 0 \/ lease.age > RoundTime BY Bounds
  <2> QED BY <1>8, <1>0, <2>1, <2>2, Bounds DEF Touch
<1>9. CASE TouchRefused BY <1>9, <1>0, RefusedOnly DEF TouchRefused, Touches, session
<1>10. CASE TouchFails
  <2>1. lease'.age = lease.age /\ lease'.created <= now BY <1>10, <1>0 DEF TouchFails
  <2> QED BY <1>10, <1>0, <2>1 DEF TouchFails
<1>11. CASE Healthy
  <2>1. lease.age = 0 \/ spent # 0 \/ lease.age - (now - lease.created) > RoundTime
    <3> SUFFICES ASSUME lease.age # 0, spent = 0
                 PROVE  lease.age - (now - lease.created) > RoundTime
      OBVIOUS
    <3>1. lease.age = m_age /\ lease.created = m_dateCreated BY <1>11 DEF Healthy
    <3>2. m_age <= Modulus /\ m_age - Skew <= Modulus BY <3>1, Bounds
    <3> QED BY <1>11, <1>0, <3>1, <3>2, CheckLeavesRound DEF Healthy
  <2> QED BY <1>11, <1>0, <2>1, Bounds DEF Healthy
<1>12. CASE Pop BY <1>12, <1>0 DEF Pop, RoundType, session
<1>13. CASE SetBulkSize \/ EnableBulkDispatch \/ SetAutoBulkParams \/ Log
  BY <1>13 DEF SetBulkSize, EnableBulkDispatch, SetAutoBulkParams, Log, session
<1>14. CASE Assign BY <1>14, <1>0, MovedOnly DEF Assign, session
<1>15. CASE DisableBulkDispatch
  BY <1>15, <1>0, MovedOnly DEF DisableBulkDispatch, session
<1>16. CASE Tick BY <1>16, <1>0, Bounds DEF Tick
<1>17. CASE UNCHANGED vars BY <1>17 DEF vars, session
<1> QED
  BY ONLY Steps, <1>1, <1>2, <1>3, <1>4, <1>5, <1>6, <1>7, <1>8, <1>9, <1>10, <1>11,
    <1>12, <1>13, <1>14, <1>15, <1>16, <1>17, [Next]_vars

(* While handshakes and touches succeed no batch goes out over a session   *)
(* the server has ended, whatever the ages it grants and the two clocks.   *)
THEOREM SessionsOutliveRounds == Spec => []NeverSentExpired
<1>1. Init => SessionKept BY Bounds DEF Init, SessionKept
<1>2. TypeOK /\ SessionKept => NeverSentExpired
  <2> SUFFICES ASSUME TypeOK, SessionKept, pc = "send", spent = 0, ~round.refused
               PROVE  Live
    BY DEF NeverSentExpired
  <2> QED BY Bounds DEF TypeOK, SessionKept, Live
<1> QED BY <1>1, <1>2, StepSessionKept, TypeCorrect, PTL DEF Spec
=============================================================================
