---------------------------- MODULE BulkDispatch ----------------------------
(***************************************************************************)
(* The parameters of bulk dispatch and the session over which batches go   *)
(* (residue.cc): a handshake negotiates m_bulkDispatch and m_bulkSize with *)
(* the server's parameters, application threads set them at any time, and  *)
(* one round of dispatch() reads them in several places around a health    *)
(* check that may renew the session with other parameters.                 *)
(*                                                                         *)
(* One thread at a time connects: the user's until onConnect starts the    *)
(* dispatcher, the dispatcher's from then on; pc is its place.  The order  *)
(* and fate of single messages is ResidueClient's matter: here they are    *)
(* counted.                                                                *)
(***************************************************************************)
EXTENDS SessionClock

CONSTANTS
  Policies,      \* what a server may grant: [age, allow, max]
  Sizes,         \* arguments of setBulkSize
  AutoBulkSize,  \* 40U
  Skew,          \* the client's clock less the server's
  Start,         \* the server's time in the beginning
  RoundTime,     \* seconds from a health check, or a grant in it, to the send
  MaxTime,       \* bound: the server's clock
  MaxLog,        \* bound: messages queued
  MaxSets,       \* bound: calls of setters
  MaxFaults      \* bound: handshakes and touches that fail

ASSUME BulkDispatchAssumption ==
  /\ Policies \subseteq [age : Nat, allow : BOOLEAN, max : Nat]
  /\ Sizes \subseteq Nat
  /\ AutoBulkSize \in Nat /\ Start \in Nat /\ RoundTime \in Nat
  /\ {MaxTime, MaxLog, MaxSets, MaxFaults} \subseteq Nat
  /\ Skew \in Int /\ Start + Skew >= 0

(* A round fits into what the health check leaves of a session, also on a  *)
(* clock that is behind; a server grants more than a round, or for ever;   *)
(* and no age is so large that a clock that is behind wraps into it.       *)
ASSUME RoundTimeAssumption ==
  /\ RoundTime < TOUCH_THRESHOLD /\ RoundTime - Skew < TOUCH_THRESHOLD
  /\ \A p \in Policies : p.age = 0 \/ p.age > RoundTime
  /\ \A p \in Policies : p.age <= Modulus /\ p.age - Skew <= Modulus
  /\ MaxTime < Modulus /\ MaxTime + Skew < Modulus

VARIABLES
  m_connected, m_bulkDispatch, m_bulkSize, m_maxBulkSize, m_autoBulkParams,
  allow,              \* m_serverFlags has ALLOW_BULK_LOG_REQUEST
  m_age, m_dateCreated,
  m_requests,         \* m_requests.size()
  pc,
  round,              \* this round of dispatch(), see NoRound
  setter,             \* a setter between its check and its assignment
  now,                \* the server's clock
  lease,              \* the session as the server has it: [age, created, max, allow]
  \* history
  since,              \* seconds since the last check or grant
  looseSize,          \* m_bulkSize was set, or its limit lowered, and the two
                      \* have not been compared since
  looseSwitch,        \* the same of m_bulkDispatch and the server's flag
  logged, sets, spent

session == <<m_connected, m_age, m_dateCreated, lease, since>>
limits  == <<m_maxBulkSize, allow>>
loose   == <<looseSize, looseSwitch>>
bulk    == <<m_bulkDispatch, m_bulkSize, loose>>
calls   == <<m_autoBulkParams, setter, sets>>
queue   == <<m_requests, logged>>

vars == <<session, limits, bulk, calls, queue, round, pc, now, spent>>

Goto(l) == pc' = l

Local == now + Skew

(* A round: whether one is under way, whether it opened and closed a JSON  *)
(* array, its messages, the largest limit in force meanwhile, whether the  *)
(* switch was moved under it, whether m_bulkSize was loose when it read    *)
(* it, whether the server refused to touch its session.                    *)
NoRound == [on |-> FALSE, open |-> FALSE, close |-> FALSE, n |-> 0, max |-> 0,
            moved |-> FALSE, loose |-> FALSE, refused |-> FALSE]

(* A setter is fresh if it was held against the limits that are in force.  *)
NoSetter == [call |-> "none", size |-> 0, fresh |-> FALSE]

Handshake == {"grant", "params", "auto", "clamp", "connected"}

Init ==
  /\ m_connected = FALSE /\ m_bulkDispatch = FALSE
  /\ m_bulkSize = 1 /\ m_maxBulkSize = 1 /\ allow = FALSE
  /\ m_autoBulkParams = TRUE
  /\ m_age = 0 /\ m_dateCreated = 0 /\ m_requests = 0
  /\ pc = "off" /\ round = NoRound /\ setter = NoSetter
  /\ now = Start /\ lease = [age |-> 0, created |-> 0, max |-> 1, allow |-> FALSE]
  /\ since = 0 /\ looseSize = FALSE /\ looseSwitch = FALSE /\ logged = 0 /\ sets = 0 /\ spent = 0

-----------------------------------------------------------------------------
(* The handshake, from reset() to the end of loadConnectionFromJson_.      *)
Connect ==
  /\ pc = "off" /\ Goto("grant")
  /\ UNCHANGED <<session, limits, bulk, calls, queue, round, now, spent>>

(* The server opens a session and names its terms. *)
Grant ==
  /\ pc = "grant"
  /\ \E p \in Policies :
       lease' = [age |-> p.age, created |-> now, max |-> p.max, allow |-> p.allow]
  /\ since' = 0
  /\ Goto("params")
  /\ UNCHANGED <<m_connected, m_age, m_dateCreated, limits, bulk, calls, queue,
                 round, now, spent>>

(* A reset() that throws: healthCheck swallows it, the user's connect      *)
(* returns with it.  The session is the old one, the limits may be new.    *)
HandshakeFails ==
  /\ pc \in {"grant", "params", "auto"}
  /\ spent < MaxFaults /\ spent' = spent + 1
  /\ Goto(IF round.on THEN "pop" ELSE "off")
  /\ UNCHANGED <<session, limits, bulk, calls, queue, round, now>>

Parameters ==
  /\ pc = "params"
  /\ m_age' = lease.age /\ m_dateCreated' = lease.created
  /\ m_maxBulkSize' = lease.max /\ allow' = lease.allow
  /\ round' = [round EXCEPT !.max = IF lease.max > @ THEN lease.max ELSE @]
  /\ looseSize' = (looseSize \/ lease.max < m_maxBulkSize)
  /\ looseSwitch' = (looseSwitch \/ (allow /\ ~lease.allow))
  /\ setter' = [setter EXCEPT !.fresh = FALSE]
  /\ Goto("auto")
  /\ UNCHANGED <<m_connected, lease, since, m_bulkDispatch, m_bulkSize,
                 m_autoBulkParams, sets, queue, now, spent>>

AutoSize == IF m_maxBulkSize < AutoBulkSize THEN m_maxBulkSize ELSE AutoBulkSize

(* The switch is moved while a round may have read it. *)
Moved(on) == [round EXCEPT !.moved = @ \/ (round.on /\ on # m_bulkDispatch)]

AutoParameters ==
  /\ pc = "auto"
  /\ IF m_autoBulkParams /\ allow
       THEN /\ m_bulkDispatch' = TRUE /\ m_bulkSize' = AutoSize /\ round' = Moved(TRUE)
            /\ looseSize' = FALSE /\ looseSwitch' = FALSE
       ELSE UNCHANGED <<bulk, round>>
  /\ Goto("clamp")
  /\ UNCHANGED <<session, limits, calls, queue, now, spent>>

(* Slip: a size that was accepted before is left as it is. *)
Clamped_Not == m_bulkSize

Clamped ==
  IF allow /\ m_bulkDispatch /\ m_bulkSize > m_maxBulkSize
    THEN m_maxBulkSize ELSE m_bulkSize

(* Slip: bulk dispatch stays on where the server does not take it. *)
Allowed_Always == TRUE

Allowed == allow

(* A size is clamped only where bulk dispatch is on. *)
Clamp ==
  /\ pc = "clamp"
  /\ m_bulkSize' = Clamped
  /\ m_bulkDispatch' = (m_bulkDispatch /\ Allowed)
  /\ round' = Moved(m_bulkDispatch')
  /\ looseSize' = (looseSize /\ ~(allow /\ m_bulkDispatch)) /\ looseSwitch' = FALSE
  /\ Goto("connected")
  /\ UNCHANGED <<session, limits, calls, queue, now, spent>>

(* m_connected is raised; the user's thread starts the dispatcher. *)
Connected ==
  /\ pc = "connected" /\ m_connected' = TRUE
  /\ Goto(IF round.on THEN "pop" ELSE "round")
  /\ UNCHANGED <<m_age, m_dateCreated, lease, since, limits, bulk, calls, queue,
                 round, now, spent>>

-----------------------------------------------------------------------------
(* One round of dispatch().                                                *)
Open ==
  /\ pc = "round" /\ m_requests > 0
  /\ round' = [NoRound EXCEPT !.on = TRUE, !.open = m_bulkDispatch]
  /\ Goto("size")
  /\ UNCHANGED <<session, limits, bulk, calls, queue, now, spent>>

(* Slip: a batch is not cut to the size of the queue. *)
totalRequests_Whole == IF m_bulkDispatch THEN m_bulkSize ELSE 1

(* Slip: the last message is left for the next round. *)
totalRequests_AllButOne ==
  IF m_bulkDispatch /\ m_bulkSize < m_requests THEN m_bulkSize ELSE m_requests - 1

(* Slip: the size is used whether or not bulk dispatch is on. *)
totalRequests_Bulk == IF m_bulkSize < m_requests THEN m_bulkSize ELSE m_requests

totalRequests ==
  LET wanted == IF m_bulkDispatch THEN m_bulkSize ELSE 1
  IN  IF wanted < m_requests THEN wanted ELSE m_requests

Size ==
  /\ pc = "size"
  /\ round' = [round EXCEPT !.n = totalRequests, !.max = m_maxBulkSize,
                            !.loose = looseSize]
  /\ Goto("health")
  /\ UNCHANGED <<session, limits, bulk, calls, queue, now, spent>>

(* The server's own test of a session. *)
Live == lease.age = 0 \/ now - lease.created < lease.age

(* healthCheck(): renew a session that has ended, touch one that will      *)
(* soon, and go on; a touch that fails changes nothing here.               *)
Renew ==
  /\ pc = "health" /\ ~isClientValid(m_age, m_dateCreated, Local)
  /\ m_connected' = FALSE /\ Goto("grant")
  /\ UNCHANGED <<m_age, m_dateCreated, lease, since, limits, bulk, calls, queue,
                 round, now, spent>>

Touches ==
  /\ pc = "health" /\ isClientValid(m_age, m_dateCreated, Local)
  /\ shouldTouch(m_age, m_dateCreated, Local)

Touch ==
  /\ Touches
  /\ lease' = [lease EXCEPT !.created = now]
  /\ m_age' = lease.age /\ m_dateCreated' = now
  /\ since' = 0 /\ Goto("pop")
  /\ UNCHANGED <<m_connected, limits, bulk, calls, queue, round, now, spent>>

(* The server no longer knows the session, by a clock ahead of ours. *)
TouchRefused ==
  /\ Touches /\ ~Live
  /\ round' = [round EXCEPT !.refused = TRUE]
  /\ Goto("pop")
  /\ UNCHANGED <<session, limits, bulk, calls, queue, now, spent>>

(* The request or its answer is lost. *)
TouchFails ==
  /\ Touches
  /\ spent < MaxFaults /\ spent' = spent + 1
  /\ lease' \in {lease, [lease EXCEPT !.created = now]}
  /\ Goto("pop")
  /\ UNCHANGED <<m_connected, m_age, m_dateCreated, since, limits, bulk, calls,
                 queue, round, now>>

Healthy ==
  /\ pc = "health" /\ isClientValid(m_age, m_dateCreated, Local)
  /\ ~shouldTouch(m_age, m_dateCreated, Local)
  /\ since' = 0 /\ Goto("pop")
  /\ UNCHANGED <<m_connected, m_age, m_dateCreated, lease, limits, bulk, calls,
                 queue, round, now, spent>>

(* The pops, and the closing of the array. *)
Pop ==
  /\ pc = "pop"
  /\ m_requests' = m_requests - round.n
  /\ round' = [round EXCEPT !.close = m_bulkDispatch]
  /\ Goto("send")
  /\ UNCHANGED <<session, limits, bulk, calls, logged, now, spent>>

Send ==
  /\ pc = "send"
  /\ round' = NoRound
  /\ Goto("round")
  /\ UNCHANGED <<session, limits, bulk, calls, queue, now, spent>>

(* The dispatcher's thread ends when the session is gone and nothing left. *)
Stop ==
  /\ pc = "round" /\ m_requests = 0 /\ ~m_connected
  /\ Goto("stopped")
  /\ UNCHANGED <<session, limits, bulk, calls, queue, round, now, spent>>

-----------------------------------------------------------------------------
(* The application's threads.  A setter that may refuse reads m_connected  *)
(* and the limit first and assigns afterwards.                             *)
Calls ==
  /\ setter = NoSetter /\ sets < MaxSets /\ sets' = sets + 1

Refused(size) == m_connected /\ size > m_maxBulkSize

SetBulkSize ==
  \E size \in Sizes :
    /\ Calls /\ ~Refused(size)
    /\ setter' = [call |-> "setBulkSize", size |-> size, fresh |-> m_connected]
    /\ UNCHANGED <<session, limits, bulk, m_autoBulkParams, queue, round, pc,
                   now, spent>>

EnableBulkDispatch ==
  /\ Calls /\ (m_connected => allow)
  /\ setter' = [call |-> "enableBulkDispatch", size |-> 0, fresh |-> m_connected]
  /\ UNCHANGED <<session, limits, bulk, m_autoBulkParams, queue, round, pc,
                 now, spent>>

Assign ==
  /\ setter # NoSetter /\ setter' = NoSetter
  /\ IF setter.call = "setBulkSize"
       THEN /\ m_bulkSize' = setter.size /\ looseSize' = ~setter.fresh
            /\ UNCHANGED <<m_bulkDispatch, looseSwitch, round>>
       ELSE /\ m_bulkDispatch' = TRUE /\ looseSwitch' = ~setter.fresh
            /\ round' = Moved(TRUE) /\ UNCHANGED <<m_bulkSize, looseSize>>
  /\ UNCHANGED <<session, limits, m_autoBulkParams, sets, queue, pc, now,
                 spent>>

DisableBulkDispatch ==
  /\ Calls
  /\ m_bulkDispatch' = FALSE /\ round' = Moved(FALSE)
  /\ UNCHANGED <<session, limits, m_bulkSize, loose, m_autoBulkParams, setter,
                 queue, pc, now, spent>>

SetAutoBulkParams ==
  /\ Calls /\ m_autoBulkParams' = ~m_autoBulkParams
  /\ UNCHANGED <<session, limits, bulk, setter, queue, round, pc, now, spent>>

(* addToQueue; reset() holds m_mutex from before the grant to its end.     *)
Log ==
  /\ pc \notin Handshake \cup {"off", "stopped"} /\ logged < MaxLog
  /\ logged' = logged + 1 /\ m_requests' = m_requests + 1
  /\ UNCHANGED <<session, limits, bulk, calls, round, pc, now, spent>>

(* A second passes.  What follows a check or a grant takes RoundTime at    *)
(* most.                                                                   *)
Tick ==
  /\ now < MaxTime /\ now' = now + 1
  /\ IF pc \in {"params", "auto", "clamp", "connected", "pop", "send"}
       THEN since < RoundTime /\ since' = since + 1
       ELSE UNCHANGED since
  /\ UNCHANGED <<m_connected, m_age, m_dateCreated, lease, limits, bulk, calls,
                 queue, round, pc, spent>>

Thread == \/ Grant \/ Parameters \/ AutoParameters \/ Clamp \/ Connected
          \/ Open \/ Size \/ Renew \/ Touch \/ TouchRefused
          \/ Healthy \/ Pop \/ Send \/ Stop

Next == \/ Connect \/ Thread \/ HandshakeFails \/ TouchFails
        \/ SetBulkSize \/ EnableBulkDispatch \/ Assign \/ DisableBulkDispatch
        \/ SetAutoBulkParams \/ Log \/ Tick

(* Blocking calls return and the dispatcher's thread runs on. *)
Spec == Init /\ [][Next]_vars /\ WF_vars(Thread)

-----------------------------------------------------------------------------
RoundType == [on : BOOLEAN, open : BOOLEAN, close : BOOLEAN, n : Nat, max : Nat,
              moved : BOOLEAN, loose : BOOLEAN, refused : BOOLEAN]

(* Types, and a round never means to take more than there is: m_requests   *)
(* is an unsigned size.                                                    *)
TypeOK ==
  /\ m_connected \in BOOLEAN /\ m_bulkDispatch \in BOOLEAN
  /\ m_autoBulkParams \in BOOLEAN /\ allow \in BOOLEAN
  /\ looseSize \in BOOLEAN /\ looseSwitch \in BOOLEAN
  /\ m_bulkSize \in Nat /\ m_maxBulkSize \in Nat
  /\ m_age \in Nat /\ m_dateCreated \in Nat
  /\ m_requests \in Nat /\ logged \in Nat /\ sets \in Nat /\ spent \in Nat
  /\ now \in Nat /\ since \in Nat
  /\ pc \in Handshake \cup {"off", "round", "size", "health", "pop", "send", "stopped"}
  /\ round \in RoundType
  /\ setter \in [call : {"none", "setBulkSize", "enableBulkDispatch"}, size : Nat,
                 fresh : BOOLEAN]
  /\ lease \in [age : Nat, created : Nat, max : Nat, allow : BOOLEAN]

(* Several messages go out only as an array that is opened and closed, and *)
(* one alone is never half of one (dispatch(), lines 395, 398 and 431 read *)
(* m_bulkDispatch separately): only moving the switch within the round can *)
(* spoil a batch.                                                          *)
WellFormed ==
  pc = "send" /\ ~round.moved =>
    round.open = round.close /\ (round.n > 1 => round.open)

(* A batch is within the server's limit, the old or the new one if it was  *)
(* renegotiated under way, whenever the program sets a size and turns bulk *)
(* dispatch on (setBulkSize, enableBulkDispatch, loadConnectionFromJson_). *)
(* Not so where the size was never compared with the limit: assigned by a  *)
(* setter that found no connection or was overtaken by a handshake, or     *)
(* above a lowered limit, with bulk dispatch off at each handshake since.  *)
WithinLimit ==
  pc = "send" /\ ~round.loose /\ round.n > 1 => round.n <= round.max

(* Bulk dispatch is on only in a session that takes bulk requests          *)
(* (enableBulkDispatch, loadConnectionFromJson_), unless a setter turned   *)
(* it on that found no connection or was overtaken by a handshake.         *)
BulkOnlyWhereAllowed == m_bulkDispatch /\ ~looseSwitch => allow

(* As long as handshakes and touches succeed no batch goes out over a      *)
(* session the server has ended: what healthCheck leaves of a session      *)
(* covers the round, by clocks that differ and in words that wrap.  This   *)
(* is what ResidueClient takes for granted of a session found valid.       *)
NeverSentExpired == pc = "send" /\ spent = 0 /\ ~round.refused => Live

(* What these need to be inductive.  A round is cut to the queue, so the   *)
(* queue never goes below nothing:                                         *)
Cut ==
  /\ pc \in {"off", "round", "stopped"} => ~round.on
  /\ pc \in {"size", "health", "pop", "send"} => round.on
  /\ round.on /\ pc \notin {"size", "send"} => round.n <= m_requests

(* The switch and what a round has read of it, wherever the round stands:  *)
RoundKept ==
  /\ round.on /\ ~round.moved =>
       /\ round.open = m_bulkDispatch
       /\ pc # "size" /\ round.n > 1 => round.open
  /\ pc = "send" /\ ~round.moved => round.open = round.close

(* What is not loose is within the limits, and so is what a fresh setter   *)
(* is about to assign.                                                     *)
LimitsKept ==
  /\ ~looseSize => m_bulkSize <= m_maxBulkSize
  /\ m_bulkDispatch /\ ~looseSwitch => allow
  /\ setter.fresh => IF setter.call = "setBulkSize" THEN setter.size <= m_maxBulkSize
                                                    ELSE allow
  /\ round.on /\ pc # "size" /\ ~round.loose /\ round.n > 1 => round.n <= round.max

(* The client knows the server's session, and what is left of it covers    *)
(* what is left of the round.                                              *)
SessionKept ==
  /\ lease.created <= now /\ since <= RoundTime
  /\ \/ lease.age = 0
     \/ \E p \in Policies : p.age = lease.age
  /\ spent = 0 /\ pc # "params" =>
       lease.age = m_age /\ lease.created = m_dateCreated
  /\ /\ pc \in {"params", "auto", "clamp", "connected", "pop", "send"}
     /\ spent = 0 /\ ~round.refused
     => \/ lease.age = 0
        \/ lease.age - (now - lease.created) > RoundTime - since

(* The dispatcher gets the queue out, or every round is one of no messages *)
(* at all, which setBulkSize(0) or a limit of 0 brings about.              *)
QueueDrains ==
  m_requests > 0 ~> (m_requests = 0 \/ (m_bulkDispatch /\ m_bulkSize = 0))
=============================================================================
