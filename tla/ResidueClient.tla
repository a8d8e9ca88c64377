--------------------------- MODULE ResidueClient ---------------------------
(***************************************************************************)
(* The Residue singleton (residue.cc) with every thread that runs through  *)
(* it: application threads that log, one application thread ("user") that  *)
(* calls connect, reconnect, disconnect, loadConnection and wait, and the  *)
(* dispatcher thread ("disp") that drains m_requests to the server.        *)
(*                                                                         *)
(* One action is one stretch of code between two points where another      *)
(* thread can be noticed: a lock, a blocking call, or an access to an      *)
(* atomic or unprotected shared variable.  Undefined behaviour and         *)
(* std::terminate end the process: `aborted' then names the cause.         *)
(***************************************************************************)
EXTENDS NetworkSend, Sequences, FiniteSets

CONSTANTS
  Apps,          \* application threads that log
  Local,         \* LOCALHOST:DEFAULT_PORT
  UserHost,      \* the server the user connects to
  Reachable,     \* the hosts at which a server listens
  Calls,         \* the API calls the user makes
  Disciplined,   \* whether the program uses the API as the samples do: see Call
  ServerFaults,  \* how the server may turn a handshake down
  BulkSize,      \* m_bulkDispatch ? m_bulkSize : 1
  MaxLog,        \* bound: messages queued
  MaxCalls,      \* bound: API calls
  MaxFaults,     \* bound: faults of the network and the server
  MaxAging       \* bound: steps of the server's session towards its expiry

ASSUME ResidueClientAssumption ==
  /\ Apps \cap {"user", "disp", "none"} = {}
  /\ "none" \notin {Local, UserHost}
  /\ Reachable \subseteq {Local, UserHost}
  /\ Calls \subseteq {"connect", "reconnect", "disconnect", "load", "wait"}
  /\ Disciplined \in BOOLEAN
  /\ ServerFaults \subseteq {"reject", "unreadable", "empty"}
  /\ {BulkSize, MaxLog, MaxCalls, MaxFaults, MaxAging} \subseteq Nat

Hosts     == {Local, UserHost}
Connectors == {"user", "disp"}
Threads   == Apps \cup Connectors

VARIABLES
  m_connected, m_connecting, m_disconnected, m_running,
  m_host,            \* m_host and m_port
  connClient,        \* s_connectionClient
  logClient,         \* s_loggingClient
  m_key,             \* "none", "pending" before the ACK, "live" after
  health,            \* what m_age and m_dateCreated say: valid, touch, expired
  m_requests,        \* the deque, its back() first
  m_mutex,           \* holder or "none"
  m_dispatcher,      \* "null", "joinable" or "joined"
  callbacks,         \* ELPP's log dispatch callbacks
  residueSet,        \* whether the ResidueDispatcher knows its Residue
  elppLock,          \* ELPP's global lock: holder or "none"
  pc, frame,         \* per thread: place, and who called connect_ or reset
  retried,           \* the sends of the handshake that have used their retry
  batch, total,      \* dispatch(): requests in hand, totalRequests
  call, result,      \* the user's API call and how the last one ended
  \* history
  logging,           \* the user has seen connected() and not disconnected since
  enq,               \* messages queued so far; they are numbered 1..enq
  delivered,         \* what servers accepted: <<host, message>> in order
  lost,              \* messages taken from the queue and not accepted
  spent, aging, calls,
  aborted            \* "no", or why the process died

flags   == <<m_connected, m_connecting, m_disconnected, m_running>>
session == <<connClient, logClient, m_key, health>>
elpp    == <<callbacks, residueSet, elppLock>>
control == <<frame, retried, m_mutex>>
user    == <<call, result, logging, calls>>
sending == <<batch, total>>
history == <<delivered, lost>>
queue   == <<m_requests, enq>>

othersThanPc == <<flags, m_host, session, queue, m_dispatcher, elpp, control,
                  sending, user, history, spent, aging, aborted>>

vars == <<flags, m_host, session, queue, m_dispatcher, elpp, pc, control,
          sending, user, history, spent, aging, aborted>>

Client(h, up) == [host |-> h, up |-> up]
NoClient == Client("none", FALSE)

Alive == aborted = "no"

(* A step of the connect path leaves the rest of the program alone. *)
Goto(t, l) == pc' = [pc EXCEPT ![t] = l]
At(t, l)   == Alive /\ pc[t] = l

Pay(cost) == spent + cost <= MaxFaults /\ spent' = spent + cost

(* A connect() to host h; an unreachable host refuses at no cost. *)
Connecting(h, outcome) ==
  IF h \in Reachable
    THEN outcome \in ConnectOutcomes /\ Pay(IF outcome = "ok" THEN 0 ELSE 1)
    ELSE outcome = "refuse" /\ UNCHANGED spent

-----------------------------------------------------------------------------
(* Threads inside a method of the shared NetworkClient objects: replacing  *)
(* the object under them destroys what they use.                           *)
UsesConn(t) == pc[t] \in {"c_net", "r_connect", "r_reply", "r_ack", "r_load",
                          "r_lognet", "o_uninstall", "o_install", "o_set",
                          "o_run", "r_again", "r_ackagain", "t_send", "t_lock"}
UsesLog(t)  == pc[t] \in {"r_lognet", "d_send"}

Other(t) == IF t = "user" THEN "disp" ELSE "user"

(* connect_ *)
Target(t) ==
  IF t = "disp" THEN Local ELSE IF call = "connect" THEN UserHost ELSE m_host

(* connect_ up to s_connectionClient->connect().  The comment at line 113  *)
(* says that only the user gets here; dispatch() does too.                 *)
ConnectBegin(t) ==
  /\ At(t, "c_begin")
  /\ \/ /\ m_connected
        /\ Goto(t, IF frame[t] = "load" THEN "r_load"
                   ELSE IF t = "disp" THEN "d_total" ELSE "u_end")
        /\ UNCHANGED <<flags, m_host, session, aborted>>
     \/ /\ ~m_connected
        /\ m_disconnected' = FALSE
        /\ m_host' = Target(t)
        /\ connClient' = Client(m_host', FALSE)
        /\ Goto(t, "c_net")
        /\ aborted' \in {"no"} \cup
             (IF UsesConn(Other(t)) THEN {"client_race"} ELSE {})
        /\ UNCHANGED <<m_connected, m_connecting, m_running, logClient, m_key, health>>
  /\ UNCHANGED <<queue, m_dispatcher, elpp, control, sending, user, history,
                 spent, aging>>

(* An exception leaves connect_, reset or loadConnectionFromJson_ for its  *)
(* caller: "residue" a ResidueException, "system" a std::system_error.     *)
(* healthCheck swallows both; dispatch() only the first, and sleeps; what  *)
(* it does not catch leaves the thread's function.                         *)
Throw(t, exception) ==
  CASE frame[t] = "health" /\ t = "disp" ->
         Goto(t, "d_pop") /\ UNCHANGED <<frame, result, aborted>>
    [] frame[t] = "health" /\ t = "user" ->
         /\ Goto(t, "o_uninstall") /\ frame' = [frame EXCEPT ![t] = "load"]
         /\ UNCHANGED <<result, aborted>>
    [] t = "user" /\ frame[t] # "health" ->
         Goto(t, "u_end") /\ result' = exception /\ UNCHANGED <<frame, aborted>>
    [] t = "disp" /\ frame[t] # "health" /\ exception = "residue" ->
         Goto(t, "d_while") /\ UNCHANGED <<frame, result, aborted>>
    [] t = "disp" /\ frame[t] # "health" /\ exception = "system" ->
         aborted' = "uncaught_dispatch" /\ UNCHANGED <<pc, frame, result>>

(* The same out of reset(), whose lock_guard releases m_mutex. *)
ThrowUnlock(t, exception) == m_mutex' = "none" /\ Throw(t, exception)

ConnectNet(t) ==
  /\ At(t, "c_net")
  /\ \E o \in {"ok", "refuse", "resolve"} :
       /\ Connecting(connClient.host, o)
       /\ connClient' = [connClient EXCEPT !.up = (o = "ok")]
       /\ IF o = "ok"
            THEN /\ Goto(t, IF frame[t] = "load" THEN "r_load" ELSE "r_flags")
                 /\ UNCHANGED <<frame, result, aborted>>
            ELSE Throw(t, IF o = "refuse" THEN "residue" ELSE "system")
  /\ UNCHANGED <<flags, m_host, logClient, m_key, health, queue, m_dispatcher,
                 elpp, retried, m_mutex, sending, call, logging, calls, history,
                 aging>>

-----------------------------------------------------------------------------
Reconnecting ==
  m_connecting' = TRUE /\ m_connected' = FALSE /\ UNCHANGED m_disconnected

(* reset *)
ResetFlags(t) ==
  /\ At(t, "r_flags")
  /\ Reconnecting
  /\ Goto(t, "r_lock")
  /\ UNCHANGED <<m_running, m_host, session, queue, m_dispatcher,
                 elpp, control, sending, user, history, spent, aging, aborted>>

(* Slip: reset() without the lock_guard. *)
MayReset_Always == TRUE

(* reset()'s lock_guard gets m_mutex. *)
MayReset == m_mutex = "none"

ResetLock(t) ==
  /\ At(t, "r_lock") /\ MayReset
  /\ m_mutex' = t
  /\ retried' = [retried EXCEPT ![t] = {}]
  /\ Goto(t, "r_connect")
  /\ UNCHANGED <<flags, m_host, session, queue, m_dispatcher, elpp, frame, sending,
                 user, history, spent, aging, aborted>>

(* What a handshake step never touches. *)
HandshakeFrame ==
  UNCHANGED <<m_disconnected, m_host, queue, sending, call, logging, calls,
              history, aging>>

(* Every response handler begins with m_connecting = false. *)
HandlerCalled == m_connecting' = FALSE

(* The CONNECT handler has thrown: read() calls it again with the error,   *)
(* it throws again, and send() retries a timeout once.                     *)
ConnectHandlerFails(t, text, used, up) ==
  /\ HandlerCalled
  /\ IF text = "timeout" /\ "connect" \notin used
       THEN /\ connClient' = [connClient EXCEPT !.up = FALSE]
            /\ retried' = [retried EXCEPT ![t] = {"connect"}]
            /\ Goto(t, "r_again")
            /\ UNCHANGED <<frame, result, aborted, m_mutex>>
       ELSE /\ retried' = [retried EXCEPT ![t] = used]
            /\ connClient' = [connClient EXCEPT !.up = up]
            /\ ThrowUnlock(t, "residue")

(* The ACK handler has thrown; its send() has a retry of its own, after    *)
(* which the exception reaches the CONNECT handler it is nested in.        *)
AckHandlerFails(t, text, used) ==
  IF text = "timeout" /\ "ack" \notin used
    THEN /\ HandlerCalled
         /\ connClient' = [connClient EXCEPT !.up = FALSE]
         /\ retried' = [retried EXCEPT ![t] = used \cup {"ack"}]
         /\ Goto(t, "r_ackagain")
         /\ UNCHANGED <<frame, result, aborted, m_mutex>>
    ELSE ConnectHandlerFails(t, text, used, connClient.up)

Used(t, which, o) == retried[t] \cup (IF Retried(o) THEN {which} ELSE {})

(* Send CONNECT.  A silent return or eof runs no handler, and an exception *)
(* of the write none either: m_connecting then stays as it is.             *)
ResetConnect(t) ==
  /\ At(t, "r_connect")
  /\ \E o \in SendOutcomes(connClient.up, "connect" \notin retried[t]) :
       /\ Pay(o.cost)
       /\ CASE o.how = "reply" ->
                 /\ HandlerCalled
                 /\ connClient' = [connClient EXCEPT !.up = o.up]
                 /\ retried' = [retried EXCEPT ![t] = Used(t, "connect", o)]
                 /\ Goto(t, "r_reply")
                 /\ UNCHANGED <<frame, m_mutex, result, aborted>>
            [] o.how \in {"silent", "eof"} ->
                 /\ connClient' = [connClient EXCEPT !.up = o.up]
                 /\ Goto(t, "r_unlock")
                 /\ UNCHANGED <<m_connecting, retried, frame, m_mutex, result, aborted>>
            [] o.how \in {"readerr", "readtimeout"} ->
                 ConnectHandlerFails(t, IF o.how = "readtimeout" THEN "timeout"
                                        ELSE "other", Used(t, "connect", o), o.up)
            [] o.how \in {"throw", "timeout", "system"} ->
                 /\ connClient' = [connClient EXCEPT !.up = o.up]
                 /\ ThrowUnlock(t, IF o.how = "system" THEN "system" ELSE "residue")
                 /\ UNCHANGED <<m_connecting, retried>>
  /\ UNCHANGED <<m_connected, m_running, logClient, m_key, health, m_dispatcher, elpp>>
  /\ HandshakeFrame

(* send()'s reconnect for the retry of CONNECT. *)
ResetConnectAgain(t) ==
  /\ At(t, "r_again")
  /\ \E o \in {"ok", "refuse", "resolve"} :
       /\ Connecting(connClient.host, o)
       /\ connClient' = [connClient EXCEPT !.up = (o = "ok")]
       /\ IF o = "ok"
            THEN Goto(t, "r_connect") /\ UNCHANGED <<frame, m_mutex, result, aborted>>
            ELSE ThrowUnlock(t, IF o = "refuse" THEN "residue" ELSE "system")
  /\ UNCHANGED <<flags, logClient, m_key, health, m_dispatcher, elpp, retried>>
  /\ HandshakeFrame

(* The CONNECT handler on a reply: an accepted one brings key and client   *)
(* id; an empty decryption is let through for an unknown client.           *)
ResetReply(t) ==
  /\ At(t, "r_reply")
  /\ \/ /\ m_key' = "pending" /\ m_connecting' = TRUE
        /\ Goto(t, "r_ack")
        /\ aborted' \in {"no"} \cup
             (IF pc[Other(t)] \in {"d_send", "t_send"} THEN {"session_race"} ELSE {})
        /\ UNCHANGED <<connClient, retried, frame, m_mutex, result, spent>>
     \/ /\ \E r \in ServerFaults \ {"empty"} : Pay(1)
        /\ ConnectHandlerFails(t, "other", retried[t], connClient.up)
        /\ UNCHANGED m_key
     \/ /\ "empty" \in ServerFaults /\ Pay(1)
        /\ Goto(t, "r_unlock")
        /\ UNCHANGED <<m_key, m_connecting, connClient, retried, frame, m_mutex,
                       result, aborted>>
  /\ UNCHANGED <<m_connected, m_running, logClient, health, m_dispatcher, elpp>>
  /\ HandshakeFrame

(* Send ACKNOWLEDGE on the same client, inside the CONNECT handler.  An    *)
(* error reply of the server is thrown and caught again on the spot.       *)
ResetAck(t) ==
  /\ At(t, "r_ack")
  /\ \E o \in SendOutcomes(connClient.up, "ack" \notin retried[t]) :
       /\ CASE o.how = "reply" ->
                 /\ HandlerCalled
                 /\ \/ Pay(o.cost) /\ Goto(t, "r_load")
                       /\ connClient' = [connClient EXCEPT !.up = o.up]
                       /\ retried' = [retried EXCEPT ![t] = Used(t, "ack", o)]
                       /\ UNCHANGED <<frame, m_mutex, result, aborted>>
                    \/ "reject" \in ServerFaults /\ Pay(o.cost + 1) /\ Goto(t, "r_unlock")
                       /\ connClient' = [connClient EXCEPT !.up = o.up]
                       /\ UNCHANGED <<retried, frame, m_mutex, result, aborted>>
                    \/ "unreadable" \in ServerFaults /\ Pay(o.cost + 1)
                       /\ AckHandlerFails(t, "other", Used(t, "ack", o))
            [] o.how \in {"silent", "eof"} ->
                 /\ Pay(o.cost) /\ Goto(t, "r_unlock")
                 /\ connClient' = [connClient EXCEPT !.up = o.up]
                 /\ UNCHANGED <<m_connecting, retried, frame, m_mutex, result, aborted>>
            [] o.how \in {"readerr", "readtimeout"} ->
                 Pay(o.cost) /\ AckHandlerFails(t, IF o.how = "readtimeout" THEN "timeout"
                                                   ELSE "other", Used(t, "ack", o))
            [] o.how \in {"throw", "timeout", "system"} ->
                 Pay(o.cost) /\ ConnectHandlerFails(t, IF o.how = "timeout" THEN "timeout"
                                                       ELSE "other", retried[t], o.up)
  /\ UNCHANGED <<m_connected, m_running, logClient, m_key, health, m_dispatcher, elpp>>
  /\ HandshakeFrame

ResetAckAgain(t) ==
  /\ At(t, "r_ackagain")
  /\ \E o \in {"ok", "refuse", "resolve"} :
       /\ Connecting(connClient.host, o)
       /\ IF o = "ok"
            THEN /\ connClient' = [connClient EXCEPT !.up = TRUE]
                 /\ Goto(t, "r_ack")
                 /\ UNCHANGED <<m_connecting, retried, frame, m_mutex, result, aborted>>
            ELSE \E text \in IF o = "refuse" THEN {"timeout", "other"} ELSE {"other"} :
                   ConnectHandlerFails(t, text, retried[t], FALSE)
  /\ UNCHANGED <<m_connected, m_running, logClient, m_key, health, m_dispatcher, elpp>>
  /\ HandshakeFrame

-----------------------------------------------------------------------------
(* loadConnectionFromJson_: from the ACK reply, or from a saved connection *)
(* whose session may have aged by now.                                     *)
Ages(t) ==
  IF frame[t] = "load" /\ MaxAging > 0 THEN {"valid", "touch", "expired"} ELSE {"valid"}

Load(t) ==
  /\ At(t, "r_load")
  /\ m_key' = "live"
  /\ health' \in Ages(t)
  /\ logClient' = Client(m_host, FALSE)
  /\ Goto(t, "r_lognet")
  /\ aborted' \in {"no"} \cup
       (IF UsesLog(Other(t)) THEN {"client_race"} ELSE {})
  /\ UNCHANGED <<flags, m_host, connClient, queue, m_dispatcher, elpp, control,
                 sending, user, history, spent, aging>>

(* A saved connection that does not parse changes nothing; one that lacks  *)
(* an entry has given its key, and perhaps its age, before that is noticed.*)
LoadUnreadable(t) ==
  /\ At(t, "r_load") /\ frame[t] = "load"
  /\ "unreadable" \in ServerFaults /\ Pay(1)
  /\ \/ UNCHANGED <<m_key, health>>
     \/ m_key' = "live" /\ health' \in {health} \cup Ages(t)
  /\ Throw(t, "residue")
  /\ UNCHANGED <<flags, m_host, connClient, logClient, queue, m_dispatcher, elpp,
                 retried, m_mutex, sending, call, logging, calls, history, aging>>

Loaded == m_connected' = TRUE

LoadConnect(t) ==
  /\ At(t, "r_lognet")
  /\ \E o \in {"ok", "refuse", "resolve"} :
       /\ Connecting(logClient.host, o)
       /\ logClient' = [logClient EXCEPT !.up = (o = "ok")]
       /\ IF o = "ok"
            THEN /\ Loaded
                 /\ Goto(t, IF frame[t] = "load" THEN "h_check" ELSE "o_uninstall")
                 /\ UNCHANGED <<m_connecting, connClient, retried, frame, m_mutex,
                                result, aborted>>
            ELSE /\ UNCHANGED m_connected
                 /\ IF frame[t] = "load"
                      THEN /\ Throw(t, "residue")
                           /\ UNCHANGED <<m_connecting, connClient, retried, m_mutex>>
                      ELSE \E text \in IF o = "refuse" THEN {"timeout", "other"}
                                       ELSE {"other"} :
                             AckHandlerFails(t, text, retried[t])
  /\ UNCHANGED <<m_running, m_key, health, m_dispatcher, elpp>>
  /\ HandshakeFrame

(* Changing the callbacks while another thread iterates over them under    *)
(* ELPP's lock, which the installers do not take.                          *)
Iterating == elppLock # "none"

ChangeCallbacks(new) ==
  /\ callbacks' = new
  /\ aborted' \in {"no"} \cup
       (IF new # callbacks /\ Iterating THEN {"callback_race"} ELSE {})

OnConnectFrame ==
  UNCHANGED <<m_connected, m_connecting, m_disconnected, m_host, session, queue,
              elppLock, sending, user, history, spent, aging, control>>

UninstallDefault(t) ==
  /\ At(t, "o_uninstall")
  /\ ChangeCallbacks(callbacks \ {"Default"})
  /\ Goto(t, "o_install")
  /\ UNCHANGED <<m_running, m_dispatcher, residueSet>>
  /\ OnConnectFrame

InstallResidue(t) ==
  /\ At(t, "o_install")
  /\ ChangeCallbacks(callbacks \cup {"Residue"})
  /\ residueSet' = (residueSet /\ "Residue" \in callbacks)
  /\ Goto(t, "o_set")
  /\ UNCHANGED <<m_running, m_dispatcher>>
  /\ OnConnectFrame

(* Slip: onConnect without setResidue. *)
setResidue_Forgotten == UNCHANGED residueSet

setResidue == residueSet' = TRUE

(* setResidue on what the lookup returns: null once it was uninstalled.    *)
SetResidue(t) ==
  /\ At(t, "o_set")
  /\ IF "Residue" \in callbacks
       THEN setResidue /\ Goto(t, "o_run") /\ UNCHANGED aborted
       ELSE aborted' = "null_callback" /\ UNCHANGED <<residueSet, pc>>
  /\ UNCHANGED <<callbacks, m_running, m_dispatcher>>
  /\ OnConnectFrame

(* "We use m_running as reference point". *)
HasDispatcher == m_running

(* Start a dispatcher unless m_running says there is one.  Deleting a      *)
(* std::thread that was never joined terminates the process.               *)
RunDispatcher(t) ==
  /\ At(t, "o_run")
  /\ LET next == IF frame[t] = "load" THEN "u_end" ELSE "r_unlock" IN
     CASE HasDispatcher ->
            Goto(t, next) /\ UNCHANGED <<m_running, m_dispatcher, aborted>>
       [] ~HasDispatcher /\ m_dispatcher = "joinable" ->
            /\ aborted' = "delete_joinable" /\ m_running' = TRUE
            /\ UNCHANGED <<pc, m_dispatcher>>
       [] ~HasDispatcher /\ m_dispatcher # "joinable" ->
            /\ m_running' = TRUE /\ m_dispatcher' = "joinable"
            /\ pc' = [pc EXCEPT ![t] = next, !["disp"] = "d_run"]
            /\ UNCHANGED aborted
  /\ UNCHANGED <<callbacks, residueSet>>
  /\ OnConnectFrame

(* End of reset(): back to connect_, or to healthCheck's caller.           *)
ResetUnlock(t) ==
  /\ At(t, "r_unlock")
  /\ m_mutex' = "none"
  /\ IF frame[t] = "health" /\ t = "user"
       THEN Goto(t, "o_uninstall") /\ frame' = [frame EXCEPT ![t] = "load"]
       ELSE /\ Goto(t, IF t = "user" THEN "u_end"
                       ELSE IF frame[t] = "health" THEN "d_pop" ELSE "d_total")
            /\ UNCHANGED frame
  /\ UNCHANGED <<flags, m_host, session, queue, m_dispatcher, elpp, retried,
                 sending, user, history, spent, aging, aborted>>

-----------------------------------------------------------------------------
(* healthCheck and touch *)
(* Slip: the age of the session is not looked at. *)
isClientValid_Always == TRUE

isClientValid == health # "expired"
shouldTouch   == health = "touch"

AfterHealth(t) == IF t = "disp" THEN "d_pop" ELSE "o_uninstall"

HealthCheck(t) ==
  /\ At(t, "h_check")
  /\ CASE ~isClientValid ->
            /\ frame' = [frame EXCEPT ![t] = "health"] /\ Goto(t, "r_flags")
            /\ UNCHANGED m_connecting
       [] isClientValid /\ shouldTouch ->
            m_connecting' = TRUE /\ Goto(t, "t_send") /\ UNCHANGED frame
       [] isClientValid /\ ~shouldTouch ->
            Goto(t, AfterHealth(t)) /\ UNCHANGED <<m_connecting, frame>>
  /\ UNCHANGED <<m_connected, m_disconnected, m_running, m_host, session, queue,
                 m_dispatcher, elpp, retried, m_mutex, sending, user, history,
                 spent, aging, aborted>>

(* touch() is noexcept: what its send throws terminates the process.  Its  *)
(* handler throws nothing, and ignores what it cannot read.                *)
Touch(t) ==
  /\ At(t, "t_send")
  /\ \E o \in SendOutcomes(connClient.up, TRUE) :
       /\ connClient' = [connClient EXCEPT !.up = o.up]
       /\ CASE o.how = "reply" ->
                 /\ HandlerCalled
                 /\ UNCHANGED aborted
                 /\ \/ Pay(o.cost) /\ Goto(t, "t_lock")
                    \/ ServerFaults # {} /\ Pay(o.cost + 1) /\ Goto(t, AfterHealth(t))
            [] o.how \in {"silent", "eof"} ->
                 Pay(o.cost) /\ Goto(t, AfterHealth(t)) /\ UNCHANGED <<m_connecting, aborted>>
            [] o.how \in {"readerr", "readtimeout"} ->
                 /\ Pay(o.cost) /\ HandlerCalled
                 /\ Goto(t, AfterHealth(t)) /\ UNCHANGED aborted
            [] o.how \in {"throw", "timeout", "system"} ->
                 Pay(o.cost) /\ aborted' = "touch_terminate" /\ UNCHANGED <<m_connecting, pc>>
  /\ UNCHANGED <<m_connected, m_disconnected, m_running, m_host, logClient, m_key,
                 health, queue, m_dispatcher, elpp, control, sending, user,
                 history, aging>>

TouchReply(t) ==
  /\ At(t, "t_lock") /\ m_mutex = "none"
  /\ health' = "valid"
  /\ Goto(t, AfterHealth(t))
  /\ UNCHANGED <<flags, m_host, connClient, logClient, m_key, queue, m_dispatcher,
                 elpp, control, sending, user, history, spent, aging, aborted>>

-----------------------------------------------------------------------------
(* The dispatcher thread: its function in onConnect, and dispatch().       *)
DispatchFrame == UNCHANGED <<m_disconnected, m_host, m_dispatcher, retried, user, aging>>

DispatcherRun ==
  /\ At("disp", "d_run")
  /\ Goto("disp", IF m_running THEN "d_while" ELSE "done")
  /\ UNCHANGED othersThanPc

DispatchWhile ==
  /\ At("disp", "d_while")
  /\ Goto("disp", IF m_requests = <<>> THEN "d_check" ELSE "d_wait")
  /\ UNCHANGED othersThanPc

DispatchWait ==
  /\ At("disp", "d_wait") /\ ~m_connecting
  /\ Goto("disp", "d_live")
  /\ UNCHANGED othersThanPc

(* A logging client that is down is replaced through connect() without     *)
(* arguments: LOCALHOST:DEFAULT_PORT.                                      *)
DispatchLive ==
  /\ At("disp", "d_live")
  /\ IF logClient.up
       THEN Goto("disp", "d_total") /\ UNCHANGED <<m_connected, frame>>
       ELSE /\ m_connected' = FALSE
            /\ frame' = [frame EXCEPT !["disp"] = "reconnect"]
            /\ Goto("disp", "c_begin")
  /\ DispatchFrame
  /\ UNCHANGED <<m_connecting, m_running, session, queue, elpp, m_mutex, sending,
                 history, spent, aborted>>

(* Slip: a bulk is not cut to the size of the queue. *)
totalRequests_Whole == BulkSize

totalRequests == IF BulkSize <= Len(m_requests) THEN BulkSize ELSE Len(m_requests)

DispatchTotal ==
  /\ At("disp", "d_total")
  /\ total' = totalRequests
  /\ batch' = <<>>
  /\ Goto("disp", "h_check")
  /\ DispatchFrame
  /\ UNCHANGED <<flags, session, queue, elpp, frame, m_mutex, history, spent, aborted>>

(* Slip: front() and pop_front(). *)
TakeOldest_Newest ==
  LET n == Len(m_requests) IN
  batch' = Append(batch, m_requests[n]) /\ m_requests' = SubSeq(m_requests, 1, n - 1)

(* back() and pop_back(). *)
TakeOldest ==
  batch' = Append(batch, Head(m_requests)) /\ m_requests' = Tail(m_requests)

DispatchPop ==
  /\ At("disp", "d_pop")
  /\ IF Len(batch) < total
       THEN /\ m_mutex = "none"
            /\ TakeOldest
            /\ UNCHANGED pc
       ELSE Goto("disp", "d_send") /\ UNCHANGED <<batch, m_requests>>
  /\ DispatchFrame
  /\ UNCHANGED <<flags, session, enq, elpp, frame, m_mutex, total, history, spent,
                 aborted>>

(* The server takes a batch of a session it has acknowledged and that has  *)
(* not expired.                                                            *)
Accepted == m_key = "live" /\ health # "expired"

Numbered(h, b) == [i \in 1..Len(b) |-> <<h, b[i]>>]
Members(b)     == {b[i] : i \in 1..Len(b)}

(* Whatever comes of a batch, nothing goes back into the queue. *)
QueueAfterSend(o) == m_requests

(* Send the batch.  No handler looks at the answer; an exception leaves    *)
(* the thread's function.                                                  *)
DispatchSend ==
  /\ At("disp", "d_send")
  /\ \E o \in SendOutcomes(logClient.up, TRUE) :
       /\ Pay(o.cost)
       /\ logClient' = [logClient EXCEPT !.up = o.up]
       /\ IF o.copies > 0 /\ Accepted
            THEN delivered' = delivered \o Numbered(logClient.host, batch) /\ UNCHANGED lost
            ELSE lost' = lost \cup Members(batch) /\ UNCHANGED delivered
       /\ batch' = <<>> /\ total' = 0 /\ m_requests' = QueueAfterSend(o)
       /\ IF o.how \in {"throw", "timeout", "system"}
            THEN aborted' = "uncaught_dispatch" /\ UNCHANGED pc
            ELSE Goto("disp", "d_while") /\ UNCHANGED aborted
  /\ DispatchFrame
  /\ UNCHANGED <<flags, connClient, m_key, health, enq, elpp, frame, m_mutex>>

(* Slip: the queue is not looked at. *)
ForceDisconnect_LeavesQueue == ~m_connected \/ m_disconnected

(* Slip: a dispatcher that never stops. *)
ForceDisconnect_Never == FALSE

ForceDisconnect == (~m_connected \/ m_disconnected) /\ m_requests = <<>>

DispatcherCheck ==
  /\ At("disp", "d_check")
  /\ Goto("disp", IF ForceDisconnect THEN "d_disc" ELSE "d_run")
  /\ UNCHANGED othersThanPc

(* disconnect_: m_connected, then the callback; the default callback stays *)
(* uninstalled.                                                            *)
DispatcherDisconnect ==
  /\ At("disp", "d_disc")
  /\ m_connected' = FALSE
  /\ Goto("disp", "d_uninst")
  /\ DispatchFrame
  /\ UNCHANGED <<m_connecting, m_running, session, queue, elpp, frame, m_mutex,
                 sending, history, spent, aborted>>

DispatcherUninstall ==
  /\ At("disp", "d_uninst")
  /\ ChangeCallbacks(callbacks \ {"Residue"})
  /\ Goto("disp", "d_stop")
  /\ DispatchFrame
  /\ UNCHANGED <<m_connected, m_connecting, m_running, session, queue, residueSet,
                 elppLock, frame, m_mutex, sending, history, spent>>

(* Slip: the thread breaks out of its loop without saying so. *)
RunningLowered_Not == UNCHANGED m_running

RunningLowered == m_running' = FALSE

DispatcherStop ==
  /\ At("disp", "d_stop")
  /\ RunningLowered
  /\ Goto("disp", "done")
  /\ DispatchFrame
  /\ UNCHANGED <<m_connected, m_connecting, session, queue, elpp, frame, m_mutex,
                 sending, history, spent, aborted>>

-----------------------------------------------------------------------------
(* The user's API calls *)
UserFrame == UNCHANGED <<m_connecting, m_host, session, queue, elpp, retried, m_mutex,
                         sending, history, spent, aging>>

Resting == \A a \in Apps : pc[a] = "idle"

(* A disciplined program connects while it holds no connection, disconnects*)
(* while it holds one and no thread is logging, and its threads log only   *)
(* while it holds one.                                                     *)
Call(c) ==
  /\ At("user", "idle") /\ calls < MaxCalls
  /\ Disciplined => Resting /\ (logging <=> c \notin {"connect", "load"})
  /\ c \in {"reconnect", "load"} => m_host # "none"
  /\ calls' = calls + 1 /\ call' = c /\ result' = "ok"
  /\ logging' = (logging /\ c = "wait")
  /\ frame' = [frame EXCEPT !["user"] = IF c = "load" THEN "load" ELSE "connect"]
  /\ Goto("user", CASE c \in {"connect", "load"} -> "c_begin"
                    [] c \in {"reconnect", "disconnect"} -> "u_check"
                    [] c = "wait" -> "u_join")
  /\ UserFrame
  /\ UNCHANGED <<m_connected, m_disconnected, m_running, m_dispatcher, aborted>>

AfterDisconnect == IF call = "reconnect" THEN "c_begin" ELSE "u_end"

(* disconnect() of a client that does not count as connected does nothing. *)
DisconnectCheck ==
  /\ At("user", "u_check")
  /\ m_connected' = FALSE
  /\ Goto("user", IF m_connected THEN "u_flag" ELSE AfterDisconnect)
  /\ UserFrame
  /\ UNCHANGED <<m_disconnected, m_running, m_dispatcher, frame, user, aborted>>

DisconnectFlag ==
  /\ At("user", "u_flag")
  /\ m_disconnected' = TRUE
  /\ Goto("user", "u_join")
  /\ UserFrame
  /\ UNCHANGED <<m_connected, m_running, m_dispatcher, frame, user, aborted>>

(* wait(): join the dispatcher if it has not been joined. *)
Wait ==
  /\ At("user", "u_join")
  /\ CASE m_dispatcher = "null" ->
            aborted' = "null_dispatcher" /\ UNCHANGED <<pc, m_dispatcher>>
       [] m_dispatcher = "joined" \/ (m_dispatcher = "joinable" /\ pc["disp"] = "done") ->
            /\ m_dispatcher' = "joined"
            /\ Goto("user", IF call = "wait" THEN "u_end" ELSE "u_stop")
            /\ UNCHANGED aborted
       [] OTHER -> FALSE
  /\ UserFrame
  /\ UNCHANGED <<m_connected, m_disconnected, m_running, frame, user>>

DisconnectStop ==
  /\ At("user", "u_stop")
  /\ m_running' = FALSE
  /\ Goto("user", AfterDisconnect)
  /\ UserFrame
  /\ UNCHANGED <<m_connected, m_disconnected, m_dispatcher, frame, user, aborted>>

Return ==
  /\ At("user", "u_end")
  /\ logging' = IF call = "wait" THEN logging
                ELSE call # "disconnect" /\ result = "ok" /\ m_connected
  /\ call' = "none"
  /\ Goto("user", "idle")
  /\ UserFrame
  /\ UNCHANGED <<m_connected, m_disconnected, m_running, m_dispatcher, frame, result,
                 calls, aborted>>

-----------------------------------------------------------------------------
(* A log statement: LogDispatcher::dispatch takes ELPP's lock and iterates *)
(* over the callbacks; ResidueDispatcher::handle queues the message.       *)
AppFrame == UNCHANGED <<flags, m_host, session, m_dispatcher, callbacks, residueSet,
                        control, sending, user, history, spent, aging>>

Log(a) ==
  /\ At(a, "idle") /\ enq < MaxLog /\ elppLock = "none"
  /\ Disciplined => logging /\ pc["user"] = "idle"
  /\ elppLock' = a
  /\ Goto(a, "iterate")
  /\ AppFrame
  /\ UNCHANGED <<queue, aborted>>

Iterate(a) ==
  /\ At(a, "iterate")
  /\ CASE "Residue" \in callbacks /\ residueSet ->
            Goto(a, "push") /\ UNCHANGED <<elppLock, aborted>>
       [] "Residue" \in callbacks /\ ~residueSet ->
            aborted' = "null_residue" /\ UNCHANGED <<pc, elppLock>>
       [] "Residue" \notin callbacks ->
            Goto(a, "idle") /\ elppLock' = "none" /\ UNCHANGED aborted
  /\ AppFrame
  /\ UNCHANGED queue

(* push_front: the deque's back() is the sequence's head. *)
Pushed(msg) == Append(m_requests, msg)

AddToQueue(a) ==
  /\ At(a, "push") /\ m_mutex = "none"
  /\ enq' = enq + 1
  /\ m_requests' = Pushed(enq + 1)
  /\ elppLock' = "none"
  /\ Goto(a, "idle")
  /\ AppFrame
  /\ UNCHANGED aborted

-----------------------------------------------------------------------------
(* The server's session ages.  A session that the health check found valid *)
(* has TOUCH_THRESHOLD seconds left, a new one its whole age: it does not  *)
(* run out before the batch is sent, and nothing reads before that whether *)
(* it needs a touch by then.  One whose touch has failed may run out.      *)
Checked == pc["disp"] \in {"r_lognet", "o_uninstall", "o_install", "o_set", "o_run",
                           "r_unlock", "t_lock", "d_pop", "d_send"}

Age ==
  /\ Alive /\ m_key = "live" /\ aging < MaxAging
  /\ \/ health = "valid" /\ health' = "touch" /\ ~Checked
     \/ health = "touch" /\ health' = "expired" /\ pc["disp"] # "t_lock"
  /\ aging' = aging + 1
  /\ UNCHANGED <<flags, m_host, connClient, logClient, m_key, queue, m_dispatcher,
                 elpp, pc, control, sending, user, history, spent, aborted>>

Init ==
  /\ m_connected = FALSE /\ m_connecting = FALSE
  /\ m_disconnected = FALSE /\ m_running = FALSE
  /\ m_host \in {"none", UserHost}   \* loadConfiguration may have set it
  /\ connClient = NoClient /\ logClient = NoClient
  /\ m_key = "none" /\ health = "valid"
  /\ m_requests = <<>> /\ enq = 0
  /\ m_dispatcher = "null"
  /\ callbacks = {"Default"} /\ residueSet = FALSE /\ elppLock = "none"
  /\ pc = [t \in Threads |-> IF t = "disp" THEN "done" ELSE "idle"]
  /\ frame = [t \in Connectors |-> "connect"]
  /\ retried = [t \in Connectors |-> {}]
  /\ m_mutex = "none"
  /\ batch = <<>> /\ total = 0
  /\ call = "none" /\ result = "ok" /\ logging = FALSE /\ calls = 0
  /\ delivered = <<>> /\ lost = {}
  /\ spent = 0 /\ aging = 0 /\ aborted = "no"

(* connect_, reset, loadConnectionFromJson_, onConnect and healthCheck, on *)
(* whichever thread runs them.                                             *)
ConnectStep(t) ==
  \/ ConnectBegin(t) \/ ConnectNet(t)
  \/ ResetFlags(t) \/ ResetLock(t) \/ ResetConnect(t) \/ ResetConnectAgain(t)
  \/ ResetReply(t) \/ ResetAck(t) \/ ResetAckAgain(t)
  \/ Load(t) \/ LoadUnreadable(t) \/ LoadConnect(t)
  \/ UninstallDefault(t) \/ InstallResidue(t) \/ SetResidue(t) \/ RunDispatcher(t)
  \/ ResetUnlock(t)
  \/ HealthCheck(t) \/ Touch(t) \/ TouchReply(t)

DispatcherStep ==
  \/ ConnectStep("disp")
  \/ DispatcherRun \/ DispatchWhile \/ DispatchWait \/ DispatchLive \/ DispatchTotal
  \/ DispatchPop \/ DispatchSend
  \/ DispatcherCheck \/ DispatcherDisconnect \/ DispatcherUninstall \/ DispatcherStop

UserStep ==
  \/ ConnectStep("user")
  \/ DisconnectCheck \/ DisconnectFlag \/ Wait \/ DisconnectStop \/ Return

AppStep(a) == Iterate(a) \/ AddToQueue(a)

Next ==
  \/ DispatcherStep
  \/ UserStep
  \/ \E c \in Calls : Call(c)
  \/ \E a \in Apps : Log(a) \/ AppStep(a)
  \/ Age

(* Threads that can run do run, blocking calls return; nothing obliges the *)
(* program to make a call, to log, or a session to age.                    *)
Fairness ==
  /\ WF_vars(DispatcherStep) /\ WF_vars(UserStep)
  /\ \A a \in Apps : WF_vars(AppStep(a))

Spec == Init /\ [][Next]_vars /\ Fairness

=============================================================================
