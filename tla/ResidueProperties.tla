------------------------- MODULE ResidueProperties -------------------------
(***************************************************************************)
(* What ResidueClient is required to do, and what the documents, comments  *)
(* and log lines of the repository say it does.                            *)
(***************************************************************************)
EXTENDS ResidueClient

-----------------------------------------------------------------------------
ConnectPcs == {"c_begin", "c_net", "r_flags", "r_lock", "r_connect", "r_again",
               "r_reply", "r_ack", "r_ackagain", "r_load", "r_lognet",
               "o_uninstall", "o_install", "o_set", "o_run", "r_unlock",
               "h_check", "t_send", "t_lock"}
DispatcherPcs == {"d_run", "d_while", "d_wait", "d_live", "d_total", "d_pop",
                  "d_send", "d_check", "d_disc", "d_uninst", "d_stop", "done"}
UserPcs == {"idle", "u_check", "u_flag", "u_join", "u_stop", "u_end"}
AppPcs  == {"idle", "iterate", "push"}

Causes == {"client_race", "session_race", "callback_race", "null_callback",
           "null_residue", "null_dispatcher", "delete_joinable",
           "uncaught_dispatch", "touch_terminate"}

(* A client that is up is connected to one of the hosts. *)
ClientType ==
  {c \in [host : Hosts \cup {"none"}, up : BOOLEAN] : c.up => c.host \in Hosts}

FlagsType ==
  /\ m_connected \in BOOLEAN /\ m_connecting \in BOOLEAN
  /\ m_disconnected \in BOOLEAN /\ m_running \in BOOLEAN
  /\ logging \in BOOLEAN /\ residueSet \in BOOLEAN

SessionType ==
  /\ m_host \in Hosts \cup {"none"}
  /\ connClient \in ClientType /\ logClient \in ClientType
  /\ m_key \in {"none", "pending", "live"}
  /\ health \in {"valid", "touch", "expired"}

QueueType ==
  /\ m_requests \in Seq(Nat) /\ enq \in Nat
  /\ batch \in Seq(Nat) /\ total \in Nat
  /\ delivered \in Seq(Hosts \X Nat) /\ lost \subseteq Nat

LockType ==
  /\ m_mutex \in Connectors \cup {"none"}
  /\ elppLock \in Apps \cup {"none"}
  /\ m_dispatcher \in {"null", "joinable", "joined"}
  /\ callbacks \subseteq {"Default", "Residue"}

PcType ==
  /\ pc \in [Threads -> ConnectPcs \cup DispatcherPcs \cup UserPcs \cup AppPcs]
  /\ pc["user"] \in ConnectPcs \cup UserPcs
  /\ pc["disp"] \in ConnectPcs \cup DispatcherPcs
  /\ \A a \in Apps : pc[a] \in AppPcs

(* Only the user's thread loads a connection. *)
Frames == {f \in [Connectors -> {"connect", "reconnect", "health", "load"}] :
             f["disp"] # "load"}

FrameType ==
  /\ frame \in Frames
  /\ retried \in [Connectors -> SUBSET {"connect", "ack"}]
  /\ call \in Calls \cup {"none"} /\ result \in {"ok", "residue", "system"}

HistoryType ==
  /\ calls \in Nat /\ spent \in Nat /\ aging \in Nat
  /\ aborted \in Causes \cup {"no"}

(* Type invariant. *)
TypeOK ==
  FlagsType /\ SessionType /\ QueueType /\ LockType /\ PcType /\ FrameType /\ HistoryType

(* What dispatch() still means to pop is in the queue: the size it read    *)
(* before the health check, without the lock, is a lower bound afterwards. *)
PopBound == total <= Len(batch) + Len(m_requests)

(* Whatever threads, faults and restarts of the session come together, the *)
(* servers see the messages in the order in which they were queued and     *)
(* none of them twice: the retry of a send repeats no batch.               *)
InOrder ==
  \A i, j \in 1..Len(delivered) : i < j => delivered[i][2] < delivered[j][2]

Sent == {delivered[i][2] : i \in 1..Len(delivered)}

(* dispatch() never pops an empty deque: the size it read before the       *)
(* health check, without the lock, still bounds what it pops afterwards.   *)
NeverPopsEmpty ==
  pc["disp"] = "d_pop" /\ Len(batch) < total => m_requests # <<>>

(* The messages that are neither queued nor in the dispatcher's hands.     *)
settled == enq - Len(m_requests) - Len(batch)

(* The numbers of the messages, place by place: what is settled, then the  *)
(* batch, then the queue, without a gap.                                   *)
Numbering ==
  /\ settled \in Nat
  /\ \A i \in 1..Len(batch) : batch[i] = settled + i
  /\ \A i \in 1..Len(m_requests) : m_requests[i] = settled + Len(batch) + i

(* What is settled was either delivered, once, or lost.                    *)
Settled ==
  /\ Sent \cup lost = 1..settled
  /\ Sent \cap lost = {}

(* A thread object that is gone or joined belongs to a finished thread,    *)
(* and dispatch() holds messages only between taking and sending them.     *)
DispatcherInHand ==
  /\ m_dispatcher # "joinable" => pc["disp"] = "done"
  /\ batch # <<>> => pc["disp"] \in {"d_pop", "d_send"}

(* Every message ever queued is still queued, in the dispatcher's hands,   *)
(* delivered or known to be lost; it is in one of these places only.       *)
Accounted ==
  /\ 1..enq = Members(m_requests) \cup Members(batch) \cup Sent \cup lost
  /\ Cardinality(Members(m_requests)) + Cardinality(Members(batch))
       + Cardinality(Sent) + Cardinality(lost) = enq

(* disconnect() has flushed the queue, stopped the dispatcher and taken    *)
(* its callback away by the time it returns.                               *)
FlushedOnDisconnect ==
  pc["user"] = "u_end" /\ call = "disconnect" =>
    /\ m_requests = <<>> /\ batch = <<>>
    /\ ~m_running /\ pc["disp"] = "done" /\ "Residue" \notin callbacks

(* While the user holds a connection there is a dispatcher to drain the    *)
(* queue and a callback to fill it.                                        *)
ConnectionServed ==
  Alive /\ logging /\ m_connected =>
    /\ m_running /\ m_dispatcher = "joinable" /\ pc["disp"] # "done"
    /\ "Residue" \in callbacks /\ residueSet

(* m_running tells whether there is a dispatcher thread, and the one there *)
(* is can be joined: "we use m_running as reference point" (onConnect).    *)
RunningMeansThread ==
  Alive => /\ m_running <=> pc["disp"] # "done"
           /\ m_running => m_dispatcher = "joinable"

(* The process survives. *)
NoAbort == Alive

(* Nothing is sent to a server the user did not choose. *)
DeliveredToUserHost ==
  \A i \in 1..Len(delivered) : delivered[i][1] = UserHost

(* m_connecting, which stops dispatch() from sending, is raised only while *)
(* some thread is in a handshake or a touch: "Whether connection to the    *)
(* server is in progress" (residue.h).                                     *)
InHandshake(t) == pc[t] \in {"r_lock", "r_connect", "r_again", "r_ack", "r_ackagain",
                             "r_unlock", "t_send"}
ConnectingInProgress ==
  Alive /\ m_connecting => \E t \in Connectors : InHandshake(t)

(* reset() runs on two threads, never at the same time: the key, the       *)
(* client id and the sockets belong to one handshake.                      *)
InReset(t) ==
  frame[t] # "load" /\
  pc[t] \in {"r_connect", "r_again", "r_reply", "r_ack", "r_ackagain", "r_load",
             "r_lognet", "o_uninstall", "o_install", "o_set", "o_run", "r_unlock"}
HandshakeExclusive == Alive => ~(InReset("user") /\ InReset("disp"))

(* Why: who is in reset() holds m_mutex; a load is never inside reset(),   *)
(* unless through its health check; only a load makes the user check.      *)
OwnsMutex(t) ==
  /\ InReset(t) => m_mutex = t
  /\ pc[t] \in {"r_flags", "r_lock", "r_connect", "r_again", "r_reply", "r_ack",
                "r_ackagain", "r_unlock"} => frame[t] # "load"
  /\ t = "user" /\ pc[t] \in {"h_check", "t_send", "t_lock"} => frame[t] = "load"
MutexHeld == Alive => \A t \in Connectors : OwnsMutex(t)

(* m_disconnected, which tells the dispatcher to stop, is taken back only  *)
(* by the user's own connect: connect_ "is only called by user so we want  *)
(* to reset disconnected state" (residue.cc).                              *)
OnlyUserReconnects ==
  [][m_disconnected /\ ~m_disconnected' => pc["user"] = "c_begin"]_vars

(* Every API call returns. *)
CallsReturn == pc["user"] # "idle" ~> pc["user"] = "idle"

(* The promise of LogDelivery, with the queue, the batch and the delivered *)
(* messages as they are here: under any faults, and, where there are none, *)
(* without a loss and with everything delivered in the end.                *)
Promise == INSTANCE LogDelivery WITH
  queue <- m_requests, inHand <- batch,
  delivered <- [i \in 1..Len(delivered) |-> delivered[i][2]],
  lost <- lost, logged <- enq

KeepsPromise         == Promise!Spec
KeepsReliablePromise == Promise!ReliableSpec
=============================================================================
