---------------------------- MODULE ClientSettings ----------------------------
(***************************************************************************)
(* Who the client is, whom it talks to and which session it is in          *)
(* (residue.cc): connecting, renewing, configuring, known clients, keys,   *)
(* saved connections and the list of errors.                               *)
(*                                                                         *)
(* A call is one step here; how calls and the dispatcher's thread          *)
(* interleave is ResidueClient's subject.  A host stands for a host and a  *)
(* port.  A session is the number of a connection that a server granted.   *)
(***************************************************************************)
EXTENDS Integers, Sequences, FiniteSets, SequencesExt, FiniteSetsExt

CONSTANTS
  Hosts, LOCALHOST,
  KnownClients,      \* ids the servers have a public key of
  Configurations,    \* [parsed, host, port, client, key, inHome, serverKey, keySize]
  kErrors,           \* how many errors addError trims the list to
  MaxSessions, MaxCalls, MaxErrors   \* bounds

ASSUME SettingsAssumption ==
  /\ LOCALHOST \in Hosts /\ <<>> \notin KnownClients
  /\ kErrors \in Nat \ {0} /\ MaxSessions \in Nat /\ MaxCalls \in Nat /\ MaxErrors \in Nat

VARIABLES
  m,         \* the members of Residue
  sessions,  \* what the servers granted: [host, client]
  file,      \* the session of the saved connection, or 0
  past,      \* history: [raised, changed, moved, foreign, torn, doomed]
  calls      \* calls so far

vars == <<m, sessions, file, past, calls>>

(* Ids, keys and hosts are tuples, the empty one where there is none. *)
None == <<>>
KeyOf(client) == <<"key", client>>
NewPair == <<"pair", calls + 1>>

(* The client and the logging client are known by their hosts; key, params *)
(* and connection by the session they belong to.                           *)
Fresh ==
  [host |-> None, connected |-> FALSE, running |-> FALSE,
   clientId |-> None, privateKey |-> None, publicKey |-> None, knownClient |-> FALSE,
   serverPublicKey |-> "none", homepath |-> FALSE,
   connectionClient |-> None, loggingClient |-> None,
   key |-> 0, params |-> 0, connection |-> 0, errors |-> <<>>]

NoPast == [raised |-> <<>>, changed |-> FALSE, moved |-> FALSE, foreign |-> FALSE,
           torn |-> FALSE, doomed |-> FALSE]

Init == m = Fresh /\ sessions = <<>> /\ file = 0 /\ past = NoPast /\ calls = 0

(* Slip: the latest go. *)
addError_TrimsLatest(errors, e) ==
  Append(IF Len(errors) > kErrors THEN SubSeq(errors, 1, kErrors) ELSE errors, e)

(* The list is trimmed before it grows. *)
addError(errors, e) ==
  Append(IF Len(errors) > kErrors THEN SubSeq(errors, Len(errors) - kErrors + 1, Len(errors))
                                  ELSE errors, e)

(* A handshake begins with an empty list.                                  *)
Recorded(raised) ==
  LET list[n \in 0 .. Len(raised)] ==
        IF n = 0 THEN <<>> ELSE addError(list[n - 1], raised[n])
  IN  list[Len(raised)]

-----------------------------------------------------------------------------
(* What can come of a handshake.  NetworkClient::read calls a handler that *)
(* threw again, with the error, so that one failure tells of itself more   *)
(* than once.                                                              *)
Errors(outcome) ==
  CASE outcome = "unread" -> <<"connect", "connect">>
    [] outcome = "malformed" -> <<"connect">>
    [] outcome = "mismatch" -> <<"mismatch", "connect">>
    [] outcome = "rejected" -> <<"rejected", "connect">>
    [] outcome = "empty" -> <<"privateKey", "connect">>
    [] outcome = "ackUnwritten" -> <<"connect">>
    [] outcome = "ackUnread" -> <<"ack", "ack", "connect">>
    [] outcome = "ackRejected" -> <<"ackRejected">>
    [] outcome = "ackUnreadable" -> <<"ack", "connect">>
    [] outcome = "loggingUnresolved" -> <<"ack", "connect">>
    [] outcome = "loggingRefused" -> <<"logging", "ack", "connect">>
    [] OTHER -> <<>>

(* The server has answered the first request, and with the parameters the  *)
(* second one.                                                             *)
Answered == {"ackUnsent", "ackUnwritten", "ackUnread", "ackRejected", "ackUnreadable",
             "loggingUnresolved", "loggingRefused", "connected"}
Acknowledged == {"loggingUnresolved", "loggingRefused", "connected"}

(* The server knows whom to answer, and the client can read the answer.    *)
Recognised(s) ==
  /\ s.serverPublicKey # "wrong"
  /\ IF s.knownClient THEN s.clientId \in KnownClients ELSE s.publicKey # None
Readable(s) ==
  IF s.knownClient THEN s.privateKey = KeyOf(s.clientId) ELSE s.privateKey = s.publicKey

Outcomes(s) ==
  {"unsent", "unread", "malformed"}
  \cup IF ~Recognised(s) THEN {"rejected"}
       ELSE IF ~Readable(s) THEN {"mismatch"} \cup IF s.knownClient THEN {"empty"} ELSE {"silent"}
       ELSE {"rejected"} \cup IF Len(sessions) < MaxSessions THEN Answered ELSE {}

(* The id that the server answers with. *)
GrantedTo(s, n) == IF s.knownClient THEN s.clientId ELSE <<"granted", n>>

(* Slip: an id the client has already stays. *)
Identified_Once(s, n) ==
  [s EXCEPT !.key = n, !.clientId = IF @ = None THEN GrantedTo(s, n) ELSE @]

(* The first answer gives the key and the id. *)
Identified(s, n) == [s EXCEPT !.key = n, !.clientId = GrantedTo(s, n)]

(* Residue::loadConnectionFromJson_ *)
loadConnectionFromJson_(s, session, logging) ==
  LET loaded == [s EXCEPT !.key = session, !.params = session, !.loggingClient = s.host]
  IN  IF logging THEN [loaded EXCEPT !.connected = TRUE, !.connection = session]
                 ELSE loaded

(* Residue::onConnect *)
onConnect(s) == [s EXCEPT !.running = TRUE]

reset(s, outcome) ==
  LET n == Len(sessions) + 1
      started == [s EXCEPT !.connected = FALSE, !.errors = Recorded(Errors(outcome))]
  IN  IF outcome \notin Answered THEN started
      ELSE IF outcome \notin Acknowledged THEN Identified(started, n)
      ELSE IF outcome # "connected"
        THEN loadConnectionFromJson_(Identified(started, n), n, FALSE)
      ELSE onConnect(loadConnectionFromJson_(Identified(started, n), n, TRUE))

(* What a handshake of s leaves of the servers and of the history p. *)
Handshake(s, p, outcome) ==
  /\ m' = reset(s, outcome)
  /\ sessions' = IF outcome \notin Answered THEN sessions
                 ELSE Append(sessions, [host |-> s.connectionClient,
                                        client |-> GrantedTo(s, Len(sessions) + 1)])
  /\ past' = [p EXCEPT !.raised = Errors(outcome),
                       !.changed = @ /\ outcome # "connected",
                       !.foreign = @ /\ outcome # "connected",
                       !.torn = @ /\ outcome # "connected",
                       !.doomed = ~(Recognised(s) /\ Readable(s))]

-----------------------------------------------------------------------------
(* Calls.                                                                  *)
Call == calls < MaxCalls /\ calls' = calls + 1

Keep(s) == m' = s /\ UNCHANGED <<sessions, past>>

Opened(s, host) == [s EXCEPT !.host = host, !.connectionClient = host]

(* Slip: a key that is there already will do. *)
Keyed_Once(s) ==
  IF s.knownClient \/ s.privateKey # None THEN s
  ELSE [s EXCEPT !.privateKey = NewPair, !.publicKey = NewPair]

(* A new pair of keys for a client that is not known. *)
Keyed(s) ==
  IF s.knownClient THEN s ELSE [s EXCEPT !.privateKey = NewPair, !.publicKey = NewPair]

(* Slip: the new host is remembered by a call that then finds itself       *)
(* connected already.                                                      *)
connect__HostFirst(s, host) ==
  LET opened == Opened(s, host)
      past1 == [past EXCEPT !.moved = FALSE, !.changed = @ /\ s.knownClient]
  IN  \/ s.connected /\ Keep([s EXCEPT !.host = host])
      \/ ~s.connected /\ m' = opened /\ past' = [past EXCEPT !.moved = FALSE] /\ UNCHANGED sessions
      \/ ~s.connected /\ \E outcome \in Outcomes(Keyed(opened)) :
           Handshake(Keyed(opened), past1, outcome)

(* Residue::connect_: nothing where it is connected; else the host is      *)
(* called, which may fail, a pair is made and the handshake follows.       *)
connect_(s, host) ==
  LET opened == Opened(s, host)
      past1 == [past EXCEPT !.moved = FALSE, !.changed = @ /\ s.knownClient]
  IN  \/ s.connected /\ Keep(s)
      \/ ~s.connected /\ m' = opened /\ past' = [past EXCEPT !.moved = FALSE] /\ UNCHANGED sessions
      \/ ~s.connected /\ \E outcome \in Outcomes(Keyed(opened)) :
           Handshake(Keyed(opened), past1, outcome)

Connect == \E host \in Hosts : Call /\ connect_(m, host) /\ UNCHANGED file

Disconnected(s) ==
  IF s.connected THEN [s EXCEPT !.connected = FALSE, !.running = FALSE] ELSE s

Disconnect == m.connected /\ Call /\ Keep(Disconnected(m)) /\ UNCHANGED file

(* To a host of its own, or to the one it was connected to. *)
Reconnect == \E host \in (Hosts \cup {m.host}) \ {None} :
  m.host # None /\ Call /\ connect_(Disconnected(m), host) /\ UNCHANGED file

(* The session is over: what the dispatcher does before it sends.          *)
Renew ==
  /\ m.running /\ Call /\ UNCHANGED file
  /\ \E outcome \in Outcomes(m) : Handshake(m, past, outcome)

(* The session is about to be over, and the server refuses to prolong it.  *)
TouchRefused ==
  /\ m.running /\ Len(past.raised) < MaxErrors
  /\ m' = [m EXCEPT !.errors = addError(@, "touch")]
  /\ past' = [past EXCEPT !.raised = Append(@, "touch")]
  /\ UNCHANGED <<sessions, file, calls>>

(* The logging client has lost its connection: the dispatcher connects, as *)
(* a user would who names no host.                                         *)
DispatcherConnects ==
  m.running /\ Call /\ connect_([m EXCEPT !.connected = FALSE], LOCALHOST) /\ UNCHANGED file

(* Disconnected, and nothing left to send. *)
DispatcherEnds == ~m.connected /\ m.running /\ Keep([m EXCEPT !.running = FALSE])
                  /\ UNCHANGED <<file, calls>>

(* Residue::setKnownClient: the assignments come before the check. *)
setKnownClient(s, client, key) ==
  LET assigned == [s EXCEPT !.clientId = client, !.privateKey = key]
  IN  IF client # None /\ key = None THEN assigned
      ELSE [assigned EXCEPT !.knownClient = client # None /\ key # None]

SetKnownClient == \E client \in KnownClients \cup {None, <<"stranger">>},
                     key \in {KeyOf(c) : c \in KnownClients} \cup {None} :
  /\ Call /\ m' = setKnownClient(m, client, key) /\ past' = [past EXCEPT !.changed = TRUE]
  /\ UNCHANGED <<sessions, file>>

(* $RESIDUE_HOME, which the environment does not set here. *)
resolveResidueHomeEnvVar(s, j) == j.inHome => s.homepath

SetResidueHomePath ==
  /\ ~m.homepath /\ Call /\ Keep([m EXCEPT !.homepath = TRUE]) /\ UNCHANGED file

(* Residue::loadConfigurationFromJson_: what comes before the first entry  *)
(* that is refused stays.  The entries after the server's key change       *)
(* nothing that is modelled.                                               *)
loadConfiguration(s, j) ==
  LET hosted == [s EXCEPT !.host = j.host]
      known == IF j.client = None THEN hosted ELSE setKnownClient(hosted, j.client, j.key)
      unreadable == j.client # None /\ (j.key = <<"no file">> \/ ~resolveResidueHomeEnvVar(s, j))
      refused == j.client # None /\ j.key = None
  IN  IF ~j.parsed \/ j.host = None THEN s
      ELSE IF j.port = 0 \/ unreadable THEN hosted
      ELSE IF refused \/ j.serverPublicKey \in {"none", "unreadable"} THEN known
      ELSE [known EXCEPT !.serverPublicKey = j.serverPublicKey]

LoadConfiguration == \E j \in Configurations :
  LET s == loadConfiguration(m, j)
  IN  /\ Call /\ m' = s /\ UNCHANGED <<sessions, file>>
      /\ past' = [past EXCEPT !.changed = @ \/ (s.clientId # m.clientId \/ s.privateKey # m.privateKey
                                                \/ s.serverPublicKey # m.serverPublicKey
                                                \/ s.knownClient # m.knownClient),
                              !.moved = @ \/ s.host # m.host]

(* Residue::saveConnection_ *)
SaveConnection ==
  /\ m.connected /\ m.connection # 0 /\ file # m.connection
  /\ Call /\ file' = m.connection /\ UNCHANGED <<m, sessions, past>>

(* Residue::loadConnectionFromJson: without a handshake, and so without a  *)
(* client id, unless the session is over.  The host may be out of reach or *)
(* the text unreadable, which changes nothing more; the text may lack      *)
(* something behind the key; the logging host may not be resolved, of      *)
(* which no error tells, or refuse, of which one does.                     *)
LoadConnection ==
  LET s == IF m.connected THEN m ELSE Opened(m, m.host)
      Loaded(logging) == loadConnectionFromJson_(s, file, logging)
      of == sessions[file]
      unread == [past EXCEPT !.moved = @ /\ m.connected]
      past1 == [past EXCEPT !.moved = @ /\ m.connected,
                            !.torn = m.connected,
                            !.foreign = of.client # m.clientId \/ of.host # s.connectionClient]
  IN  /\ file # 0 /\ m.host # None /\ Call /\ UNCHANGED file
      /\ \/ m' = s /\ past' = unread /\ UNCHANGED sessions
         \/ /\ \E params \in {m.params, file} : m' = [s EXCEPT !.key = file, !.params = params]
            /\ past' = [past1 EXCEPT !.foreign = @ \/ past.foreign] /\ UNCHANGED sessions
         \/ m' = Loaded(FALSE) /\ past' = past1 /\ UNCHANGED sessions
         \/ /\ m' = [Loaded(FALSE) EXCEPT !.errors = addError(@, "logging")]
            /\ past' = [past1 EXCEPT !.raised = Append(@, "logging")] /\ UNCHANGED sessions
         \/ m' = onConnect(Loaded(TRUE)) /\ past' = [past1 EXCEPT !.torn = FALSE] /\ UNCHANGED sessions
         \/ \E outcome \in Outcomes(Loaded(TRUE)) :
              Handshake(onConnect(Loaded(TRUE)), [past1 EXCEPT !.torn = FALSE], outcome)

(* The program ends and starts again. *)
Restart ==
  /\ m # Fresh /\ Call /\ m' = Fresh /\ past' = NoPast /\ UNCHANGED <<sessions, file>>

Next ==
  \/ Connect \/ Disconnect \/ Reconnect
  \/ Renew \/ TouchRefused \/ DispatcherConnects \/ DispatcherEnds
  \/ SetKnownClient \/ SetResidueHomePath \/ LoadConfiguration
  \/ SaveConnection \/ LoadConnection \/ Restart

Spec == Init /\ [][Next]_vars

-----------------------------------------------------------------------------
(* Properties.                                                             *)

Latest(s, n) == SubSeq(s, Len(s) - Min({Len(s), n}) + 1, Len(s))

(* The errors are the latest that were raised since the last handshake     *)
(* began, in their order, and no fewer than the promised number where so   *)
(* many were raised (Residue::addError, reset, touch,                      *)
(* loadConnectionFromJson_).                                               *)
LatestErrors ==
  /\ m.errors = Latest(past.raised, Len(m.errors))
  /\ Len(m.errors) >= Min({Len(past.raised), kErrors})

(* What a connected client sends belongs together: the key it encrypts     *)
(* with, the parameters it keeps to and the connection it would save are   *)
(* of one session, and the id it goes by is the one that session was       *)
(* granted to.  Not so once the id was set anew, once a saved connection,  *)
(* which holds no id, was loaded by another client than it was granted to, *)
(* or once one could not be loaded, or in part, by a client that was       *)
(* connected (Residue::reset, setKnownClient, loadConnectionFromJson).     *)
RequestsBelong ==
  m.connected =>
    /\ past.torn \/ (m.key = m.params /\ m.key = m.connection)
    /\ past.changed \/ past.foreign \/ sessions[m.key].client = m.clientId

(* A connected client logs to the host that granted its session, unless a  *)
(* configuration has moved it while it was connected, or the connection    *)
(* was loaded of another host or client (Residue::connect_, reset,         *)
(* loadConnectionFromJson_).                                               *)
LoggingWhereGranted ==
  m.connected /\ ~past.moved /\ ~past.foreign =>
    /\ m.loggingClient = m.connectionClient
    /\ m.loggingClient = sessions[m.params].host

(* A handshake can be answered, and the answer read: the server recognises *)
(* the client, whose id and key, or whose two keys, belong together.  Not  *)
(* so in a renewal after they were set anew or a connection was loaded of  *)
(* another client, nor where the user gave a known client's id and key or  *)
(* the server's key that do not fit (Residue::connect_, reset,             *)
(* setKnownClient, loadConnectionFromJson).                                *)
HandshakesReadable ==
  past.doomed => past.changed \/ past.foreign \/ m.serverPublicKey = "wrong"
=============================================================================
