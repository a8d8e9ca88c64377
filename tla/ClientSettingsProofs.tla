------------------------- MODULE ClientSettingsProofs -------------------------
(***************************************************************************)
(* What a connected client sends belongs to one session, for every set of  *)
(* hosts, known clients and configurations and any number of calls.        *)
(***************************************************************************)
EXTENDS ClientSettings, SequenceTheorems, TLAPS

(* What is told apart by being none. *)
Places == Hosts \cup {None} \cup {j.host : j \in Configurations}
Granted == KnownClients \cup {<<"granted", n>> : n \in Nat}
Sessions == [host : Places, client : Granted]

Members == {"host", "connected", "running", "clientId", "privateKey", "publicKey",
            "knownClient", "serverPublicKey", "homepath", "connectionClient",
            "loggingClient", "key", "params", "connection", "errors"}
Memories == {"raised", "changed", "moved", "foreign", "torn", "doomed"}

(* A client's members, and a history. *)
Client(s) ==
  /\ DOMAIN s = Members
  /\ s.connected \in BOOLEAN /\ s.running \in BOOLEAN /\ s.knownClient \in BOOLEAN
  /\ s.host \in Places /\ s.connectionClient \in Places
History(p) ==
  /\ DOMAIN p = Memories
  /\ p.changed \in BOOLEAN /\ p.moved \in BOOLEAN /\ p.foreign \in BOOLEAN
  /\ p.torn \in BOOLEAN /\ p.doomed \in BOOLEAN

Paired(s) == s.publicKey # None /\ s.privateKey = s.publicKey

(* Unless they were set anew, id and keys fit. *)
Keyring(s, p) ==
  ~p.changed => IF s.knownClient
                  THEN s.clientId \in KnownClients /\ s.privateKey = KeyOf(s.clientId)
                  ELSE s.clientId # None => Paired(s)

(* A session in use can be renewed. *)
Ready(s, p) == ~p.changed /\ ~p.foreign /\ ~s.knownClient => Paired(s)

(* The host is the one the connecting client was made with. *)
Settled(s, p) == ~p.moved => s.host = s.connectionClient

(* Who cannot be answered, or not read the answer, has no id and a         *)
(* connection of somebody else's.                                          *)
Doomed(s, p) ==
  p.doomed /\ ~p.changed /\ s.serverPublicKey # "wrong" =>
    p.foreign /\ ~s.knownClient /\ s.clientId = None

(* RequestsBelong and LoggingWhereGranted of s, p and the sessions ss. *)
Belongs(s, p, ss) ==
  s.connected =>
    /\ s.params \in 1 .. Len(ss)
    /\ p.torn \/ (s.key = s.params /\ s.key = s.connection)
    /\ p.changed \/ p.foreign \/ ss[s.key].client = s.clientId
LogsThere(s, p, ss) ==
  s.connected /\ ~p.moved /\ ~p.foreign =>
    s.loggingClient = s.connectionClient /\ s.loggingClient = ss[s.params].host

(* The connection that would be saved. *)
Stored(s, ss) == s.connection \in 0 .. Len(ss)

Good(s, p, ss) ==
  /\ Client(s) /\ History(p) /\ Stored(s, ss)
  /\ Keyring(s, p) /\ (s.running => Ready(s, p)) /\ Settled(s, p) /\ Doomed(s, p)
  /\ Belongs(s, p, ss) /\ LogsThere(s, p, ss)

IInv == Good(m, past, sessions) /\ sessions \in Seq(Sessions) /\ file \in 0 .. Len(sessions)

(* A pair of keys is none, an id that was granted is not.                  *)
LEMMA NotNone ==
  /\ \A c : <<"pair", c>> # None
  /\ None \notin Granted
<1>1. \A c : <<"pair", c>> # None BY DEF None
<1>2. \A n : <<"granted", n>> # None BY DEF None
<1> QED BY <1>1, <1>2, SettingsAssumption DEF Granted, None

(* The client starts without anything.                                     *)
LEMMA FreshGood == ASSUME NEW ss \in Seq(Sessions) PROVE Good(Fresh, NoPast, ss)
<1>1. Client(Fresh) /\ History(NoPast)
  BY DEF Fresh, NoPast, Client, History, Members, Memories, Places
<1>2. /\ Keyring(Fresh, NoPast) /\ Settled(Fresh, NoPast) /\ Doomed(Fresh, NoPast)
      /\ Stored(Fresh, ss)
  BY DEF Fresh, NoPast, Keyring, Settled, Doomed, Stored
<1>3. ~Fresh.connected /\ ~Fresh.running BY DEF Fresh
<1> QED BY <1>1, <1>2, <1>3 DEF Good, Belongs, LogsThere

(* The servers' answers and the client's acknowledgement.                  *)
LEMMA Answers ==
  ASSUME NEW s, NEW p, NEW outcome \in Outcomes(s), Client(s), History(p)
  PROVE  outcome \in Answered => Recognised(s) /\ Readable(s)
BY DEF Outcomes, Answered

(* Members that reset leaves, and what it gives where it succeeds.         *)
LEMMA ResetFacts ==
  ASSUME NEW s, NEW outcome, Client(s)
  PROVE  LET r == reset(s, outcome)  n == Len(sessions) + 1
         IN  /\ Client(r)
             /\ r.host = s.host /\ r.connectionClient = s.connectionClient
             /\ r.knownClient = s.knownClient /\ r.serverPublicKey = s.serverPublicKey
             /\ r.publicKey = s.publicKey /\ r.privateKey = s.privateKey
             /\ (r.connected <=> outcome = "connected")
             /\ (r.running <=> s.running \/ outcome = "connected")
             /\ r.clientId = IF outcome \in Answered THEN GrantedTo(s, n) ELSE s.clientId
             /\ outcome = "connected" =>
                  /\ r.key = n /\ r.params = n /\ r.loggingClient = s.host
             /\ r.connection = IF outcome = "connected" THEN n ELSE s.connection
<1> DEFINE n == Len(sessions) + 1
           e == Recorded(Errors(outcome))
           started == [s EXCEPT !.connected = FALSE, !.errors = e]
           named == [started EXCEPT !.key = n, !.clientId = GrantedTo(started, n)]
           loaded == [named EXCEPT !.key = n, !.params = n, !.loggingClient = named.host]
           connected == [loaded EXCEPT !.connected = TRUE, !.connection = n]
           running == [connected EXCEPT !.running = TRUE]
<1> DEFINE r == reset(s, outcome)
<1>a. "connected" \in Answered /\ Acknowledged \subseteq Answered
  BY DEF Answered, Acknowledged
<1>1. CASE outcome \notin Answered
  <2>1. r = started BY <1>1 DEF reset
  <2> HIDE DEF e, r
  <2>a. DOMAIN r = Members BY <2>1 DEF Client
  <2>b. r.connected = FALSE /\ r.running = s.running BY <2>1 DEF Client, Members
  <2>c. /\ r.host = s.host /\ r.connectionClient = s.connectionClient
        /\ r.knownClient = s.knownClient /\ r.serverPublicKey = s.serverPublicKey
        /\ r.publicKey = s.publicKey /\ r.privateKey = s.privateKey
    BY <2>1 DEF Client, Members
  <2>d. Client(r) BY <2>a, <2>b, <2>c DEF Client
  <2>e. r.clientId = s.clientId /\ r.connection = s.connection
    BY <2>1, <1>1 DEF Client, Members
  <2> QED BY <2>a, <2>b, <2>c, <2>d, <2>e, <1>1, <1>a DEF r
<1>2. CASE outcome \in Answered /\ outcome \notin Acknowledged
  <2>1. r = named BY <1>2 DEF reset, Identified
  <2>2. GrantedTo(started, n) = GrantedTo(s, n) BY DEF GrantedTo, Client, Members
  <2>3. outcome # "connected" BY <1>2 DEF Acknowledged
  <2> HIDE DEF e, r
  <2>a. DOMAIN r = Members BY <2>1 DEF Client
  <2>b. r.connected = FALSE /\ r.running = s.running BY <2>1 DEF Client, Members
  <2>c. /\ r.host = s.host /\ r.connectionClient = s.connectionClient
        /\ r.knownClient = s.knownClient /\ r.serverPublicKey = s.serverPublicKey
        /\ r.publicKey = s.publicKey /\ r.privateKey = s.privateKey
    BY <2>1 DEF Client, Members
  <2>d. Client(r) BY <2>a, <2>b, <2>c DEF Client
  <2>e. r.clientId = GrantedTo(s, n) /\ r.connection = s.connection
    BY <2>1, <2>2 DEF Client, Members
  <2> QED BY <2>a, <2>b, <2>c, <2>d, <2>e, <2>3, <1>2 DEF r
<1>3. CASE outcome \in Acknowledged /\ outcome # "connected"
  <2>1. r = loaded
    BY <1>3, <1>a DEF reset, Identified, loadConnectionFromJson_
  <2>2. GrantedTo(started, n) = GrantedTo(s, n) BY DEF GrantedTo, Client, Members
  <2> HIDE DEF e, r
  <2>a. DOMAIN r = Members BY <2>1 DEF Client
  <2>b. r.connected = FALSE /\ r.running = s.running BY <2>1 DEF Client, Members
  <2>c. /\ r.host = s.host /\ r.connectionClient = s.connectionClient
        /\ r.knownClient = s.knownClient /\ r.serverPublicKey = s.serverPublicKey
        /\ r.publicKey = s.publicKey /\ r.privateKey = s.privateKey
    BY <2>1 DEF Client, Members
  <2>d. Client(r) BY <2>a, <2>b, <2>c DEF Client
  <2>e. r.clientId = GrantedTo(s, n) /\ r.connection = s.connection
    BY <2>1, <2>2 DEF Client, Members
  <2> QED BY <2>a, <2>b, <2>c, <2>d, <2>e, <1>3, <1>a DEF r
<1>4. CASE outcome = "connected"
  <2>1. r = running
    BY <1>4, <1>a DEF reset, Identified, loadConnectionFromJson_, Acknowledged, onConnect
  <2>2. GrantedTo(started, n) = GrantedTo(s, n) BY DEF GrantedTo, Client, Members
  <2> HIDE DEF e, r
  <2>a. DOMAIN r = Members BY <2>1 DEF Client
  <2>b. r.connected = TRUE /\ r.running = TRUE BY <2>1 DEF Client, Members
  <2>c. /\ r.host = s.host /\ r.connectionClient = s.connectionClient
        /\ r.knownClient = s.knownClient /\ r.serverPublicKey = s.serverPublicKey
        /\ r.publicKey = s.publicKey /\ r.privateKey = s.privateKey
    BY <2>1 DEF Client, Members
  <2>d. Client(r) BY <2>a, <2>b, <2>c DEF Client
  <2>e. /\ r.clientId = GrantedTo(s, n) /\ r.loggingClient = s.host
        /\ r.key = n /\ r.params = n /\ r.connection = n
    BY <2>1, <2>2 DEF Client, Members
  <2> QED BY <2>a, <2>b, <2>c, <2>d, <2>e, <1>4, <1>a DEF r
<1> QED BY <1>1, <1>2, <1>3, <1>4 DEF Acknowledged

(* What a handshake makes of the history.                                  *)
LEMMA HistoryFacts ==
  ASSUME NEW s, NEW p, NEW outcome, History(p), Handshake(s, p, outcome)
  PROVE  /\ History(past')
         /\ past'.moved = p.moved
         /\ past'.changed <=> p.changed /\ outcome # "connected"
         /\ past'.foreign <=> p.foreign /\ outcome # "connected"
         /\ past'.doomed <=> ~(Recognised(s) /\ Readable(s))
<1> DEFINE e == Errors(outcome)
           d == ~(Recognised(s) /\ Readable(s))
<1>1. past' = [p EXCEPT !.raised = e,
                        !.changed = p.changed /\ outcome # "connected",
                        !.foreign = p.foreign /\ outcome # "connected",
                        !.torn = p.torn /\ outcome # "connected", !.doomed = d]
  BY DEF Handshake
<1>d. d \in BOOLEAN OBVIOUS
<1> HIDE DEF e, d
<1>2. DOMAIN past' = Memories BY <1>1 DEF History
<1>3. /\ past'.moved = p.moved /\ past'.doomed = d
      /\ past'.changed = (p.changed /\ outcome # "connected")
      /\ past'.foreign = (p.foreign /\ outcome # "connected")
      /\ past'.torn = (p.torn /\ outcome # "connected")
  BY <1>1, Zenon DEF History, Memories
<1>4. History(past') BY <1>2, <1>3, <1>d DEF History
<1> QED BY <1>3, <1>4 DEF d

(* A handshake of a client whose id and keys fit leaves one that is good.  *)
LEMMA HandshakeGood ==
  ASSUME NEW s, NEW p, NEW outcome \in Outcomes(s), Client(s), History(p),
         sessions \in Seq(Sessions), Stored(s, sessions),
         Keyring(s, p), Ready(s, p), Settled(s, p),
         Handshake(s, p, outcome)
  PROVE  /\ Good(m', past', sessions') /\ sessions' \in Seq(Sessions)
         /\ Len(sessions) <= Len(sessions')
<1> DEFINE n == Len(sessions) + 1
           ok == outcome = "connected"
           one == [host |-> s.connectionClient, client |-> GrantedTo(s, n)]
<1>a. outcome \in Answered => Recognised(s) /\ Readable(s) BY Answers
<1>b. ok => outcome \in Answered BY DEF Answered
<1>c. /\ Client(m')
      /\ m'.host = s.host /\ m'.connectionClient = s.connectionClient
      /\ m'.knownClient = s.knownClient /\ m'.serverPublicKey = s.serverPublicKey
      /\ m'.publicKey = s.publicKey /\ m'.privateKey = s.privateKey
      /\ (m'.connected <=> ok) /\ (m'.running <=> s.running \/ ok)
      /\ m'.clientId = IF outcome \in Answered THEN GrantedTo(s, n) ELSE s.clientId
      /\ ok => m'.key = n /\ m'.params = n /\ m'.loggingClient = s.host
      /\ m'.connection = IF ok THEN n ELSE s.connection
  BY ResetFacts DEF Handshake
<1>d. /\ History(past') /\ past'.moved = p.moved
      /\ past'.changed <=> p.changed /\ ~ok
      /\ past'.foreign <=> p.foreign /\ ~ok
      /\ past'.doomed <=> ~(Recognised(s) /\ Readable(s))
  BY HistoryFacts
<1>e. n \in Nat \ {0} OBVIOUS
<1>f. Recognised(s) => GrantedTo(s, n) \in Granted
  BY <1>e DEF Recognised, GrantedTo, Granted
<1>g. outcome \in Answered => sessions' = Append(sessions, one)
  BY DEF Handshake
<1>h. outcome \notin Answered => sessions' = sessions BY DEF Handshake
<1>1. sessions' \in Seq(Sessions) /\ Len(sessions) <= Len(sessions')
  <2>1. outcome \in Answered => one \in Sessions BY <1>a, <1>f DEF Sessions, Client
  <2> HIDE DEF one
  <2> QED BY <2>1, <1>g, <1>h
<1>2. ok => n \in 1 .. Len(sessions') /\ sessions'[n] = one
  <2> HIDE DEF one
  <2> QED BY <1>b, <1>g
<1>3. Keyring(m', past')
  <2>1. CASE outcome \in Answered
    <3>1. m'.clientId = IF s.knownClient THEN s.clientId ELSE <<"granted", n>>
      BY <1>c, <2>1 DEF GrantedTo
    <3> QED BY <3>1, <2>1, <1>a, <1>c DEF Keyring, Recognised, Readable, Paired
  <2>2. CASE outcome \notin Answered
    BY <2>2, <1>b, <1>c, <1>d DEF Keyring, Paired
  <2> QED BY <2>1, <2>2
<1>4. Ready(m', past')
  <2>1. CASE ok
    BY <2>1, <1>a, <1>b, <1>c DEF Ready, Recognised, Readable, Paired
  <2>2. CASE ~ok
    BY <2>2, <1>c, <1>d DEF Ready, Paired
  <2> QED BY <2>1, <2>2
<1>5. Settled(m', past') BY <1>c, <1>d DEF Settled
<1>6. Doomed(m', past')
  <2>1. SUFFICES ASSUME past'.doomed, ~past'.changed, s.serverPublicKey # "wrong"
                 PROVE  past'.foreign /\ ~s.knownClient /\ m'.clientId = None
    BY <1>c DEF Doomed
  <2>2. ~(Recognised(s) /\ Readable(s)) /\ outcome \notin Answered /\ ~ok /\ ~p.changed
    BY <2>1, <1>a, <1>b, <1>d
  <2>3. ~s.knownClient
    BY <2>1, <2>2 DEF Recognised, Readable, Keyring
  <2>4. ~Paired(s) BY <2>1, <2>2, <2>3 DEF Recognised, Readable, Paired
  <2>5. s.clientId = None /\ p.foreign
    BY <2>2, <2>3, <2>4 DEF Keyring, Ready
  <2> QED BY <2>2, <2>3, <2>5, <1>c, <1>d
<1>7. Belongs(m', past', sessions')
  <2>1. SUFFICES ASSUME ok PROVE Belongs(m', past', sessions')
    BY <1>c DEF Belongs
  <2>2. m'.key = n /\ m'.params = n /\ m'.connection = n /\ m'.clientId = GrantedTo(s, n)
    BY <2>1, <1>b, <1>c
  <2>3. sessions'[n].client = m'.clientId BY <2>1, <2>2, <1>2
  <2> QED BY <2>1, <2>2, <2>3, <1>2 DEF Belongs
<1>8. LogsThere(m', past', sessions')
  <2>1. SUFFICES ASSUME ok, ~past'.moved PROVE LogsThere(m', past', sessions')
    BY <1>c DEF LogsThere
  <2>2. m'.loggingClient = s.connectionClient
    BY <2>1, <1>c, <1>d DEF Settled
  <2>3. m'.params = n /\ sessions'[n].host = s.connectionClient BY <2>1, <1>2, <1>c
  <2> QED BY <2>2, <2>3, <1>c DEF LogsThere
<1>9. Stored(m', sessions') BY <1>1, <1>2, <1>c DEF Stored
<1> QED BY <1>1, <1>3, <1>4, <1>5, <1>6, <1>7, <1>8, <1>9, <1>c, <1>d DEF Good

-----------------------------------------------------------------------------
(* What calls assign.                                                      *)
LEMMA OpenedFacts ==
  ASSUME NEW s, NEW host \in Places, Client(s)
  PROVE  LET o == Opened(s, host)
         IN  /\ Client(o) /\ o.host = host /\ o.connectionClient = host
             /\ o.connected = s.connected /\ o.running = s.running
             /\ o.knownClient = s.knownClient /\ o.clientId = s.clientId
             /\ o.publicKey = s.publicKey /\ o.privateKey = s.privateKey
             /\ o.serverPublicKey = s.serverPublicKey /\ o.connection = s.connection
BY DEF Opened, Client, Members

(* Of a client that is not known a new pair, of a known one nothing.       *)
LEMMA KeyedFacts ==
  ASSUME NEW s, Client(s)
  PROVE  LET k == Keyed(s)
         IN  /\ Client(k) /\ k.host = s.host /\ k.connectionClient = s.connectionClient
             /\ k.connected = s.connected /\ k.running = s.running
             /\ k.knownClient = s.knownClient /\ k.clientId = s.clientId
             /\ k.serverPublicKey = s.serverPublicKey /\ k.connection = s.connection
             /\ s.knownClient => k = s
             /\ ~s.knownClient => Paired(k)
<1>1. CASE s.knownClient BY <1>1 DEF Keyed
<1>2. CASE ~s.knownClient
  <2> DEFINE new == NewPair
  <2>1. new # None BY NotNone DEF NewPair
  <2>2. Keyed(s) = [s EXCEPT !.privateKey = new, !.publicKey = new] BY <1>2 DEF Keyed
  <2> HIDE DEF new
  <2> QED BY <1>2, <2>1, <2>2 DEF Client, Members, Paired
<1> QED BY <1>1, <1>2 DEF Client

(* A connection that was loaded is one of the session it was saved from,   *)
(* where the logging client could be connected.                            *)
LEMMA LoadedFacts ==
  ASSUME NEW s, NEW n, Client(s)
  PROVE  LET l == loadConnectionFromJson_(s, n, TRUE)
         IN  /\ Client(l) /\ l.host = s.host /\ l.connectionClient = s.connectionClient
             /\ l.connected /\ l.running = s.running
             /\ l.knownClient = s.knownClient /\ l.clientId = s.clientId
             /\ l.publicKey = s.publicKey /\ l.privateKey = s.privateKey
             /\ l.serverPublicKey = s.serverPublicKey
             /\ l.key = n /\ l.params = n /\ l.loggingClient = s.host /\ l.connection = n
<1> DEFINE l == loadConnectionFromJson_(s, n, TRUE)
           loaded == [s EXCEPT !.key = n, !.params = n, !.loggingClient = s.host]
<1>1. l = [loaded EXCEPT !.connected = TRUE, !.connection = n]
  BY DEF loadConnectionFromJson_
<1> HIDE DEF l
<1>2. DOMAIN l = Members /\ l.connected = TRUE BY <1>1 DEF Client, Members
<1>3. /\ l.host = s.host /\ l.connectionClient = s.connectionClient
      /\ l.running = s.running
      /\ l.knownClient = s.knownClient /\ l.clientId = s.clientId
      /\ l.publicKey = s.publicKey /\ l.privateKey = s.privateKey
      /\ l.serverPublicKey = s.serverPublicKey
      /\ l.key = n /\ l.params = n /\ l.loggingClient = s.host /\ l.connection = n
  BY <1>1 DEF Client, Members
<1> QED BY <1>2, <1>3 DEF Client, l

(* Where it could not, the client is as connected as before.               *)
LEMMA HalfLoadedFacts ==
  ASSUME NEW s, NEW n, Client(s)
  PROVE  LET l == loadConnectionFromJson_(s, n, FALSE)
         IN  /\ Client(l) /\ l.host = s.host /\ l.connectionClient = s.connectionClient
             /\ l.connected = s.connected /\ l.running = s.running
             /\ l.knownClient = s.knownClient /\ l.clientId = s.clientId
             /\ l.publicKey = s.publicKey /\ l.privateKey = s.privateKey
             /\ l.serverPublicKey = s.serverPublicKey
             /\ l.key = n /\ l.params = n /\ l.loggingClient = s.host
             /\ l.connection = s.connection
BY DEF loadConnectionFromJson_, Client, Members

(* Connecting, by the user or by the dispatcher.                           *)
LEMMA ConnectGood ==
  ASSUME NEW s, NEW host \in Places, Good(s, past, sessions), sessions \in Seq(Sessions),
         connect_(s, host)
  PROVE  /\ Good(m', past', sessions') /\ sessions' \in Seq(Sessions)
         /\ Len(sessions) <= Len(sessions')
<1> DEFINE opened == Opened(s, host)
           past1 == [past EXCEPT !.moved = FALSE, !.changed = past.changed /\ s.knownClient]
<1>a. Client(s) /\ History(past) BY DEF Good
<1>b. /\ Client(opened) /\ opened.host = host /\ opened.connectionClient = host
      /\ opened.connected = s.connected /\ opened.running = s.running
      /\ opened.knownClient = s.knownClient /\ opened.clientId = s.clientId
      /\ opened.publicKey = s.publicKey /\ opened.privateKey = s.privateKey
      /\ opened.serverPublicKey = s.serverPublicKey /\ opened.connection = s.connection
  BY <1>a, OpenedFacts
<1>1. CASE s.connected /\ Keep(s)
  BY <1>1 DEF Keep
<1>2. CASE ~s.connected /\ m' = opened /\ past' = [past EXCEPT !.moved = FALSE] /\ UNCHANGED sessions
  <2>1. /\ DOMAIN past' = Memories /\ past'.moved = FALSE /\ past'.changed = past.changed
        /\ past'.foreign = past.foreign /\ past'.torn = past.torn /\ past'.doomed = past.doomed
    BY <1>2, <1>a DEF History, Memories
  <2>2. History(past') BY <2>1, <1>a DEF History
  <2>3. Keyring(m', past') /\ (m'.running => Ready(m', past'))
    BY <1>2, <1>b, <2>1 DEF Good, Keyring, Ready, Paired
  <2>4. Settled(m', past') /\ Doomed(m', past')
    BY <1>2, <1>b, <2>1 DEF Good, Settled, Doomed
  <2>6. Stored(m', sessions') BY <1>2, <1>b DEF Good, Stored
  <2>5. Belongs(m', past', sessions') /\ LogsThere(m', past', sessions')
    BY <1>2, <1>b DEF Belongs, LogsThere
  <2> QED BY <1>2, <1>b, <2>2, <2>3, <2>4, <2>5, <2>6 DEF Good
<1>3. CASE ~s.connected /\ \E outcome \in Outcomes(Keyed(opened)) :
             Handshake(Keyed(opened), past1, outcome)
  <2> DEFINE k == Keyed(opened)
  <2>1. PICK outcome \in Outcomes(k) : Handshake(k, past1, outcome) BY <1>3
  <2>2. /\ Client(k) /\ k.host = host /\ k.connectionClient = host
        /\ k.knownClient = s.knownClient /\ k.clientId = s.clientId
        /\ k.connection = s.connection
        /\ s.knownClient => k = opened
        /\ ~s.knownClient => Paired(k)
    BY <1>b, KeyedFacts
  <2> HIDE DEF opened, k
  <2>3. /\ DOMAIN past1 = Memories
        /\ past1.moved = FALSE /\ past1.changed = (past.changed /\ s.knownClient)
        /\ past1.foreign = past.foreign /\ past1.torn = past.torn /\ past1.doomed = past.doomed
    BY <1>a DEF History, Memories
  <2> HIDE DEF past1
  <2>4. History(past1) BY <1>a, <2>3 DEF History
  <2>5. Keyring(k, past1)
    <3>1. CASE s.knownClient
      BY <3>1, <1>b, <2>2, <2>3 DEF Good, Keyring
    <3>2. CASE ~s.knownClient
      BY <3>2, <2>2 DEF Keyring
    <3> QED BY <3>1, <3>2
  <2>6. Ready(k, past1) /\ Settled(k, past1) BY <2>2 DEF Ready, Settled
  <2>7. Stored(k, sessions) BY <2>2 DEF Good, Stored
  <2> QED BY <2>1, <2>2, <2>4, <2>5, <2>6, <2>7, HandshakeGood
<1> QED BY <1>1, <1>2, <1>3 DEF connect_

(* Losing the connection, without or with the dispatcher's end.            *)
LEMMA DisconnectedGood ==
  ASSUME NEW s, NEW p, NEW ss, Good(s, p, ss)
  PROVE  /\ Good([s EXCEPT !.connected = FALSE], p, ss)
         /\ Good([s EXCEPT !.running = FALSE], p, ss)
         /\ Good(Disconnected(s), p, ss)
<1> DEFINE lost == [s EXCEPT !.connected = FALSE]
           ended == [s EXCEPT !.running = FALSE]
           gone == [s EXCEPT !.connected = FALSE, !.running = FALSE]
<1>a. Client(s) BY DEF Good
<1>1. /\ Client(lost) /\ Client(gone) /\ Client(ended)
  BY <1>a DEF Client, Members
<1>2. \A f \in Members \ {"connected", "running"} : 
        lost[f] = s[f] /\ gone[f] = s[f] /\ ended[f] = s[f]
  BY <1>a DEF Client, Members
<1>3. /\ lost.connected = FALSE /\ lost.running = s.running
      /\ gone.connected = FALSE /\ gone.running = FALSE
      /\ ended.connected = s.connected /\ ended.running = FALSE
  BY <1>a DEF Client, Members
<1> HIDE DEF lost, gone, ended
<1>4. Good(lost, p, ss)
  BY <1>1, <1>2, <1>3
  DEF Good, Keyring, Ready, Paired, Settled, Doomed, Belongs, LogsThere, Stored, Members
<1>5. Good(gone, p, ss)
  BY <1>1, <1>2, <1>3
  DEF Good, Keyring, Ready, Paired, Settled, Doomed, Belongs, LogsThere, Stored, Members
<1>6. Good(ended, p, ss)
  BY <1>1, <1>2, <1>3
  DEF Good, Keyring, Ready, Paired, Settled, Doomed, Belongs, LogsThere, Stored, Members
<1> QED BY <1>4, <1>5, <1>6 DEF Disconnected, lost, gone, ended

(* Members that no part of Good is about may change, and the record of     *)
(* errors.                                                                 *)
LEMMA OthersGood ==
  ASSUME NEW s, NEW r, NEW p, NEW q, NEW ss, Good(s, p, ss),
         DOMAIN r = Members, DOMAIN q = Memories,
         \A f \in Members \ {"homepath", "errors"} : r[f] = s[f],
         \A f \in Memories \ {"raised"} : q[f] = p[f]
  PROVE  Good(r, q, ss)
<1>1. Client(r) /\ History(q) BY DEF Good, Client, History, Members, Memories
<1>2. Keyring(r, q) /\ (r.running => Ready(r, q)) /\ Settled(r, q) /\ Doomed(r, q)
  BY DEF Good, Keyring, Ready, Paired, Settled, Doomed, Members, Memories
<1>3. Belongs(r, q, ss) /\ LogsThere(r, q, ss) /\ Stored(r, ss)
  BY DEF Good, Belongs, LogsThere, Stored, Members, Memories
<1> QED BY <1>1, <1>2, <1>3 DEF Good

(* Identity and host changed: what was set anew is remembered.             *)
LEMMA IdentifiedGood ==
  ASSUME NEW s, NEW r, NEW p, NEW q, NEW ss, Good(s, p, ss), Client(r), History(q),
         q.foreign = p.foreign, q.torn = p.torn, q.doomed = p.doomed,
         p.changed => q.changed, p.moved => q.moved,
         r.host # s.host => q.moved,
         \/ q.changed
         \/ /\ r.clientId = s.clientId /\ r.privateKey = s.privateKey
            /\ r.knownClient = s.knownClient /\ r.serverPublicKey = s.serverPublicKey,
         \A f \in {"connected", "running", "publicKey", "connectionClient", "loggingClient",
                    "key", "params", "connection"} : r[f] = s[f]
  PROVE  Good(r, q, ss)
<1>1. Keyring(r, q) /\ (r.running => Ready(r, q))
  BY DEF Good, Keyring, Ready, Paired, History
<1>2. Settled(r, q) /\ Doomed(r, q) BY DEF Good, Settled, Doomed, History
<1>3. Belongs(r, q, ss) /\ LogsThere(r, q, ss) /\ Stored(r, ss)
  BY DEF Good, Belongs, LogsThere, Stored, History
<1> QED BY <1>1, <1>2, <1>3 DEF Good

Untouched == {"connected", "running", "publicKey", "connectionClient", "loggingClient",
              "key", "params", "connection"}

(* What setKnownClient leaves alone.                                       *)
LEMMA SetKnownClientFacts ==
  ASSUME NEW s, NEW client, NEW key, Client(s)
  PROVE  LET r == setKnownClient(s, client, key)
         IN  /\ Client(r) /\ r.host = s.host /\ r.serverPublicKey = s.serverPublicKey
             /\ \A f \in Untouched : r[f] = s[f]
<1> DEFINE r == setKnownClient(s, client, key)
           known == client # None /\ key # None
           assigned == [s EXCEPT !.clientId = client, !.privateKey = key]
<1>1. r = assigned \/ r = [assigned EXCEPT !.knownClient = known] BY DEF setKnownClient
<1>2. known \in BOOLEAN OBVIOUS
<1> HIDE DEF r, known
<1>3. DOMAIN r = Members /\ r.knownClient \in BOOLEAN BY <1>1, <1>2 DEF Client, Members
<1>4. r.host = s.host /\ r.serverPublicKey = s.serverPublicKey BY <1>1 DEF Client, Members
<1>5. \A f \in Untouched : r[f] = s[f] BY <1>1 DEF Client, Members, Untouched
<1>6. Client(r) BY <1>3, <1>4, <1>5 DEF Client, Untouched
<1> QED BY <1>4, <1>5, <1>6 DEF r

(* So does a configuration, which may also move the host.                  *)
LEMMA LoadConfigurationFacts ==
  ASSUME NEW s, NEW j \in Configurations, Client(s)
  PROVE  LET r == loadConfiguration(s, j)
         IN  Client(r) /\ \A f \in Untouched : r[f] = s[f]
<1> DEFINE r == loadConfiguration(s, j)
           hosted == [s EXCEPT !.host = j.host]
           known == IF j.client = None THEN hosted ELSE setKnownClient(hosted, j.client, j.key)
<1>1. /\ Client(hosted) /\ \A f \in Untouched : hosted[f] = s[f]
  BY DEF Client, Members, Untouched, Places
<1>2. /\ Client(known) /\ \A f \in Untouched : known[f] = s[f]
  <2> HIDE DEF hosted
  <2> QED BY <1>1, SetKnownClientFacts
<1>3. \/ r \in {s, hosted, known}
      \/ r = [known EXCEPT !.serverPublicKey = j.serverPublicKey]
  BY DEF loadConfiguration
<1> HIDE DEF hosted, known, r
<1>4. CASE r \in {s, hosted, known} BY <1>1, <1>2, <1>4 DEF r
<1>5. CASE r = [known EXCEPT !.serverPublicKey = j.serverPublicKey]
  <2>1. Client(r) /\ \A f \in Untouched : r[f] = known[f]
    BY <1>2, <1>5 DEF Client, Members, Untouched
  <2> QED BY <2>1, <1>2 DEF r
<1> QED BY <1>3, <1>4, <1>5

(* Once the id is set anew nothing is promised of it.                      *)
LEMMA SetKnownClientGood ==
  ASSUME IInv, SetKnownClient PROVE Good(m', past', sessions)
<1>1. PICK client, key : m' = setKnownClient(m, client, key)
  BY DEF SetKnownClient
<1>2. Client(m) /\ History(past) BY DEF IInv, Good
<1>3. Client(m') /\ m'.host = m.host /\ \A f \in Untouched : m'[f] = m[f]
  BY <1>1, <1>2, SetKnownClientFacts
<1>4. /\ DOMAIN past' = Memories /\ past'.changed = TRUE /\ past'.moved = past.moved
      /\ past'.foreign = past.foreign /\ past'.torn = past.torn /\ past'.doomed = past.doomed
  BY <1>2 DEF SetKnownClient, History, Memories
<1>5. History(past') BY <1>2, <1>4 DEF History
<1> QED BY <1>3, <1>4, <1>5, IdentifiedGood DEF IInv, Untouched

(* A configuration promises what it leaves as it was.                      *)
LEMMA LoadConfigurationGood ==
  ASSUME IInv, LoadConfiguration PROVE Good(m', past', sessions)
<1> DEFINE Anew == \/ m'.clientId # m.clientId \/ m'.privateKey # m.privateKey
                   \/ m'.serverPublicKey # m.serverPublicKey
                   \/ m'.knownClient # m.knownClient
           Elsewhere == m'.host # m.host
<1>1. PICK j \in Configurations :
        /\ m' = loadConfiguration(m, j)
        /\ past' = [past EXCEPT !.changed = past.changed \/ Anew, !.moved = past.moved \/ Elsewhere]
  BY DEF LoadConfiguration
<1>2. Client(m) /\ History(past) BY DEF IInv, Good
<1>3. Client(m') /\ \A f \in Untouched : m'[f] = m[f]
  BY <1>1, <1>2, LoadConfigurationFacts
<1>a. Anew \in BOOLEAN /\ Elsewhere \in BOOLEAN OBVIOUS
<1> HIDE DEF Anew, Elsewhere
<1>4. /\ DOMAIN past' = Memories
      /\ past'.foreign = past.foreign /\ past'.torn = past.torn /\ past'.doomed = past.doomed
  BY <1>1, <1>2 DEF History, Memories
<1>5. past'.changed = (past.changed \/ Anew) /\ past'.moved = (past.moved \/ Elsewhere)
  BY <1>1, <1>2, Zenon DEF History, Memories
<1>6. History(past') BY <1>2, <1>4, <1>5, <1>a DEF History
<1>7. past'.moved \/ m'.host = m.host BY <1>5 DEF Elsewhere
<1>8. \/ past'.changed
      \/ /\ m'.clientId = m.clientId /\ m'.privateKey = m.privateKey
         /\ m'.knownClient = m.knownClient /\ m'.serverPublicKey = m.serverPublicKey
  BY <1>5 DEF Anew
<1>9. (past.changed => past'.changed) /\ (past.moved => past'.moved) BY <1>5
<1> QED BY <1>3, <1>4, <1>6, <1>7, <1>8, <1>9, IdentifiedGood DEF IInv, Untouched

(* A saved connection is loaded, and perhaps renewed at once.              *)
LEMMA LoadConnectionGood ==
  ASSUME IInv, LoadConnection
  PROVE  /\ Good(m', past', sessions') /\ sessions' \in Seq(Sessions)
         /\ Len(sessions) <= Len(sessions')
<1> DEFINE s == IF m.connected THEN m ELSE Opened(m, m.host)
           l == loadConnectionFromJson_(s, file, TRUE)
           o == onConnect(l)
           of == sessions[file]
           other == of.client # m.clientId \/ of.host # s.connectionClient
           was == past.moved /\ m.connected
           past1 == [past EXCEPT !.moved = past.moved /\ m.connected, !.torn = m.connected,
                                 !.foreign = of.client # m.clientId \/ of.host # s.connectionClient]
           past3 == [past1 EXCEPT !.torn = FALSE]
           k == loadConnectionFromJson_(s, file, FALSE)
           Half(c, p) == \E params \in {m.params, file} :
                           /\ c = [s EXCEPT !.key = file, !.params = params]
                           /\ p = [past1 EXCEPT !.foreign = past1.foreign \/ past.foreign]
<1>a. Client(m) /\ History(past) BY DEF IInv, Good
<1>b. /\ Client(s) /\ s.host = m.host /\ (m.connected => s = m)
      /\ ~m.connected => s.connectionClient = m.host
      /\ s.connected = m.connected /\ s.running = m.running
      /\ s.knownClient = m.knownClient /\ s.clientId = m.clientId
      /\ s.publicKey = m.publicKey /\ s.privateKey = m.privateKey
      /\ s.serverPublicKey = m.serverPublicKey /\ s.connection = m.connection
  <2>1. m.host \in Places BY <1>a DEF Client
  <2> QED BY <1>a, <2>1, OpenedFacts
<1>c. file \in 1 .. Len(sessions) /\ of \in Sessions
  BY DEF LoadConnection, IInv
<1>d. of.client \in Granted BY <1>c DEF Sessions
<1>e. other \in BOOLEAN /\ was \in BOOLEAN OBVIOUS
<1>f. past1 = [past EXCEPT !.moved = was, !.torn = m.connected, !.foreign = other] OBVIOUS
<1>g. m.connected => Settled(m, past) BY DEF IInv, Good
<1>h. Keyring(s, past) BY <1>b DEF IInv, Good, Keyring, Paired
<1>i. m.connected => (was <=> past.moved) OBVIOUS
<1>j. ~m.connected => ~was OBVIOUS
<1>k. ~other => of.client = m.clientId /\ of.host = s.connectionClient OBVIOUS
<1>l. sessions \in Seq(Sessions) BY DEF IInv
<1>m. m.clientId = None => other BY <1>d, NotNone
<1>n. \/ m' = s /\ past' = [past EXCEPT !.moved = was] /\ UNCHANGED sessions
      \/ Half(m', past') /\ UNCHANGED sessions
      \/ m' = k /\ past' = past1 /\ UNCHANGED sessions
      \/ /\ \E e : m' = [k EXCEPT !.errors = e]
         /\ \E e : past' = [past1 EXCEPT !.raised = e]
         /\ UNCHANGED sessions
      \/ m' = o /\ past' = past3 /\ UNCHANGED sessions
      \/ \E outcome \in Outcomes(l) : Handshake(o, past3, outcome)
  BY DEF LoadConnection
<1>o. Outcomes(o) = Outcomes(l)
  BY <1>b, LoadedFacts DEF Outcomes, Recognised, Readable, onConnect, Client, Members
<1> HIDE DEF s, other, was, past1, of
<1>p. /\ DOMAIN past1 = Memories /\ past1.moved = was /\ past1.torn = m.connected
      /\ past1.foreign = other /\ past1.changed = past.changed /\ past1.doomed = past.doomed
  BY <1>a, <1>f DEF History, Memories
<1> HIDE DEF past1
<1>q. /\ DOMAIN past3 = Memories /\ past3.moved = was /\ past3.torn = FALSE
      /\ past3.foreign = other /\ past3.changed = past.changed /\ past3.doomed = past.doomed
  BY <1>p DEF Memories
<1>r. History(past3) BY <1>q, <1>a, <1>e DEF History
<1>s. /\ Client(l) /\ l.host = s.host /\ l.connectionClient = s.connectionClient
      /\ l.connected
      /\ l.knownClient = s.knownClient /\ l.clientId = s.clientId
      /\ l.publicKey = s.publicKey /\ l.privateKey = s.privateKey
      /\ l.serverPublicKey = s.serverPublicKey
      /\ l.key = file /\ l.params = file /\ l.loggingClient = s.host /\ l.connection = file
  <2>1. Client(s) BY <1>b
  <2>2. Client(l) /\ l.connected BY <2>1, LoadedFacts
  <2>3. l.host = s.host /\ l.connectionClient = s.connectionClient BY <2>1, LoadedFacts
  <2>4. l.knownClient = s.knownClient /\ l.clientId = s.clientId BY <2>1, LoadedFacts
  <2>5. l.publicKey = s.publicKey /\ l.privateKey = s.privateKey BY <2>1, LoadedFacts
  <2>6. l.serverPublicKey = s.serverPublicKey /\ l.loggingClient = s.host BY <2>1, LoadedFacts
  <2>7. l.key = file /\ l.params = file /\ l.connection = file BY <2>1, LoadedFacts
  <2> HIDE DEF l
  <2> QED BY <2>2, <2>3, <2>4, <2>5, <2>6, <2>7
<1> HIDE DEF l, past3
<1>t. /\ Client(o) /\ o.host = s.host /\ o.connectionClient = s.connectionClient
      /\ o.connected
      /\ o.knownClient = s.knownClient /\ o.clientId = s.clientId
      /\ o.publicKey = s.publicKey /\ o.privateKey = s.privateKey
      /\ o.serverPublicKey = s.serverPublicKey
      /\ o.key = file /\ o.params = file /\ o.loggingClient = s.host /\ o.connection = file
  BY <1>s DEF onConnect, Client, Members
<1> HIDE DEF o
<1>u. Keyring(o, past3) BY <1>h, <1>q, <1>t DEF Keyring, Paired
<1>v. Ready(o, past3)
  BY <1>h, <1>q, <1>t, <1>b, <1>m DEF Keyring, Ready, Paired
<1>w. Settled(o, past3) BY <1>g, <1>i, <1>q, <1>t, <1>b DEF Settled
<1>1. CASE m' = s /\ past' = [past EXCEPT !.moved = was] /\ UNCHANGED sessions
  <2>1. /\ DOMAIN past' = Memories /\ past'.moved = was /\ past'.changed = past.changed
        /\ past'.foreign = past.foreign /\ past'.torn = past.torn /\ past'.doomed = past.doomed
    BY <1>1, <1>a DEF History, Memories
  <2>2. History(past') BY <2>1, <1>a, <1>e DEF History
  <2>3. Keyring(m', past') /\ (m'.running => Ready(m', past'))
    BY <1>1, <1>b, <2>1 DEF IInv, Good, Keyring, Ready, Paired
  <2>4. Settled(m', past') BY <1>1, <1>b, <1>g, <1>i, <2>1 DEF Settled
  <2>7. Doomed(m', past') BY <1>1, <1>b, <2>1 DEF IInv, Good, Doomed
  <2>6. Stored(m', sessions') BY <1>1, <1>b DEF IInv, Good, Stored
  <2>5. Belongs(m', past', sessions') /\ LogsThere(m', past', sessions')
    <3>1. CASE ~m.connected BY <3>1, <1>1, <1>b DEF Belongs, LogsThere
    <3>2. CASE m.connected
      <4>1. m' = m /\ sessions' = sessions /\ past'.moved = past.moved
        BY <3>2, <1>1, <1>a, <1>b, <1>i, <2>1, <1>e DEF History
      <4> QED BY <4>1, <2>1 DEF IInv, Good, Belongs, LogsThere
    <3> QED BY <3>1, <3>2
  <2> QED BY <1>1, <1>b, <1>l, <2>2, <2>3, <2>4, <2>5, <2>6, <2>7 DEF Good
<1>x. /\ Client(k) /\ k.host = s.host /\ k.connectionClient = s.connectionClient
      /\ k.connected = s.connected /\ k.running = s.running
      /\ k.knownClient = s.knownClient /\ k.clientId = s.clientId
      /\ k.publicKey = s.publicKey /\ k.privateKey = s.privateKey
      /\ k.serverPublicKey = s.serverPublicKey
      /\ k.key = file /\ k.params = file /\ k.loggingClient = s.host
      /\ k.connection = s.connection
  BY <1>b, HalfLoadedFacts
<1> HIDE DEF k
<1>y. Good(k, past1, sessions)
  <2>4. History(past1) BY <1>p, <1>a, <1>e DEF History, Client
  <2>5. Keyring(k, past1) BY <1>h, <1>p, <1>x DEF Keyring, Paired
  <2>6. Ready(k, past1) BY <1>h, <1>p, <1>x, <1>b, <1>m DEF Keyring, Ready, Paired
  <2>7. Settled(k, past1) BY <1>g, <1>i, <1>p, <1>x, <1>b DEF Settled
  <2>8. Doomed(k, past1) BY <1>p, <1>x, <1>b, <1>m DEF IInv, Good, Doomed
  <2>9. Belongs(k, past1, sessions) BY <1>c, <1>k, <1>p, <1>b, <1>x DEF Belongs, of
  <2>10. LogsThere(k, past1, sessions)
    BY <1>b, <1>g, <1>i, <1>k, <1>p, <1>x DEF LogsThere, Settled, of
  <2>14. Stored(k, sessions) BY <1>b, <1>x DEF IInv, Good, Stored
  <2> QED BY <2>14, <1>x, <2>4, <2>5, <2>6, <2>7, <2>8, <2>9, <2>10 DEF Good
<1>2. CASE /\ \E e : m' = [k EXCEPT !.errors = e]
           /\ \E e : past' = [past1 EXCEPT !.raised = e]
           /\ UNCHANGED sessions
  <2>1. PICK e : m' = [k EXCEPT !.errors = e] BY <1>2
  <2>2. PICK e2 : past' = [past1 EXCEPT !.raised = e2] BY <1>2
  <2>3. /\ DOMAIN m' = Members /\ DOMAIN past' = Memories
        /\ \A f \in Members \ {"homepath", "errors"} : m'[f] = k[f]
        /\ \A f \in Memories \ {"raised"} : past'[f] = past1[f]
    BY <1>x, <2>1, <2>2, <1>p DEF Client, Members, Memories
  <2>4. Good(m', past', sessions) BY <1>y, <2>3, OthersGood
  <2> QED BY <2>4, <1>2, <1>l
<1>5. CASE Half(m', past') /\ UNCHANGED sessions
  <2> DEFINE f == past1.foreign \/ past.foreign
  <2>1. PICK params \in {m.params, file} :
          /\ m' = [s EXCEPT !.key = file, !.params = params]
          /\ past' = [past1 EXCEPT !.foreign = f]
    BY <1>5
  <2>2. /\ DOMAIN m' = Members /\ m'.host = s.host /\ m'.connectionClient = s.connectionClient
        /\ m'.connected = s.connected /\ m'.running = s.running
        /\ m'.knownClient = s.knownClient /\ m'.clientId = s.clientId
        /\ m'.publicKey = s.publicKey /\ m'.privateKey = s.privateKey
        /\ m'.serverPublicKey = s.serverPublicKey /\ m'.connection = s.connection
        /\ m'.loggingClient = s.loggingClient /\ m'.key = file /\ m'.params = params
    BY <2>1, <1>b DEF Client, Members
  <2>3. f \in BOOLEAN /\ (f <=> other \/ past.foreign) BY <1>p, Zenon
  <2> HIDE DEF f
  <2>4. /\ DOMAIN past' = Memories /\ past'.moved = was /\ past'.torn = m.connected
        /\ past'.foreign = f /\ past'.changed = past.changed /\ past'.doomed = past.doomed
    BY <2>1, <1>p DEF Memories
  <2>5. Client(m') BY <2>2, <1>b DEF Client
  <2>6. History(past') BY <2>4, <2>3, <1>a, <1>e DEF History, Client
  <2>7. Keyring(m', past') BY <1>h, <2>2, <2>4 DEF Keyring, Paired
  <2>8. Ready(m', past')
    BY <1>h, <2>2, <2>3, <2>4, <1>b, <1>m DEF Keyring, Ready, Paired
  <2>9. Settled(m', past') BY <1>g, <1>i, <2>2, <2>4, <1>b DEF Settled
  <2>10. Doomed(m', past') BY <2>2, <2>3, <2>4, <1>b DEF IInv, Good, Doomed
  <2>11. Stored(m', sessions) BY <1>b, <2>2 DEF IInv, Good, Stored
  <2>12. Belongs(m', past', sessions)
    <3>1. SUFFICES ASSUME m.connected PROVE Belongs(m', past', sessions)
      BY <1>b, <2>2 DEF Belongs
    <3>2. params \in 1 .. Len(sessions) BY <3>1, <1>c DEF IInv, Good, Belongs
    <3>3. past'.torn BY <3>1, <2>4
    <3>4. past'.foreign \/ sessions[m'.key].client = m'.clientId
      BY <1>b, <1>k, <2>2, <2>3, <2>4 DEF of
    <3> QED BY <2>2, <3>2, <3>3, <3>4 DEF Belongs
  <2>13. LogsThere(m', past', sessions)
    <3>1. SUFFICES ASSUME m.connected, ~past.moved, ~past.foreign, ~other
                   PROVE  LogsThere(m', past', sessions)
      BY <1>b, <1>i, <2>2, <2>3, <2>4 DEF LogsThere
    <3>2. s = m /\ m.loggingClient = m.connectionClient /\ m.loggingClient = sessions[m.params].host
      BY <3>1, <1>b DEF IInv, Good, LogsThere
    <3>3. sessions[file].host = m.connectionClient BY <3>1, <3>2, <1>k DEF of
    <3> QED BY <2>2, <3>2, <3>3 DEF LogsThere
  <2> QED BY <1>5, <1>l, <2>5, <2>6, <2>7, <2>8, <2>9, <2>10, <2>11, <2>12, <2>13 DEF Good
<1>6. CASE m' = k /\ past' = past1 /\ UNCHANGED sessions BY <1>6, <1>y, <1>l
<1>3. CASE m' = o /\ past' = past3 /\ UNCHANGED sessions
  <2>1. Doomed(o, past3) BY <1>q, <1>t, <1>b, <1>m DEF IInv, Good, Doomed
  <2>2. Belongs(o, past3, sessions) BY <1>c, <1>k, <1>q, <1>t, <1>b DEF Belongs, of
  <2>3. LogsThere(o, past3, sessions)
    BY <1>b, <1>g, <1>i, <1>k, <1>q, <1>t DEF LogsThere, Settled, of
  <2>5. Stored(o, sessions) BY <1>c, <1>t DEF Stored
  <2>4. Good(o, past3, sessions)
    BY <2>5, <1>r, <1>t, <1>u, <1>v, <1>w, <2>1, <2>2, <2>3 DEF Good
  <2> QED BY <2>4, <1>3, <1>l
<1>4. CASE \E outcome \in Outcomes(l) : Handshake(o, past3, outcome)
  <2>1. PICK outcome \in Outcomes(o) : Handshake(o, past3, outcome) BY <1>4, <1>o DEF o
  <2>2. Stored(o, sessions) BY <1>c, <1>t DEF Stored
  <2> QED BY <2>1, <2>2, <1>l, <1>r, <1>t, <1>u, <1>v, <1>w, HandshakeGood
<1> QED BY <1>n, <1>1, <1>2, <1>3, <1>4, <1>5, <1>6

-----------------------------------------------------------------------------
(* Every call keeps it.                                                    *)
LEMMA NextGood == ASSUME IInv, [Next]_vars PROVE IInv'
<1>a. /\ Good(m, past, sessions) /\ sessions \in Seq(Sessions) /\ file \in 0 .. Len(sessions)
  BY DEF IInv
<1>b. Client(m) /\ History(past) /\ m.host \in Places /\ Hosts \subseteq Places
  BY <1>a DEF Good, Client, Places
<1>c. ASSUME Good(m', past', sessions'), sessions' \in Seq(Sessions),
             Len(sessions) <= Len(sessions'), UNCHANGED file
      PROVE  IInv'
  BY <1>a, <1>c DEF IInv
<1>1. CASE Connect
  BY <1>1, <1>a, <1>b, <1>c, ConnectGood DEF Connect
<1>2. CASE Disconnect
  <2>1. m' = Disconnected(m) /\ UNCHANGED <<sessions, past, file>>
    BY <1>2 DEF Disconnect, Keep
  <2>2. Good(m', past, sessions) BY <2>1, <1>a, DisconnectedGood
  <2> QED BY <2>1, <2>2, <1>a, <1>c
<1>3. CASE Reconnect
  <2>1. PICK host \in Places : connect_(Disconnected(m), host) /\ UNCHANGED file
    BY <1>3, <1>b DEF Reconnect
  <2>2. Good(Disconnected(m), past, sessions) BY <1>a, DisconnectedGood
  <2> QED BY <2>1, <2>2, <1>a, <1>c, ConnectGood
<1>4. CASE Renew
  <2>1. PICK outcome \in Outcomes(m) : Handshake(m, past, outcome) BY <1>4 DEF Renew
  <2> QED BY <2>1, <1>4, <1>a, <1>b, <1>c, HandshakeGood DEF Renew, Good
<1>5. CASE TouchRefused
  <2>1. PICK e1, e2 : /\ m' = [m EXCEPT !.errors = e1] /\ past' = [past EXCEPT !.raised = e2]
                      /\ UNCHANGED <<sessions, file>>
    BY <1>5 DEF TouchRefused
  <2>2. /\ DOMAIN m' = Members /\ DOMAIN past' = Memories
        /\ \A f \in Members \ {"homepath", "errors"} : m'[f] = m[f]
        /\ \A f \in Memories \ {"raised"} : past'[f] = past[f]
    BY <2>1, <1>b DEF Client, History, Members, Memories
  <2> QED BY <2>1, <2>2, <1>a, <1>c, OthersGood
<1>6. CASE DispatcherConnects
  <2>1. LOCALHOST \in Places BY <1>b, SettingsAssumption
  <2>2. Good([m EXCEPT !.connected = FALSE], past, sessions) BY <1>a, DisconnectedGood
  <2> QED BY <2>1, <2>2, <1>6, <1>a, <1>c, ConnectGood DEF DispatcherConnects
<1>7. CASE DispatcherEnds
  <2>1. m' = [m EXCEPT !.running = FALSE] /\ UNCHANGED <<sessions, past, file>>
    BY <1>7 DEF DispatcherEnds, Keep
  <2>2. Good(m', past, sessions) BY <2>1, <1>a, DisconnectedGood
  <2> QED BY <2>1, <2>2, <1>a, <1>c
<1>8. CASE SetKnownClient
  BY <1>8, <1>a, <1>c, SetKnownClientGood DEF SetKnownClient
<1>9. CASE SetResidueHomePath
  <2>1. m' = [m EXCEPT !.homepath = TRUE] /\ UNCHANGED <<sessions, past, file>>
    BY <1>9 DEF SetResidueHomePath, Keep
  <2>2. DOMAIN m' = Members /\ \A f \in Members \ {"homepath", "errors"} : m'[f] = m[f]
    BY <2>1, <1>b DEF Client, Members
  <2>3. DOMAIN past = Memories BY <1>b DEF History
  <2>4. Good(m', past, sessions) BY <2>2, <2>3, <1>a, OthersGood
  <2> QED BY <2>1, <2>4, <1>a, <1>c
<1>10. CASE LoadConfiguration
  <2>1. UNCHANGED <<sessions, file>> BY <1>10 DEF LoadConfiguration
  <2>2. Good(m', past', sessions) BY <1>10, LoadConfigurationGood
  <2> QED BY <2>1, <2>2, <1>a, <1>c
<1>11. CASE SaveConnection
  <2>1. file' = m.connection /\ UNCHANGED <<m, sessions, past>> BY <1>11 DEF SaveConnection
  <2>2. file' \in 0 .. Len(sessions) BY <2>1, <1>a DEF Good, Stored
  <2> QED BY <2>1, <2>2, <1>a DEF IInv
<1>12. CASE LoadConnection
  BY <1>12, <1>a, <1>c, LoadConnectionGood DEF LoadConnection
<1>13. CASE Restart
  <2>1. m' = Fresh /\ past' = NoPast /\ UNCHANGED <<sessions, file>> BY <1>13 DEF Restart
  <2> QED BY <2>1, <1>a, FreshGood DEF IInv
<1>14. CASE UNCHANGED vars
  BY <1>14, <1>a DEF vars, IInv
<1> QED BY <1>1, <1>2, <1>3, <1>4, <1>5, <1>6, <1>7, <1>8, <1>9, <1>10, <1>11, <1>12,
           <1>13, <1>14 DEF Next

(* The servers grant and the client keeps as IInv says, whatever calls are *)
(* made in whatever order (residue.cc): the inductive invariant.           *)
THEOREM Settings == Spec => []IInv
<1>1. Init => IInv
  <2> SUFFICES ASSUME Init PROVE IInv OBVIOUS
  <2>1. m = Fresh /\ past = NoPast /\ sessions = <<>> /\ file = 0 BY DEF Init
  <2>2. sessions \in Seq(Sessions) /\ Len(sessions) = 0 BY <2>1
  <2>3. Good(Fresh, NoPast, sessions) BY <2>2, FreshGood
  <2>4. Good(m, past, sessions) BY <2>1, <2>3
  <2>5. file \in 0 .. Len(sessions) BY <2>1, <2>2
  <2> QED BY <2>2, <2>4, <2>5 DEF IInv
<1>2. IInv /\ [Next]_vars => IInv' BY NextGood
<1> QED BY <1>1, <1>2, PTL DEF Spec

-----------------------------------------------------------------------------
(* The list of errors: what was raised since the last handshake began, up  *)
(* to the number that addError leaves.                                     *)
Problems == {"connect", "mismatch", "rejected", "privateKey", "ack", "ackRejected",
             "logging", "touch"}
Listed(s, p) == p.raised \in Seq(Problems) /\ s.errors = Latest(p.raised, kErrors + 1)
ListedInv == Listed(m, past)

LEMMA MinOfTwo ==
  ASSUME NEW a \in Int, NEW b \in Int PROVE Min({a, b}) = IF a <= b THEN a ELSE b
<1> DEFINE lower == IF a <= b THEN a ELSE b
<1>1. lower \in {a, b} /\ \A y \in {a, b} : lower <= y OBVIOUS
<1>2. \A x \in {a, b} : (\A y \in {a, b} : x <= y) => x = lower OBVIOUS
<1> HIDE DEF lower
<1>3. Min({a, b}) \in {a, b} /\ \A y \in {a, b} : Min({a, b}) <= y BY <1>1 DEF Min
<1> QED BY <1>2, <1>3 DEF lower

(* The latest n of a list: all of it where it is no longer than n.         *)
LEMMA LatestFacts ==
  ASSUME NEW S, NEW s \in Seq(S), NEW n \in Nat
  PROVE  /\ Len(s) <= n => Latest(s, n) = s
         /\ Len(s) >= n => Latest(s, n) = SubSeq(s, Len(s) - n + 1, Len(s))
<1> DEFINE l == Len(s)
           lower == Min({l, n})
<1>a. l \in Nat OBVIOUS
<1>1. Latest(s, n) = SubSeq(s, l - lower + 1, l) BY DEF Latest
<1>2. lower = IF l <= n THEN l ELSE n BY MinOfTwo, <1>a
<1>3. SubSeq(s, 1, l) = s OBVIOUS
<1> HIDE DEF l, lower
<1>4. l <= n => l - lower + 1 = 1 BY <1>2, <1>a
<1>5. l >= n => l - lower + 1 = l - n + 1 BY <1>2, <1>a
<1>6. (l <= n => Latest(s, n) = s) /\ (l >= n => Latest(s, n) = SubSeq(s, l - n + 1, l))
  BY <1>1, <1>3, <1>4, <1>5
<1> QED BY <1>6 DEF l

(* Of a list that is longer than k the latest k + 1 without the first, and *)
(* one more, are the latest k + 1 of the list with it.                     *)
LEMMA LatestMove ==
  ASSUME NEW S, NEW s \in Seq(S), NEW e \in S, NEW k \in Nat, Len(s) > k
  PROVE  LET kept == SubSeq(s, Len(s) - k, Len(s))
         IN  /\ Len(kept) = k + 1
             /\ Append(SubSeq(kept, 2, k + 1), e) = SubSeq(Append(s, e), Len(s) - k + 1, Len(s) + 1)
<1> DEFINE l == Len(s)
           a == Append(s, e)
           kept == SubSeq(s, l - k, l)
           trimmed == SubSeq(kept, 2, k + 1)
           latest == SubSeq(a, l - k + 1, l + 1)
<1>1. l \in Nat /\ l > k /\ \A i \in 1 .. l : s[i] \in S OBVIOUS
<1>2. /\ a \in Seq(S) /\ Len(a) = l + 1 /\ a[l + 1] = e
      /\ \A i \in 1 .. l : a[i] = s[i] /\ a[i] \in S
  <2>1. /\ a \in Seq(S) /\ Len(a) = Len(s) + 1 /\ a[Len(s) + 1] = e
        /\ \A i \in 1 .. Len(s) : a[i] = s[i]
    BY AppendProperties
  <2> QED BY <2>1, <1>1
<1> HIDE DEF l, a
<1>3. \A i \in l - k .. l : s[i] \in S BY <1>1
<1>4. /\ kept \in Seq(S) /\ Len(kept) = k + 1
      /\ \A i \in 1 .. k + 1 : kept[i] = s[l - k + i - 1]
  <2>1. l - k \in Int /\ l \in Int BY <1>1
  <2>2. /\ kept \in Seq(S) /\ Len(kept) = IF l - k <= l THEN l - (l - k) + 1 ELSE 0
        /\ \A i \in 1 .. l - (l - k) + 1 : kept[i] = s[l - k + i - 1]
    BY <1>3, <2>1, SubSeqProperties
  <2>3. l - (l - k) + 1 = k + 1 /\ l - k <= l BY <1>1
  <2> QED BY <2>2, <2>3
<1> HIDE DEF kept
<1>5. /\ trimmed \in Seq(S) /\ Len(trimmed) = k
      /\ \A i \in 1 .. k : trimmed[i] = kept[i + 1]
  <2>1. \A i \in 2 .. k + 1 : kept[i] \in S BY <1>4
  <2>2. /\ trimmed \in Seq(S) /\ Len(trimmed) = IF 2 <= k + 1 THEN k + 1 - 2 + 1 ELSE 0
        /\ \A i \in 1 .. k + 1 - 2 + 1 : trimmed[i] = kept[2 + i - 1]
    BY <2>1, SubSeqProperties
  <2> QED BY <2>2
<1>6. /\ latest \in Seq(S) /\ Len(latest) = k + 1
      /\ \A i \in 1 .. k + 1 : latest[i] = a[l - k + i]
  <2> DEFINE x == l - k + 1
             y == l + 1
  <2>1. x \in Int /\ y \in Int /\ \A i \in x .. y : a[i] \in S BY <1>1, <1>2
  <2>2. y - x + 1 = k + 1 /\ x <= y /\ \A i \in 1 .. k + 1 : x + i - 1 = l - k + i BY <1>1
  <2>3. latest = SubSeq(a, x, y) OBVIOUS
  <2> HIDE DEF x, y, latest
  <2>4. /\ SubSeq(a, x, y) \in Seq(S)
        /\ Len(SubSeq(a, x, y)) = IF x <= y THEN y - x + 1 ELSE 0
        /\ \A i \in 1 .. y - x + 1 : SubSeq(a, x, y)[i] = a[x + i - 1]
    BY <2>1, SubSeqProperties
  <2> QED BY <2>2, <2>3, <2>4
<1> HIDE DEF trimmed, latest
<1>7. \A i \in 1 .. k : trimmed[i] = latest[i]
  <2> TAKE i \in 1 .. k
  <2>1. i + 1 \in 1 .. k + 1 /\ i \in 1 .. k + 1 /\ l - k + i \in 1 .. l BY <1>1
  <2>2. l - k + (i + 1) - 1 = l - k + i BY <1>1
  <2> QED BY <2>1, <2>2, <1>2, <1>4, <1>5, <1>6
<1>8. latest[k + 1] = e
  <2>1. k + 1 \in 1 .. k + 1 /\ l - k + (k + 1) = l + 1 BY <1>1
  <2>2. latest[k + 1] = a[l - k + (k + 1)] BY <2>1, <1>6
  <2> QED BY <2>1, <2>2, <1>2
<1> DEFINE grown == Append(trimmed, e)
<1>9. /\ grown \in Seq(S) /\ Len(grown) = k + 1 /\ grown[k + 1] = e
      /\ \A i \in 1 .. k : grown[i] = trimmed[i]
  <2>1. /\ grown \in Seq(S) /\ Len(grown) = Len(trimmed) + 1 /\ grown[Len(trimmed) + 1] = e
        /\ \A i \in 1 .. Len(trimmed) : grown[i] = trimmed[i]
    BY <1>5, AppendProperties
  <2> QED BY <2>1, <1>5
<1> HIDE DEF grown
<1>10. \A i \in 1 .. k + 1 : grown[i] = latest[i]
  <2> TAKE i \in 1 .. k + 1
  <2>1. CASE i = k + 1 BY <2>1, <1>8, <1>9
  <2>2. CASE i # k + 1
    <3>1. i \in 1 .. k BY <2>2
    <3> QED BY <3>1, <1>7, <1>9
  <2> QED BY <2>1, <2>2
<1>11. grown = latest BY <1>6, <1>9, <1>10, SeqEqual
<1> QED BY <1>4, <1>11 DEF grown, trimmed, latest, kept, l, a

(* An error that is added is the last of the latest (Residue::addError).   *)
LEMMA AddedIsLatest ==
  ASSUME NEW S, NEW s \in Seq(S), NEW e \in S
  PROVE  addError(Latest(s, kErrors + 1), e) = Latest(Append(s, e), kErrors + 1)
<1> DEFINE a == Append(s, e)
           l == Len(s)
<1>a. kErrors \in Nat /\ kErrors + 1 \in Nat BY SettingsAssumption
<1>b. a \in Seq(S) /\ Len(a) = l + 1 /\ l \in Nat BY AppendProperties
<1>1. CASE l <= kErrors
  <2>1. Latest(s, kErrors + 1) = s BY <1>1, <1>a, LatestFacts
  <2>2. l + 1 <= kErrors + 1 BY <1>1, <1>a, <1>b
  <2> HIDE DEF a
  <2>3. Latest(a, kErrors + 1) = a BY <2>2, <1>a, <1>b, LatestFacts
  <2>4. ~(l > kErrors) BY <1>1, <1>a, <1>b
  <2>5. addError(s, e) = Append(s, e) BY <2>4 DEF addError
  <2> QED BY <2>1, <2>3, <2>5 DEF a
<1>2. CASE l > kErrors
  <2> DEFINE kept == SubSeq(s, l - kErrors, l)
             latest == SubSeq(a, l - kErrors + 1, l + 1)
  <2>1. /\ Len(kept) = kErrors + 1
        /\ Append(SubSeq(kept, 2, kErrors + 1), e) = latest
    BY <1>2, <1>a, LatestMove
  <2> HIDE DEF l, a
  <2>2. /\ l >= kErrors + 1 /\ l - (kErrors + 1) + 1 = l - kErrors
        /\ l + 1 >= kErrors + 1 /\ l + 1 - (kErrors + 1) + 1 = l - kErrors + 1
    BY <1>2, <1>a, <1>b
  <2>3. Latest(s, kErrors + 1) = SubSeq(s, l - (kErrors + 1) + 1, l)
    BY <2>2, <1>a, LatestFacts DEF l
  <2>4. Latest(a, kErrors + 1) = SubSeq(a, l + 1 - (kErrors + 1) + 1, l + 1)
    BY <2>2, <1>a, <1>b, LatestFacts
  <2>5. Latest(s, kErrors + 1) = kept /\ Latest(a, kErrors + 1) = latest
    BY <2>2, <2>3, <2>4
  <2> HIDE DEF kept, latest
  <2>6. Len(kept) > kErrors /\ Len(kept) - kErrors + 1 = 2 BY <2>1, <1>a
  <2>7. addError(kept, e) = Append(SubSeq(kept, 2, kErrors + 1), e)
    BY <2>1, <2>6 DEF addError
  <2> QED BY <2>1, <2>5, <2>7 DEF a
<1>3. l <= kErrors \/ l > kErrors BY <1>a, <1>b
<1> QED BY <1>1, <1>2, <1>3

(* So are the errors of a handshake, of which there are three at most.     *)
LEMMA RecordedIsLatest ==
  ASSUME NEW S, NEW raised \in Seq(S), Len(raised) <= 3
  PROVE  Recorded(raised) = Latest(raised, kErrors + 1)
<1> DEFINE l == Len(raised)
           Upto(n) == Latest(SubSeq(raised, 1, n), kErrors + 1)
           Step(f) == [n \in 0 .. l |-> IF n = 0 THEN <<>> ELSE addError(f[n - 1], raised[n])]
           latest == [n \in 0 .. l |-> Upto(n)]
           list == CHOOSE f : f = Step(f)
<1>a. l \in Nat /\ kErrors + 1 \in Nat BY SettingsAssumption
<1>1. Recorded(raised) = list[l] BY DEF Recorded
<1>2. Upto(0) = <<>>
  <2>1. SubSeq(raised, 1, 0) = <<>> BY SubSeqEmpty
  <2>2. <<>> \in Seq(S) /\ Len(<<>>) <= kErrors + 1 BY <1>a
  <2>3. Latest(<<>>, kErrors + 1) = <<>> BY <2>2, <1>a, LatestFacts
  <2> QED BY <2>1, <2>3
<1>3. ASSUME NEW n \in 1 .. l PROVE Upto(n) = addError(Upto(n - 1), raised[n])
  <2> DEFINE before == SubSeq(raised, 1, n - 1)
  <2>1. before \in Seq(S) /\ raised[n] \in S BY <1>3, <1>a
  <2>2. SubSeq(raised, 1, n) = Append(before, raised[n])
    <3>1. 1 \in 1 .. l /\ n \in 1 .. l BY <1>3, <1>a
    <3>2. SubSeq(raised, 1, n) = before \o <<raised[n]>> BY <3>1, SubSeqRecursiveSecond
    <3>3. Append(before, raised[n]) = before \o <<raised[n]>> BY <2>1, AppendIsConcat
    <3> QED BY <3>2, <3>3
  <2> HIDE DEF before
  <2>3. addError(Latest(before, kErrors + 1), raised[n]) = Latest(Append(before, raised[n]), kErrors + 1)
    BY <2>1, AddedIsLatest
  <2> QED BY <2>2, <2>3 DEF before
<1>4. Upto(l) = Latest(raised, kErrors + 1) BY SubSeqFull
<1>b. l \in {0, 1, 2, 3}
  <2>1. l <= 3 OBVIOUS
  <2> HIDE DEF l
  <2> QED BY <2>1, <1>a
<1> HIDE DEF Upto
<1>5. latest = Step(latest)
  <2>1. \A n \in 0 .. l : latest[n] = IF n = 0 THEN <<>> ELSE addError(latest[n - 1], raised[n])
    <3> TAKE n \in 0 .. l
    <3>1. CASE n = 0 BY <3>1, <1>2
    <3>2. CASE n # 0
      <4>1. n \in 1 .. l /\ n - 1 \in 0 .. l BY <3>2, <1>a
      <4> QED BY <4>1, <3>2, <1>3
    <3> QED BY <3>1, <3>2
  <2> QED BY <2>1
<1> HIDE DEF latest
<1>6. list = Step(list) BY <1>5
<1> HIDE DEF list, l
<1>7. \A n \in 0 .. l : list[n] = IF n = 0 THEN <<>> ELSE addError(list[n - 1], raised[n])
  BY <1>6
<1>8. list[0] = Upto(0) BY <1>2, <1>7, <1>a
<1>9. ASSUME NEW n \in 1 .. l, list[n - 1] = Upto(n - 1) PROVE list[n] = Upto(n)
  <2>1. n \in 0 .. l /\ n # 0 BY <1>a
  <2> QED BY <2>1, <1>3, <1>7, <1>9
<1>10. l >= 1 => list[1] = Upto(1) BY <1>8, <1>9, <1>a
<1>11. l >= 2 => list[2] = Upto(2) BY <1>9, <1>10, <1>a
<1>12. l >= 3 => list[3] = Upto(3) BY <1>9, <1>11, <1>a
<1>13. list[l] = Upto(l) BY <1>8, <1>10, <1>11, <1>12, <1>b
<1> QED BY <1>1, <1>4, <1>13 DEF l

(* Lists of three at most.                                                 *)
LEMMA ShortSeqs ==
  ASSUME NEW S
  PROVE  /\ <<>> \in Seq(S) /\ Len(<<>>) = 0
         /\ \A x \in S : <<x>> \in Seq(S) /\ Len(<<x>>) = 1
         /\ \A x, y \in S : <<x, y>> \in Seq(S) /\ Len(<<x, y>>) = 2
         /\ \A x, y, z \in S : <<x, y, z>> \in Seq(S) /\ Len(<<x, y, z>>) = 3
OBVIOUS

(* What comes of a handshake is three errors at most.                      *)
LEMMA ErrorsFew ==
  ASSUME NEW outcome PROVE Errors(outcome) \in Seq(Problems) /\ Len(Errors(outcome)) <= 3
<1> DEFINE e == Errors(outcome)
<1> SUFFICES e \in Seq(Problems) /\ Len(e) <= 3 OBVIOUS
<1> HIDE DEF e
<1>p. /\ "connect" \in Problems /\ "mismatch" \in Problems /\ "rejected" \in Problems
      /\ "privateKey" \in Problems /\ "ack" \in Problems /\ "ackRejected" \in Problems
      /\ "logging" \in Problems
  BY DEF Problems
<1> DEFINE few == {<<"connect", "connect">>, <<"connect">>, <<"mismatch", "connect">>,
                   <<"rejected", "connect">>, <<"privateKey", "connect">>,
                   <<"ack", "ack", "connect">>, <<"ackRejected">>, <<"ack", "connect">>,
                   <<"logging", "ack", "connect">>, <<>>}
<1>1. e \in few BY DEF e, Errors
<1>2. \A q \in few : q \in Seq(Problems) /\ Len(q) <= 3
  <2> DEFINE Short(q) == q \in Seq(Problems) /\ Len(q) <= 3
  <2>1. Short(<<>>) /\ \A x \in Problems : Short(<<x>>) BY ShortSeqs
  <2>2. \A x, y \in Problems : Short(<<x, y>>) BY ShortSeqs
  <2>3. \A x, y, z \in Problems : Short(<<x, y, z>>) BY ShortSeqs
  <2> HIDE DEF Short
  <2>4. \A q \in few : Short(q) BY <2>1, <2>2, <2>3, <1>p, Zenon
  <2> QED BY <2>4 DEF Short
<1> HIDE DEF few
<1> QED BY <1>1, <1>2

(* Nothing raised, nothing listed.                                         *)
LEMMA NothingListed ==
  ASSUME NEW s, NEW p, s.errors = <<>>, p.raised = <<>> PROVE Listed(s, p)
<1>1. <<>> \in Seq(Problems) /\ Len(<<>>) = 0 BY ShortSeqs
<1>2. kErrors + 1 \in Nat /\ 0 <= kErrors + 1 BY SettingsAssumption
<1>3. Latest(<<>>, kErrors + 1) = <<>> BY <1>1, <1>2, LatestFacts
<1> QED BY <1>1, <1>3 DEF Listed

(* A handshake leaves the errors of its own.                               *)
LEMMA HandshakeListed ==
  ASSUME NEW s, NEW p, NEW outcome, Client(s), History(p), Handshake(s, p, outcome)
  PROVE  Listed(m', past')
<1> DEFINE n == Len(sessions) + 1
           e == Recorded(Errors(outcome))
           r == reset(s, outcome)
           started == [s EXCEPT !.connected = FALSE, !.errors = e]
           named == [started EXCEPT !.key = n, !.clientId = GrantedTo(started, n)]
           loaded == [named EXCEPT !.key = n, !.params = n, !.loggingClient = named.host]
           connected == [loaded EXCEPT !.connected = TRUE, !.connection = n]
           running == [connected EXCEPT !.running = TRUE]
<1>1. r \in {started, named, loaded, running}
  BY DEF reset, Identified, loadConnectionFromJson_, onConnect
<1> HIDE DEF e, r
<1>2. /\ started.errors = e /\ named.errors = e /\ loaded.errors = e
      /\ connected.errors = e /\ running.errors = e
  BY DEF Client, Members
<1> HIDE DEF started, named, loaded, running
<1>3. m'.errors = Recorded(Errors(outcome)) BY <1>1, <1>2 DEF Handshake, r, e
<1>4. past'.raised = Errors(outcome)
  <2> DEFINE d == Errors(outcome)
  <2>1. \E a, b, c, f : past' = [p EXCEPT !.raised = d, !.changed = a, !.foreign = b,
                                          !.torn = c, !.doomed = f]
    BY DEF Handshake
  <2> HIDE DEF d
  <2>2. past'.raised = d BY <2>1 DEF History, Memories
  <2> QED BY <2>2 DEF d
<1>5. Recorded(Errors(outcome)) = Latest(Errors(outcome), kErrors + 1)
  BY ErrorsFew, RecordedIsLatest
<1> QED BY <1>3, <1>4, <1>5, ErrorsFew DEF Listed

(* One error more, in the list and in the record.                          *)
LEMMA OneMoreListed ==
  ASSUME NEW s, NEW p, NEW r, NEW q, NEW e \in Problems, Listed(s, p),
         r.errors = addError(s.errors, e), q.raised = Append(p.raised, e)
  PROVE  Listed(r, q)
<1>1. q.raised \in Seq(Problems) BY AppendProperties DEF Listed
<1>2. addError(Latest(p.raised, kErrors + 1), e) = Latest(Append(p.raised, e), kErrors + 1)
  BY AddedIsLatest DEF Listed
<1> QED BY <1>1, <1>2 DEF Listed

(* Connecting begins a list, or leaves it.                                 *)
LEMMA ConnectListed ==
  ASSUME NEW s, NEW host \in Places, Client(s), History(past), Listed(s, past), connect_(s, host)
  PROVE  Listed(m', past')
<1> DEFINE o == Opened(s, host)
           c == past.changed /\ s.knownClient
           past1 == [past EXCEPT !.moved = FALSE, !.changed = c]
<1>1. Client(o) /\ Client(Keyed(o)) BY OpenedFacts, KeyedFacts
<1>2. o.errors = s.errors BY DEF Opened, Client, Members
<1>3. \/ m' = s /\ past' = past
      \/ m' = o /\ past' = [past EXCEPT !.moved = FALSE]
      \/ \E outcome : Handshake(Keyed(o), past1, outcome)
  BY DEF connect_, Keep
<1>4. c \in BOOLEAN BY DEF Client, History
<1> HIDE DEF o, c
<1>5. History(past1) BY <1>4 DEF History, Memories
<1> HIDE DEF past1
<1>6. CASE m' = s /\ past' = past BY <1>6 DEF Listed
<1>7. CASE m' = o /\ past' = [past EXCEPT !.moved = FALSE]
  <2>1. past'.raised = past.raised BY <1>7 DEF History, Memories
  <2> QED BY <2>1, <1>2, <1>7 DEF Listed
<1>8. CASE \E outcome : Handshake(Keyed(o), past1, outcome)
  BY <1>8, <1>1, <1>5, HandshakeListed
<1> QED BY <1>3, <1>6, <1>7, <1>8

(* Losing the connection leaves the list.                                  *)
LEMMA DisconnectedListed ==
  ASSUME NEW s, NEW p, Client(s), Listed(s, p)
  PROVE  /\ Listed([s EXCEPT !.connected = FALSE], p)
         /\ Listed([s EXCEPT !.running = FALSE], p)
         /\ Listed(Disconnected(s), p)
<1>1. /\ [s EXCEPT !.connected = FALSE].errors = s.errors
      /\ [s EXCEPT !.running = FALSE].errors = s.errors
      /\ [s EXCEPT !.connected = FALSE, !.running = FALSE].errors = s.errors
  BY DEF Client, Members
<1> QED BY <1>1 DEF Listed, Disconnected

(* So does what is set or configured.                                      *)
LEMMA SetListed ==
  ASSUME NEW s, NEW client, NEW key, Client(s)
  PROVE  setKnownClient(s, client, key).errors = s.errors
<1> DEFINE known == client # None /\ key # None
           assigned == [s EXCEPT !.clientId = client, !.privateKey = key]
           r == setKnownClient(s, client, key)
<1>1. r = assigned \/ r = [assigned EXCEPT !.knownClient = known] BY DEF setKnownClient
<1> HIDE DEF known, r
<1>2. r.errors = s.errors BY <1>1 DEF Client, Members
<1> QED BY <1>2 DEF r

LEMMA ConfiguredListed ==
  ASSUME NEW s, NEW j \in Configurations, Client(s)
  PROVE  loadConfiguration(s, j).errors = s.errors
<1> DEFINE r == loadConfiguration(s, j)
           hosted == [s EXCEPT !.host = j.host]
           known == IF j.client = None THEN hosted ELSE setKnownClient(hosted, j.client, j.key)
<1>1. Client(hosted) /\ hosted.errors = s.errors BY DEF Client, Members, Places
<1>2. Client(known) /\ known.errors = s.errors
  <2> HIDE DEF hosted
  <2> QED BY <1>1, SetKnownClientFacts, SetListed
<1>3. \/ r \in {s, hosted, known}
      \/ r = [known EXCEPT !.serverPublicKey = j.serverPublicKey]
  BY DEF loadConfiguration
<1> HIDE DEF hosted, known, r
<1>4. r.errors = s.errors BY <1>1, <1>2, <1>3 DEF Client, Members
<1> QED BY <1>4 DEF r

(* A saved connection: its errors, or those of the renewal.                *)
LEMMA LoadConnectionListed ==
  ASSUME IInv, Listed(m, past), LoadConnection
  PROVE  Listed(m', past')
<1> DEFINE s == IF m.connected THEN m ELSE Opened(m, m.host)
           l == loadConnectionFromJson_(s, file, TRUE)
           k == loadConnectionFromJson_(s, file, FALSE)
           o == onConnect(l)
           of == sessions[file]
           other == of.client # m.clientId \/ of.host # s.connectionClient
           was == past.moved /\ m.connected
           past1 == [past EXCEPT !.moved = was, !.torn = m.connected, !.foreign = other]
           past3 == [past1 EXCEPT !.torn = FALSE]
           Half(c, p) == \E params \in {m.params, file} :
                           /\ c = [s EXCEPT !.key = file, !.params = params]
                           /\ p = [past1 EXCEPT !.foreign = past1.foreign \/ past.foreign]
<1>a. Client(m) /\ History(past) BY DEF IInv, Good
<1>b. Client(s) /\ s.errors = m.errors
  <2>1. m.host \in Places BY <1>a DEF Client
  <2>2. Opened(m, m.host).errors = m.errors BY <1>a DEF Opened, Client, Members
  <2> QED BY <1>a, <2>1, <2>2, OpenedFacts
<1>e. other \in BOOLEAN /\ was \in BOOLEAN OBVIOUS
<1>n. \/ m' = s /\ past' = [past EXCEPT !.moved = was]
      \/ Half(m', past')
      \/ m' = k /\ past' = past1
      \/ /\ m' = [k EXCEPT !.errors = addError(k.errors, "logging")]
         /\ past' = [past1 EXCEPT !.raised = Append(past1.raised, "logging")]
      \/ m' = o /\ past' = past3
      \/ \E outcome : Handshake(o, past3, outcome)
  BY DEF LoadConnection
<1> HIDE DEF s, other, was
<1>p. /\ History(past1) /\ past1.raised = past.raised
  BY <1>a, <1>e DEF History, Memories, Client
<1> HIDE DEF past1
<1>q. /\ History(past3) /\ past3.raised = past.raised
  BY <1>p DEF History, Memories
<1>r. Client(l) /\ Client(k) BY <1>b, LoadedFacts, HalfLoadedFacts
<1>s. l.errors = m.errors /\ k.errors = m.errors
  BY <1>b DEF loadConnectionFromJson_, Client, Members
<1> HIDE DEF l, k, past3
<1>t. Client(o) /\ o.errors = m.errors BY <1>r, <1>s DEF onConnect, Client, Members
<1> HIDE DEF o
<1>1. CASE m' = s /\ past' = [past EXCEPT !.moved = was]
  <2>1. past'.raised = past.raised BY <1>1, <1>a DEF History, Memories
  <2> QED BY <2>1, <1>1, <1>b DEF Listed
<1>2. CASE /\ m' = [k EXCEPT !.errors = addError(k.errors, "logging")]
           /\ past' = [past1 EXCEPT !.raised = Append(past1.raised, "logging")]
  <2>1. /\ m'.errors = addError(m.errors, "logging")
        /\ past'.raised = Append(past.raised, "logging")
    BY <1>2, <1>p, <1>r, <1>s DEF Client, History, Members, Memories
  <2>2. "logging" \in Problems BY DEF Problems
  <2> QED BY <2>1, <2>2, OneMoreListed
<1>3. CASE m' = o /\ past' = past3 BY <1>3, <1>q, <1>t DEF Listed
<1>4. CASE \E outcome : Handshake(o, past3, outcome)
  BY <1>4, <1>q, <1>t, HandshakeListed
<1>5. CASE Half(m', past')
  <2>1. PICK params, f : /\ m' = [s EXCEPT !.key = file, !.params = params]
                         /\ past' = [past1 EXCEPT !.foreign = f]
    BY <1>5
  <2>2. m'.errors = s.errors BY <2>1, <1>b DEF Client, Members
  <2>3. past'.raised = past.raised BY <2>1, <1>p DEF History, Memories
  <2> QED BY <2>2, <2>3, <1>b DEF Listed
<1>6. CASE m' = k /\ past' = past1 BY <1>6, <1>p, <1>s DEF Listed
<1> QED BY <1>n, <1>1, <1>2, <1>3, <1>4, <1>5, <1>6

(* Every call keeps the list.                                              *)
LEMMA NextListed == ASSUME IInv, Listed(m, past), [Next]_vars PROVE Listed(m', past')
<1>a. Client(m) /\ History(past) BY DEF IInv, Good
<1>b. m.host \in Places /\ Hosts \subseteq Places /\ LOCALHOST \in Places
  BY <1>a, SettingsAssumption DEF Client, Places
<1>1. CASE Connect
  <2>1. PICK host \in Places : connect_(m, host) BY <1>1, <1>b DEF Connect
  <2> QED BY <2>1, <1>a, ConnectListed
<1>2. CASE Disconnect
  <2>1. m' = Disconnected(m) /\ past' = past BY <1>2 DEF Disconnect, Keep
  <2> QED BY <2>1, <1>a, DisconnectedListed
<1>3. CASE Reconnect
  <2>1. PICK host \in Places : connect_(Disconnected(m), host) BY <1>3, <1>b DEF Reconnect
  <2>2. Client(Disconnected(m)) BY DisconnectedGood DEF IInv, Good
  <2> QED BY <2>1, <2>2, <1>a, ConnectListed, DisconnectedListed
<1>4. CASE Renew
  <2>1. PICK outcome : Handshake(m, past, outcome) BY <1>4 DEF Renew
  <2> QED BY <2>1, <1>a, HandshakeListed
<1>5. CASE TouchRefused
  <2>1. /\ m'.errors = addError(m.errors, "touch")
        /\ past'.raised = Append(past.raised, "touch")
    BY <1>5, <1>a DEF TouchRefused, Client, History, Members, Memories
  <2>2. "touch" \in Problems BY DEF Problems
  <2> QED BY <2>1, <2>2, OneMoreListed
<1>6. CASE DispatcherConnects
  <2> DEFINE lost == [m EXCEPT !.connected = FALSE]
  <2>1. Client(lost) BY DisconnectedGood DEF IInv, Good
  <2>2. Listed(lost, past) BY <1>a, DisconnectedListed
  <2>3. connect_(lost, LOCALHOST) BY <1>6 DEF DispatcherConnects
  <2> QED BY <2>1, <2>2, <2>3, <1>a, <1>b, ConnectListed
<1>7. CASE DispatcherEnds
  <2>1. m' = [m EXCEPT !.running = FALSE] /\ past' = past BY <1>7 DEF DispatcherEnds, Keep
  <2> QED BY <2>1, <1>a, DisconnectedListed
<1>8. CASE SetKnownClient
  <2>1. PICK client, key : m' = setKnownClient(m, client, key) /\ past' = [past EXCEPT !.changed = TRUE]
    BY <1>8 DEF SetKnownClient
  <2>2. past'.raised = past.raised BY <2>1, <1>a DEF History, Memories
  <2>3. m'.errors = m.errors BY <2>1, <1>a, SetListed
  <2> QED BY <2>2, <2>3 DEF Listed
<1>9. CASE SetResidueHomePath
  <2>1. m' = [m EXCEPT !.homepath = TRUE] /\ past' = past BY <1>9 DEF SetResidueHomePath, Keep
  <2>2. m'.errors = m.errors BY <2>1, <1>a DEF Client, Members
  <2> QED BY <2>1, <2>2 DEF Listed
<1>10. CASE LoadConfiguration
  <2>1. PICK j \in Configurations : /\ m' = loadConfiguration(m, j)
                                    /\ \E c, d : past' = [past EXCEPT !.changed = c, !.moved = d]
    BY <1>10 DEF LoadConfiguration
  <2>2. past'.raised = past.raised BY <2>1, <1>a DEF History, Memories
  <2>3. m'.errors = m.errors BY <2>1, <1>a, ConfiguredListed
  <2> QED BY <2>2, <2>3 DEF Listed
<1>11. CASE SaveConnection
  BY <1>11 DEF SaveConnection, Listed
<1>12. CASE LoadConnection BY <1>12, LoadConnectionListed
<1>13. CASE Restart
  <2>1. m'.errors = <<>> /\ past'.raised = <<>> BY <1>13 DEF Restart, Fresh, NoPast
  <2> QED BY <2>1, NothingListed
<1>14. CASE UNCHANGED vars BY <1>14 DEF vars, Listed
<1> QED BY <1>1, <1>2, <1>3, <1>4, <1>5, <1>6, <1>7, <1>8, <1>9, <1>10, <1>11, <1>12,
           <1>13, <1>14 DEF Next

(* What addError leaves is the latest of what was raised, kErrors at least *)
(* where there are so many.                                                *)
LEMMA ListedLatest == ASSUME ListedInv PROVE LatestErrors
<1> DEFINE r == past.raised
           n == kErrors + 1
           l == Len(m.errors)
<1>a. r \in Seq(Problems) /\ m.errors = Latest(r, n) BY DEF ListedInv, Listed
<1>b. n \in Nat /\ kErrors \in Nat /\ n = kErrors + 1 BY SettingsAssumption
<1>c. Len(r) \in Nat /\ 0 <= Len(r) BY <1>a
<1>d. Min({Len(r), kErrors}) = IF Len(r) <= kErrors THEN Len(r) ELSE kErrors
  BY <1>b, <1>c, MinOfTwo
<1> HIDE DEF r, n
<1>1. CASE Len(r) <= n
  <2>1. m.errors = r /\ l = Len(r) BY <1>1, <1>a, <1>b, LatestFacts
  <2>2. Latest(r, l) = r BY <2>1, <1>a, <1>c, LatestFacts
  <2>3. l >= Min({Len(r), kErrors}) BY <2>1, <1>b, <1>c, <1>d
  <2> QED BY <2>1, <2>2, <2>3 DEF LatestErrors, r
<1>2. CASE Len(r) > n
  <2>1. m.errors = SubSeq(r, Len(r) - n + 1, Len(r)) BY <1>2, <1>a, <1>b, <1>c, LatestFacts
  <2>2. l = n
    <3> DEFINE x == Len(r) - n + 1
               y == Len(r)
    <3>1. x \in 1 .. y /\ y \in Nat /\ y - x + 1 = n BY <1>2, <1>b, <1>c
    <3>2. \A i \in x .. y : r[i] \in Problems BY <3>1, <1>a
    <3>3. m.errors = SubSeq(r, x, y) BY <2>1
    <3> HIDE DEF x, y
    <3>4. Len(SubSeq(r, x, y)) = IF x <= y THEN y - x + 1 ELSE 0
      BY <3>1, <3>2, SubSeqProperties
    <3> QED BY <3>1, <3>3, <3>4
  <2>3. Latest(r, l) = m.errors BY <2>2, <1>a
  <2>4. l >= Min({Len(r), kErrors}) BY <2>2, <1>2, <1>b, <1>c, <1>d
  <2> QED BY <2>3, <2>4 DEF LatestErrors, r
<1> QED BY <1>1, <1>2, <1>b, <1>c

(* The errors that can be read are the latest raised since the last        *)
(* handshake began, in their order, and no fewer of them than kErrors      *)
(* where so many were raised (Residue::addError, reset, touch).            *)
THEOREM ErrorsLatest == Spec => []LatestErrors
<1>1. Init => ListedInv BY NothingListed DEF Init, Fresh, NoPast, ListedInv
<1>2. IInv /\ ListedInv /\ [Next]_vars => ListedInv' BY NextListed DEF ListedInv
<1>3. ListedInv => LatestErrors BY ListedLatest
<1> QED BY <1>1, <1>2, <1>3, Settings, PTL DEF Spec

(* What a connected client sends belongs to one session, and goes by the   *)
(* id that session was granted to (Residue::reset, loadConnectionFromJson).*)
THEOREM RequestsTogether == Spec => []RequestsBelong
<1>1. IInv => RequestsBelong BY DEF IInv, Good, Belongs, RequestsBelong
<1> QED BY <1>1, Settings, PTL

(* A connected client logs where its session was granted                   *)
(* (Residue::connect_, loadConnectionFromJson_).                           *)
THEOREM LogsGranted == Spec => []LoggingWhereGranted
<1>1. IInv => LoggingWhereGranted BY DEF IInv, Good, LogsThere, LoggingWhereGranted
<1> QED BY <1>1, Settings, PTL

(* A handshake that cannot be answered, or whose answer cannot be read,    *)
(* comes only of what was set anew, loaded of another client or given      *)
(* wrong (Residue::connect_, setKnownClient, loadConnectionFromJson).      *)
THEOREM HandshakesRead == Spec => []HandshakesReadable
<1>1. IInv => HandshakesReadable BY DEF IInv, Good, Doomed, HandshakesReadable
<1> QED BY <1>1, Settings, PTL
=============================================================================
