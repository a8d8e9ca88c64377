----------------------------- MODULE LogRequests -----------------------------
(***************************************************************************)
(* What Residue sends of a log statement: ResidueDispatcher::handle        *)
(* (dispatcher.cc) makes a request of it and dates it,                     *)
(* Residue::requestToJson (residue.cc) writes the request.  How requests   *)
(* are queued and sent is ResidueClient's subject.                         *)
(*                                                                         *)
(* A text is a tuple of tokens, a line and a level are numbers.            *)
(***************************************************************************)
LOCAL INSTANCE Integers

RESIDUE_LOGGER_ID == <<"residue">>

(* What a clock shows, in seconds, and whether it is told to be on         *)
(* daylight saving time; a zone is [standard, summer].  External.          *)
Saving(summer) == IF summer THEN 3600 ELSE 0
gmtime(t) == [shows |-> t, isdst |-> FALSE]
localtime(t, zone) ==
  [shows |-> t + zone.standard + Saving(zone.summer), isdst |-> zone.summer]
mktime(tm, zone) == tm.shows - zone.standard - Saving(tm.isdst)

(* Slip: a client on universal time does without the offset.               *)
DateOf_Local(t, r) ==
  IF r.m_utc THEN mktime(gmtime(t), r.zone) * 1000
  ELSE (mktime(localtime(t, r.zone), r.zone) + r.m_timeOffset) * 1000

(* The time, in milliseconds, that a statement is sent with.               *)
DateOf(t, r) ==
  (mktime(IF r.m_utc THEN gmtime(t) ELSE localtime(t, r.zone), r.zone) + r.m_timeOffset) * 1000

(* Requests that are queued: the client's own logger keeps to itself.      *)
handle(statement, t, r) ==
  IF statement.logger = RESIDUE_LOGGER_ID THEN {}
  ELSE {[k \in DOMAIN statement \cup {"datetime"} |->
           IF k = "datetime" THEN DateOf(t, r) ELSE statement[k]]}

(* Fields that would be empty or zero are left out.                        *)
Optional(request) ==
  {k \in {"file", "func"} : request[k] # <<>>} \cup {k \in {"line", "vlevel"} : request[k] > 0}

requestToJson(request, r) ==
  LET app == IF r.m_applicationId = <<>> THEN {} ELSE {"app"}
  IN  [k \in {"datetime", "logger", "msg", "level"} \cup Optional(request) \cup app |->
         IF k = "app" THEN r.m_applicationId ELSE request[k]]
=============================================================================
