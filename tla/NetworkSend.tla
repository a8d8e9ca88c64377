---------------------------- MODULE NetworkSend ----------------------------
(***************************************************************************)
(* What one call of NetworkClient::connect or NetworkClient::send may do,  *)
(* seen from its caller.  The step-by-step module is NetworkClient; the    *)
(* client of the logging server, ResidueClient, calls these operators.     *)
(*                                                                         *)
(* The network and the server are external.  Each member of Faults is one  *)
(* way in which they let a call down:                                      *)
(*   "refuse"       TCP connect fails                                      *)
(*   "resolve"      the host name does not resolve                         *)
(*   "writeerr"     asio::write fails with any error but a timeout         *)
(*   "writetimeout" asio::write fails with "Operation timed out"           *)
(*   "eof"          the peer closes or resets while the reply is awaited   *)
(*   "readerr"      reading fails with any other error but a timeout       *)
(*   "readtimeout"  reading fails with "Operation timed out"               *)
(***************************************************************************)
EXTENDS Naturals

CONSTANT Faults

AllFaults == {"refuse", "resolve", "writeerr", "writetimeout",
              "eof", "readerr", "readtimeout"}

ASSUME FaultsAssumption == Faults \subseteq AllFaults

ConnectFaults == Faults \cap {"refuse", "resolve"}
ReadFaults    == Faults \cap {"eof", "readerr", "readtimeout"}
WriteFaults   == Faults \cap {"writeerr", "writetimeout"}

(* "ok", or the fault that made connect() throw: "refuse" leaves it as a   *)
(* ResidueException, "resolve" as the std::system_error of the resolver,   *)
(* which is called before the try block.                                   *)
ConnectOutcomes == {"ok"} \cup ConnectFaults

Outcome(how, up, copies, cost) ==
  [how |-> how, up |-> up, copies |-> copies, cost |-> cost]

(* The payload is written in full and the reply is awaited.  After eof the *)
(* client is down and no handler has run; after any other read error the   *)
(* handler has run with hasError and the client still counts as connected. *)
(* The server may have taken the payload although the reply was lost.      *)
ReadOutcomes(cost) ==
  {Outcome("reply", TRUE, 1, cost)} \cup
  {Outcome(f, f # "eof", c, cost + 1) : f \in ReadFaults, c \in {0, 1}}

(* A failed write hands over less than the whole payload, whose delimiter  *)
(* comes last, so the server has nothing it can use.                       *)
WriteOutcomes(cost) ==
  {Outcome(IF f = "writetimeout" THEN "timeout" ELSE "throw", TRUE, 0, cost + 1) :
     f \in WriteFaults}

(* The last attempt of a send: retryOnTimeout is false. *)
LastOutcomes(cost) == ReadOutcomes(cost) \cup WriteOutcomes(cost)

(* The second attempt, after a timed-out write: reconnect, send once more. *)
(* A refused connect may itself carry the text "Operation timed out".      *)
RetryOutcomes(cost) ==
  LastOutcomes(cost)
  \cup {Outcome(how, FALSE, 0, cost + 1) : how \in
          (IF "refuse" \in Faults THEN {"throw", "timeout"} ELSE {}) \cup
          (IF "resolve" \in Faults THEN {"system"} ELSE {})}

(* Every way a send(payload, true, handler, retry) can end whose handler   *)
(* does not throw.  "silent" is the early return for a client that is not  *)
(* up; "throw" and "timeout" leave as a ResidueException ("timeout" with   *)
(* the text a caller's own send() retries on), "system" as a system_error. *)
SendOutcomes(up, retry) ==
  IF ~up THEN {Outcome("silent", FALSE, 0, 0)}
  ELSE IF ~retry THEN LastOutcomes(0)
  ELSE {o \in LastOutcomes(0) : o.how # "timeout"}
       \cup IF "writetimeout" \in Faults THEN RetryOutcomes(1) ELSE {}

(* Whether the one retry was used up on the way to an answer. *)
Retried(o) == o.cost = IF o.how = "reply" THEN 1 ELSE 2
=============================================================================
