--------------------------- MODULE NetworkClient ---------------------------
(***************************************************************************)
(* One NetworkClient object (network-client.cc): connect(), send() with    *)
(* its single retry, read() with its response handler.  The calls are      *)
(* blocking, so one program counter serves caller, send and read.          *)
(* Sends without expectResponse are never made by residue.cc.              *)
(***************************************************************************)
EXTENDS NetworkSend, Sequences

CONSTANT MaxSends  \* bound: calls of send()

ASSUME NetworkClientAssumption == MaxSends \in Nat

VARIABLES
  pc,           \* where the current call is
  open,         \* m_socket.is_open()
  m_connected,
  retry,        \* retryOnTimeout of the innermost send()
  calls,        \* the handler calls of this send: "reply" or "error"
  text,         \* of the exception or error in flight: "timeout" or "other"
  arrived,      \* copies of the payload the server has taken in this send
  spent,        \* faults met in this send
  sends         \* calls of send() so far

vars == <<pc, open, m_connected, retry, calls, text, arrived, spent, sends>>

connected == open /\ m_connected

Final == {"returned", "thrown", "system"}

Init ==
  /\ pc = "fresh" /\ open = FALSE /\ m_connected = FALSE
  /\ retry = TRUE /\ calls = <<>> /\ text = "other"
  /\ arrived = 0 /\ spent = 0 /\ sends = 0

(* connect() as the owner calls it on a new object.  On failure asio's     *)
(* connect leaves the socket open; the exception reaches the caller.       *)
connect ==
  /\ pc = "fresh"
  /\ \E c \in ConnectOutcomes :
       /\ m_connected' = (c = "ok")
       /\ open' = (c # "resolve")
  /\ pc' = "idle"
  /\ UNCHANGED <<retry, calls, text, arrived, spent, sends>>

send ==
  /\ pc = "idle" /\ sends < MaxSends
  /\ sends' = sends + 1
  /\ retry' = TRUE /\ calls' = <<>> /\ arrived' = 0 /\ spent' = 0
  /\ text' = "other"
  /\ pc' = IF connected THEN "write" ELSE "returned"
  /\ UNCHANGED <<open, m_connected>>

write ==
  /\ pc = "write"
  /\ \/ /\ pc' = "read"
        /\ UNCHANGED <<text, spent>>
     \/ \E f \in WriteFaults :
          /\ pc' = "caught" /\ spent' = spent + 1
          /\ text' = IF f = "writetimeout" THEN "timeout" ELSE "other"
  /\ UNCHANGED <<open, m_connected, retry, calls, arrived, sends>>

readReply ==
  /\ pc = "read"
  /\ pc' = "handler" /\ calls' = Append(calls, "reply")
  /\ arrived' = arrived + 1 /\ text' = "other"
  /\ UNCHANGED <<open, m_connected, retry, spent, sends>>

(* Slip: eof is retried like a timeout. *)
readEof_Retries ==
  /\ pc = "read" /\ "eof" \in Faults
  /\ pc' = "reconnect" /\ m_connected' = FALSE
  /\ arrived' \in {arrived, arrived + 1} /\ spent' = spent + 1
  /\ UNCHANGED <<open, retry, calls, text, sends>>

(* Slip: eof sends the payload again on the spot. *)
readEof_Resends ==
  /\ pc = "read" /\ "eof" \in Faults
  /\ pc' = "write"
  /\ UNCHANGED <<open, m_connected, retry, calls, text, arrived, spent, sends>>

readEof ==
  /\ pc = "read" /\ "eof" \in Faults
  /\ pc' = "returned" /\ m_connected' = FALSE
  /\ arrived' \in {arrived, arrived + 1} /\ spent' = spent + 1
  /\ UNCHANGED <<open, retry, calls, text, sends>>

(* Slip: a read error calls no handler. *)
readError_Silent ==
  /\ pc = "read"
  /\ \E f \in ReadFaults \ {"eof"} :
       text' = IF f = "readtimeout" THEN "timeout" ELSE "other"
  /\ pc' = "returned" /\ calls' = calls
  /\ arrived' \in {arrived, arrived + 1} /\ spent' = spent + 1
  /\ UNCHANGED <<open, m_connected, retry, sends>>

readError ==
  /\ pc = "read"
  /\ \E f \in ReadFaults \ {"eof"} :
       text' = IF f = "readtimeout" THEN "timeout" ELSE "other"
  /\ pc' = "handler" /\ calls' = Append(calls, "error")
  /\ arrived' \in {arrived, arrived + 1} /\ spent' = spent + 1
  /\ UNCHANGED <<open, m_connected, retry, sends>>

handlerReturns ==
  /\ pc \in {"handler", "handlerAgain"}
  /\ pc' = "returned"
  /\ UNCHANGED <<open, m_connected, retry, calls, text, arrived, spent, sends>>

(* read() catches what the handler throws and calls it again with the      *)
(* exception's text; a handler that failed on a reply may itself have      *)
(* met a timeout (the ACK send nested in the CONNECT handler).             *)
handlerThrows ==
  /\ pc = "handler"
  /\ text' \in IF calls[Len(calls)] = "reply" THEN {"timeout", "other"} ELSE {text}
  /\ pc' = "handlerAgain" /\ calls' = Append(calls, "error")
  /\ UNCHANGED <<open, m_connected, retry, arrived, spent, sends>>

(* Its second exception leaves read() and reaches send()'s catch block.    *)
handlerThrowsAgain ==
  /\ pc = "handlerAgain"
  /\ pc' = "caught"
  /\ UNCHANGED <<open, m_connected, retry, calls, text, arrived, spent, sends>>

(* The catch block of send(): a timeout closes the socket for one retry.   *)
caught ==
  /\ pc = "caught"
  /\ IF retry /\ text = "timeout"
       THEN pc' = "reconnect" /\ open' = FALSE /\ m_connected' = FALSE
       ELSE pc' = "thrown" /\ UNCHANGED <<open, m_connected>>
  /\ UNCHANGED <<retry, calls, text, arrived, spent, sends>>

reconnect ==
  /\ pc = "reconnect"
  /\ \E c \in ConnectOutcomes :
       /\ m_connected' = (c = "ok")
       /\ open' = (c # "resolve")
       /\ retry' = IF c = "ok" THEN FALSE ELSE retry
       /\ spent' = IF c = "ok" THEN spent ELSE spent + 1
       /\ text' \in IF c = "refuse" THEN {"timeout", "other"} ELSE {text}
       /\ pc' = CASE c = "ok" -> "write" [] c = "refuse" -> "thrown" [] OTHER -> "system"
  /\ UNCHANGED <<calls, arrived, sends>>

(* Back in the caller. *)
finish ==
  /\ pc \in Final
  /\ pc' = "idle"
  /\ UNCHANGED <<open, m_connected, retry, calls, text, arrived, spent, sends>>

Next ==
  \/ connect \/ send \/ write \/ readReply \/ readEof \/ readError
  \/ handlerReturns \/ handlerThrows \/ handlerThrowsAgain
  \/ caught \/ reconnect \/ finish

(* Every blocking call of asio and of the handler comes back in the end.   *)
Spec == Init /\ [][Next]_vars /\ WF_vars(Next)

-----------------------------------------------------------------------------
(* The server takes a payload twice only when the caller's own handler     *)
(* threw in between: the retry after a timed-out write repeats nothing.    *)
RepeatedOnlyForThrowingHandler ==
  arrived > 1 => \E i \in 1..Len(calls) - 1 : calls[i + 1] = "error"

(* The detailed client does only what SendOutcomes promises its callers    *)
(* (for handlers that do not throw, which run once at most): how it ended, *)
(* whether the client is up, how many copies arrived, at how many faults.  *)
How ==
  CASE pc = "system" -> "system"
    [] pc = "thrown" -> IF text = "timeout" THEN "timeout" ELSE "throw"
    [] pc \notin {"system", "thrown"} /\ calls = <<>> ->
         IF spent = 0 THEN "silent" ELSE "eof"
    [] pc \notin {"system", "thrown"} /\ calls # <<>> ->
         IF calls[Len(calls)] = "reply" THEN "reply"
         ELSE IF text = "timeout" THEN "readtimeout" ELSE "readerr"

EndsAsPromised ==
  pc \in Final /\ Len(calls) <= 1 =>
    \E up \in BOOLEAN :
      Outcome(How, connected, arrived, spent) \in SendOutcomes(up, TRUE)

(* A send ends, whatever the network and the handler do: the retry does    *)
(* not loop.                                                               *)
SendEnds == pc = "write" ~> pc = "idle"
=============================================================================
