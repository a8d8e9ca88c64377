---------------------------- MODULE LogDelivery ----------------------------
(***************************************************************************)
(* What the client library promises an application about its log messages, *)
(* with no threads, sockets or sessions: messages are numbered as they are *)
(* queued, taken from the queue oldest first, and each batch in hand is    *)
(* either delivered, once and in one piece, or lost.  ResidueClient        *)
(* implements it.                                                          *)
(***************************************************************************)
EXTENDS Naturals, Sequences

VARIABLES
  queue,      \* messages waiting, oldest first
  inHand,     \* messages taken and not yet sent
  delivered,  \* messages the server has accepted, in order
  lost,       \* messages the server never accepted
  logged      \* how many messages were ever queued

vars == <<queue, inHand, delivered, lost, logged>>

Init ==
  /\ queue = <<>> /\ inHand = <<>> /\ delivered = <<>>
  /\ lost = {} /\ logged = 0

Queue ==
  /\ logged' = logged + 1
  /\ queue' = Append(queue, logged')
  /\ UNCHANGED <<inHand, delivered, lost>>

Take ==
  /\ queue # <<>>
  /\ inHand' = Append(inHand, Head(queue))
  /\ queue' = Tail(queue)
  /\ UNCHANGED <<delivered, lost, logged>>

Deliver ==
  /\ inHand # <<>>
  /\ delivered' = delivered \o inHand
  /\ inHand' = <<>>
  /\ UNCHANGED <<queue, lost, logged>>

Lose ==
  /\ inHand # <<>>
  /\ lost' = lost \cup {inHand[i] : i \in 1..Len(inHand)}
  /\ inHand' = <<>>
  /\ UNCHANGED <<queue, delivered, logged>>

(* Under faults messages may be lost, and the sender may come to a halt. *)
Next == Queue \/ Take \/ Deliver \/ Lose
Spec == Init /\ [][Next]_vars

(* Without faults nothing is lost and everything gets through. *)
ReliableNext == Queue \/ Take \/ Deliver
ReliableSpec ==
  Init /\ [][ReliableNext]_vars /\ WF_vars(Take \/ Deliver)
=============================================================================
