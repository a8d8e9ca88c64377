-------------------------- MODULE MCNetworkClient --------------------------
(* Instances of NetworkClient for TLC: a few sends over one object, every  *)
(* fault at every point.                                                   *)
EXTENDS NetworkClient

(* The object is destroyed when its owner makes no more calls. *)
Unused == pc = "idle" /\ sends = MaxSends /\ UNCHANGED vars

MCSpec == Init /\ [][Next \/ Unused]_vars /\ WF_vars(Next)
=============================================================================
