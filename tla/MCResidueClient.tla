-------------------------- MODULE MCResidueClient --------------------------
(* Instances of ResidueClient for TLC. *)
EXTENDS ResidueProperties

(* The program may come to rest once the user has made its calls and no    *)
(* thread is left inside the library; a process that died rests too.       *)
Rest ==
  /\ \/ ~Alive
     \/ pc["user"] = "idle" /\ pc["disp"] = "done" /\ Resting
  /\ UNCHANGED vars

MCSpec == Init /\ [][Next \/ Rest]_vars /\ Fairness
=============================================================================
