-------------------------- MODULE MCConfigurations --------------------------
(* Two levels besides Global, one type of each kind, two files.            *)
EXTENDS Configurations

MCTypes == {"Enabled", "SubsecondPrecision", "ToFile", "Filename"}
MCValues == [t \in MCTypes |->
  CASE t = "SubsecondPrecision" -> {"3", "6"}
    [] t = "Filename" -> {"/dev/null", "my.log"}
    [] OTHER -> {"true", "false"}]

MCDefault == [Enabled |-> "true", SubsecondPrecision |-> "3", ToFile |-> "false",
              Filename |-> "/dev/null"]

(* With ELPP_NO_LOG_TO_FILE, as the library is built. *)
MCFactory == [t \in MCTypes |-> [l \in {"Global", "Info", "Debug"} |-> MCDefault[t]]]
MCRemaining == [t \in MCTypes |->
  CASE t = "ToFile"  -> [l \in {} |-> "true"]
    [] t = "Enabled" -> [l \in {"Global"} |-> "false"]
    [] OTHER         -> [l \in {"Global"} |-> MCDefault[t]]]
=============================================================================
