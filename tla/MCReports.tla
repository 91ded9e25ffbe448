------------------------------- MODULE MCReports ------------------------------
(***************************************************************************)
(* The model-checked instance of a node's talk with its panel besides      *)
(* polls and events: traffic reports ("traffic"), access records ("log")   *)
(* and the WebSocket client ("client").  They have no variable in common,  *)
(* so each behaviour is one of one of them; the others belong to a node    *)
(* that has ended, where nothing is bound to happen.                       *)
(***************************************************************************)
EXTENDS TrafficReport, AccessLog, WSClient

VARIABLE part

MCInit ==
    /\ part \in {"traffic", "log", "client"}
    /\ InitAt(IF part = "traffic" THEN "run" ELSE "crashed")
    /\ AccessAt(IF part = "log" THEN "idle" ELSE "ended")
    /\ WSAt(IF part = "client" THEN "dialling" ELSE "returned")
    /\ part # "log" => ~desired /\ ~remembered

TrafficPart == part = "traffic" /\ Next /\ UNCHANGED <<part, access, wsclient>>
LogPart     == part = "log" /\ AccessNext /\ UNCHANGED <<part, vars, wsclient>>
ClientPart  == part = "client" /\ WSNext /\ UNCHANGED <<part, vars, access>>

MCNext == TrafficPart \/ LogPart \/ ClientPart

MCSpec ==
    /\ MCInit /\ [][MCNext]_<<part, vars, access, wsclient>>
    /\ Fairness /\ AccessFairness /\ WSFairness
=============================================================================
