----------------------------- MODULE MCVXProto -----------------------------
(* Instances of VXProto for TLC: two connections "c1" and "c2" of one      *)
(* agent, which share the tokens that the agent's ID determines.           *)
EXTENDS VXProto

MCAgentOf == [c \in Conn |-> "a"]
MCSrcOf == [c \in Conn |-> "sa"]
MCDstOf == [c \in Conn |-> "da"]
MCModGid == [m \in Module |-> IF m = "main" THEN "none" ELSE "g1"]
=============================================================================
