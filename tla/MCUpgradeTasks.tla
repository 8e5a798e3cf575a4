--------------------------- MODULE MCUpgradeTasks ---------------------------
(* Instances of UpgradeTasks for TLC.  MCHashOf gives every task an agent  *)
(* of its own, MCSameAgent gives all tasks to one agent.                   *)
EXTENDS UpgradeTasks

MCHashOf == [t \in Task |-> IF t = 1 THEN "a" ELSE IF t = 2 THEN "b" ELSE "c"]
MCSameAgent == [t \in Task |-> "a"]
MCIdOf == [t \in Task |-> "id"]
MCVersionOf == [t \in Task |-> "v2"]

\* Agent "a" may come back and "b" connects once (MCBack), or "b" never
\* connects and is seen through a page only (MCOnce).
MCBack == [a \in Agent |-> IF a = "a" THEN 2 ELSE 1]
MCOnce == [a \in Agent |-> IF a = "a" THEN 1 ELSE 0]
=============================================================================
