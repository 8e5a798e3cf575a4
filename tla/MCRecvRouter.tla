----------------------------- MODULE MCRecvRouter -----------------------------
(* Instances of RecvRouter for TLC: two peers that route three packets of    *)
(* one type between them, one of which carries an ackChan, and one          *)
(* notification.                                                             *)
EXTENDS RecvRouter

MCSrc    == {"a", "b"}
MCPType  == {"data"}
MCStream == ("a" :> <<"a1", "a2">>) @@ ("b" :> <<"b1">>)
MCSrcOf  == [p \in Packet |-> IF p = "b1" THEN "b" ELSE "a"]
MCTypeOf == [p \in Packet |-> IF p \in Notice THEN "control" ELSE "data"]
MCImc     == {"b1"}
MCFilters == {"a", AnySrc}

TimedOnly   == {"timeout"}
PollOrTimed == {"poll", "timeout"}
Symmetry    == Permutations(Receiver)
===============================================================================
