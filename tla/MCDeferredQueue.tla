-------------------------- MODULE MCDeferredQueue --------------------------
(* The instance of DeferredQueue for TLC in which passes and new packets   *)
(* overlap, as QueueLost.cfg gives it.                                     *)
EXTENDS DeferredQueue
=============================================================================
