------------------------ MODULE MCScheduledExecutor ------------------------
(* Three tasks, due at once or later; time enough for the latest deadline.  *)
EXTENDS ScheduledExecutor

MCDelays == {0, 1, 3}
=============================================================================
