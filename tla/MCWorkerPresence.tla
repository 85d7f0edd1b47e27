-------------------------- MODULE MCWorkerPresence --------------------------
(* Two relay processes and releases of two migrations; a poll is longer than *)
(* the interval of heartbeats, and the budget just fits the offline window.  *)
EXTENDS WorkerPresence

Waits == [n \in 0..6 |-> IF n < 2 THEN 0 ELSE 1]
=============================================================================
