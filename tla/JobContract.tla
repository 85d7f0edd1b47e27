---------------------------- MODULE JobContract ----------------------------
(***************************************************************************)
(* What the relay promises of one job, whatever the table it is kept in:   *)
(* a job is handed to the worker, may come back with a question for the    *)
(* user, and ends once.  `runs` counts the hand-outs and `granted` holds   *)
(* the hand-outs whose question the user accepted.                         *)
(*                                                                         *)
(* The promise is stated per job: in one step of the system any number of  *)
(* jobs may move (a sweep moves many rows), each by one JobStep.           *)
(***************************************************************************)
EXTENDS Integers

CONSTANTS
  Jobs,           \* every job the relay may ever hold
  ReadOnlyJobs    \* those that change nothing on the worker's machine

VARIABLE contract

Phases == {"absent", "waiting", "running", "asking",
           "succeeded", "failed", "dropped", "unknown"}

Absent == [phase |-> "absent", runs |-> 0, granted |-> {}]

Init == contract = [j \in Jobs |-> Absent]

Goes(c, d, from, to) ==
  c.phase = from /\ d = [phase |-> to, runs |-> c.runs, granted |-> c.granted]

Submit(c, d) == Goes(c, d, "absent", "waiting")

\* A waiting job is handed out.  A read-only one may be handed out again
\* while an earlier hand-out is still unanswered.
Start(j, c, d) ==
  /\ c.phase = "waiting" \/ (c.phase = "running" /\ j \in ReadOnlyJobs)
  /\ d = [phase |-> "running", runs |-> c.runs + 1, granted |-> c.granted]

\* Only a read-only job goes back to the queue without the user's word.
Return(j, c, d) == j \in ReadOnlyJobs /\ Goes(c, d, "running", "waiting")

Ask(c, d) == Goes(c, d, "running", "asking")

Grant(c, d) ==
  /\ c.phase = "asking"
  /\ c.runs \notin c.granted
  /\ d = [phase |-> "waiting", runs |-> c.runs,
          granted |-> c.granted \cup {c.runs}]

Refuse(c, d) == Goes(c, d, "asking", "failed")

Answer(c, d) == Goes(c, d, "running", "succeeded") \/ Goes(c, d, "running", "failed")

\* Given up with certainty: nothing of a mutation is running.
Drop(j, c, d) ==
  \/ Goes(c, d, "waiting", "dropped")
  \/ Goes(c, d, "asking", "dropped")
  \/ j \in ReadOnlyJobs /\ Goes(c, d, "running", "dropped")

\* Given up while a mutation may be running: the outcome stays open.
Lose(j, c, d) == j \notin ReadOnlyJobs /\ Goes(c, d, "running", "unknown")

JobStep(j, c, d) ==
  \/ Submit(c, d)
  \/ Start(j, c, d)
  \/ Return(j, c, d)
  \/ Ask(c, d)
  \/ Grant(c, d)
  \/ Refuse(c, d)
  \/ Answer(c, d)
  \/ Drop(j, c, d)
  \/ Lose(j, c, d)

Next ==
  /\ contract' = [j \in Jobs |-> contract'[j]]
  /\ \A j \in Jobs : contract'[j] = contract[j] \/ JobStep(j, contract[j], contract'[j])

Spec == Init /\ [][Next]_contract
=============================================================================
