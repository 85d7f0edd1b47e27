--------------------------- MODULE WorkerPresence ---------------------------
(***************************************************************************)
(* Whether the relay takes the worker for online (RelayStore.heartbeat and *)
(* isWorkerOnline), against the one loop of the worker (client.ts) that    *)
(* beats, polls, handles the job it got and waits after an error.  The     *)
(* relay serves while a process of Migrations does.                        *)
(*                                                                         *)
(* Times are measured from now: `silence` is now - last_seen and `beatIn`  *)
(* is nextHeartbeat - now.  A request is answered within Latency of what   *)
(* the relay waits by itself, or it fails within FetchTimeout.             *)
(***************************************************************************)
EXTENDS Migrations

CONSTANTS
  HeartbeatEvery,   \* nextHeartbeat - Date.now() after a heartbeat
  PollWait,         \* POLL_SECONDS
  Latency,          \* the slowest answer to a request that does not fail
  FetchTimeout,     \* AbortSignal.timeout of post
  Backoff,          \* delay after each number of failures in a row
  Jitter,           \* Math.random() * 500
  OfflineAfter,     \* WORKER_OFFLINE_AFTER_MS
  MaxFaults         \* bound: failing requests, deaths of the worker and jobs

Times == {HeartbeatEvery, PollWait, Latency, FetchTimeout, Jitter, OfflineAfter, MaxFaults}

ASSUME PresenceAssumption ==
  /\ Times \subseteq Nat
  /\ HeartbeatEvery > 0
  /\ Backoff \in [0..6 -> Nat]

VARIABLES
  worker,      \* the loop: where it is, for how long, failures in a row, and
               \* the request it waits for: whether the relay has seen it
               \* (reached) and whether it will fail (doomed)
  beatIn,      \* time until the next heartbeat is due
  known,       \* the worker has a row
  silence,     \* time since last_seen
  excuse,      \* history: time since then in which the worker could not beat
  faults       \* faults so far

presenceVars == <<worker, beatIn, known, silence, excuse, faults>>
systemVars == <<migrationVars, presenceVars>>

\* Longer silences make no difference.
Cap == OfflineAfter + 1
Upto(n) == IF n < Cap THEN n ELSE Cap

Requests == {"beating", "polling"}
Busy == {"handling", "waiting", "down"}

LoopState == [at : Requests \cup Busy \cup {"loop"}, elapsed : Nat, failures : 0..6,
              reached : BOOLEAN, doomed : BOOLEAN]

PresenceTypeOK ==
  /\ MigrationTypeOK
  /\ worker \in LoopState
  /\ beatIn \in 0..HeartbeatEvery
  /\ known \in BOOLEAN
  /\ silence \in 0..Cap
  /\ excuse \in 0..Cap
  /\ faults \in 0..MaxFaults

At(place, failures) ==
  [at |-> place, elapsed |-> 0, failures |-> failures, reached |-> FALSE, doomed |-> FALSE]

PresenceInit ==
  /\ Init
  /\ worker = At("loop", 0)
  /\ beatIn = 0
  /\ known = FALSE
  /\ silence = 0
  /\ excuse = 0
  /\ faults = 0

Serving == \E p \in Relays : relay[p].at = "serving"

\* One fault more.
Fault == faults < MaxFaults /\ faults' = faults + 1

-----------------------------------------------------------------------------
(* The loop of the worker *)

\* A request is sent; where no relay serves it fails.
Send(place, doomed) ==
  /\ ~Serving => doomed
  /\ IF Serving /\ doomed THEN Fault ELSE UNCHANGED faults
  /\ worker' = [At(place, worker.failures) EXCEPT !.doomed = doomed]
  /\ UNCHANGED <<beatIn, known, silence, excuse>>

SendHeartbeat(doomed) ==
  /\ worker.at = "loop"
  /\ beatIn = 0
  /\ Send("beating", doomed)

\* Slip: an unknown worker is inserted, a known one is not updated.
InsertOnly == IF known THEN UNCHANGED <<silence, excuse>> ELSE silence' = 0 /\ excuse' = 0

SeenNow == silence' = 0 /\ excuse' = 0

\* RelayStore.heartbeat; the answer may still get lost.
RelayHeartbeat ==
  /\ worker.at = "beating"
  /\ ~worker.reached
  /\ Serving
  /\ known' = TRUE
  /\ SeenNow
  /\ worker' = [worker EXCEPT !.reached = TRUE]
  /\ UNCHANGED <<beatIn, faults>>

HeartbeatAnswered ==
  /\ worker.at = "beating"
  /\ worker.reached
  /\ ~worker.doomed
  /\ worker' = At("loop", worker.failures)
  /\ beatIn' = HeartbeatEvery
  /\ UNCHANGED <<known, silence, excuse, faults>>

SendPoll(doomed) ==
  /\ worker.at = "loop"
  /\ beatIn > 0
  /\ Send("polling", doomed)

\* Slip: a poll puts the next heartbeat off.
PutOff == HeartbeatEvery

StillDue == beatIn

PollEmpty ==
  /\ worker.at = "polling"
  /\ ~worker.doomed
  /\ worker' = At("loop", 0)
  /\ beatIn' = StillDue
  /\ UNCHANGED <<known, silence, excuse, faults>>

\* The time of what the worker was at goes to the excuse, unless it did so
\* tick by tick.
Excused == IF worker.doomed THEN excuse ELSE Upto(excuse + worker.elapsed)

PollJob ==
  /\ worker.at = "polling"
  /\ ~worker.doomed
  /\ Fault
  /\ worker' = At("handling", worker.failures)
  /\ UNCHANGED <<beatIn, known, silence>>
  /\ excuse' = Excused

JobEnds ==
  /\ worker.at = "handling"
  /\ worker' = At("loop", 0)
  /\ UNCHANGED <<beatIn, known, silence, excuse, faults>>

\* Slip: the exponent has no limit.
WaitsLonger(failures) == At("waiting", failures + 1)

WaitsAfter(failures) == At("waiting", IF failures < 6 THEN failures + 1 ELSE 6)

\* A request, or the job, throws.
LoopFails ==
  /\ \/ worker.at = "handling"
     \/ worker.at \in Requests /\ worker.doomed
  /\ worker' = WaitsAfter(worker.failures)
  /\ UNCHANGED <<beatIn, known, silence, excuse, faults>>

WaitOver ==
  /\ worker.at = "waiting"
  /\ worker.elapsed >= Backoff[worker.failures]
  /\ worker' = At("loop", worker.failures)
  /\ UNCHANGED <<beatIn, known, silence, excuse, faults>>

WorkerDies ==
  /\ worker.at # "down"
  /\ Fault
  /\ worker' = At("down", 0)
  /\ excuse' = Excused
  /\ UNCHANGED <<beatIn, known, silence>>

\* The scheduled task starts it again.
WorkerStarts ==
  /\ worker.at = "down"
  /\ worker' = At("loop", 0)
  /\ beatIn' = 0
  /\ UNCHANGED <<known, silence, excuse, faults>>

WorkerStep ==
  \/ \E doomed \in BOOLEAN : SendHeartbeat(doomed) \/ SendPoll(doomed)
  \/ RelayHeartbeat
  \/ HeartbeatAnswered
  \/ PollEmpty
  \/ PollJob
  \/ JobEnds
  \/ LoopFails
  \/ WaitOver
  \/ WorkerDies
  \/ WorkerStarts

-----------------------------------------------------------------------------
(* Time, and the relay's own steps *)

\* How long the worker stays where it is at most.
Longest ==
  CASE worker.at = "loop" -> 0
    [] worker.at \in Requests /\ worker.doomed -> FetchTimeout
    [] worker.at = "beating" -> Latency
    [] worker.at = "polling" -> PollWait + Latency
    [] worker.at = "waiting" -> Backoff[worker.failures] + Jitter
    [] OTHER -> 1

Timed == worker.at \in Requests \cup {"waiting"}

Tick ==
  /\ worker.elapsed < Longest
  /\ worker' = IF Timed THEN [worker EXCEPT !.elapsed = @ + 1] ELSE worker
  /\ beatIn' = IF beatIn > 0 THEN beatIn - 1 ELSE 0
  /\ silence' = IF known THEN Upto(silence + 1) ELSE 0
  /\ excuse' = IF worker.at \in Busy \/ worker.doomed THEN Upto(excuse + 1) ELSE excuse
  /\ UNCHANGED <<known, faults>>

\* The relay ends: what the worker waits for fails.
RelayEnds ==
  IF worker.at \in Requests
  THEN /\ worker' = [worker EXCEPT !.doomed = TRUE]
       /\ excuse' = Excused
       /\ UNCHANGED <<beatIn, known, silence, faults>>
  ELSE UNCHANGED presenceVars

RelayStep ==
  /\ Next
  /\ IF Serving /\ ~Serving' THEN RelayEnds ELSE UNCHANGED presenceVars

PresenceNext ==
  \/ RelayStep
  \/ WorkerStep /\ UNCHANGED migrationVars
  \/ Tick /\ UNCHANGED migrationVars

PresenceSpec == PresenceInit /\ [][PresenceNext]_systemVars

\* Time passes, the loop goes on, requests end, jobs do, and the task starts
\* the worker again.  Nothing is owed by who starts the relay.
Loop ==
  \/ \E doomed \in BOOLEAN : SendHeartbeat(doomed) \/ SendPoll(doomed)
  \/ HeartbeatAnswered
  \/ PollEmpty
  \/ JobEnds
  \/ LoopFails
  \/ WaitOver
  \/ WorkerStarts

PresenceFairness ==
  /\ WF_systemVars(Tick /\ UNCHANGED migrationVars)
  /\ WF_systemVars(Loop /\ UNCHANGED migrationVars)
  /\ WF_systemVars(RelayHeartbeat /\ UNCHANGED migrationVars)

FairPresence == PresenceSpec /\ PresenceFairness

-----------------------------------------------------------------------------
(* Correctness *)

\* RelayStore.isWorkerOnline
Online == known /\ silence <= OfflineAfter

\* What a worker with nothing to do may leave between two heartbeats: the
\* answer to one, the interval, a poll begun just before its end, and the way
\* of the next.
Budget == Latency + HeartbeatEvery + (PollWait + Latency) + Latency

\* The relay counts no more silence than the worker had reason for: jobs,
\* failed requests, waits after them and its own absence.  Where the budget
\* fits into OfflineAfter, a worker the relay reports offline was kept from
\* its heartbeat; a job alone does that (client.ts:178).
SilenceIsAccounted == known => silence <= Budget + excuse

\* When the faults have ended and a relay serves for good, the worker is
\* online for good: no error and no wait keeps the loop from its heartbeat.
ComesBack == <>[]Serving => <>[]Online
=============================================================================
