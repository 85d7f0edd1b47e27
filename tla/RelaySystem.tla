---------------------------- MODULE RelaySystem ----------------------------
(***************************************************************************)
(* A tool call from end to end: the MCP handler and RelayService wait on   *)
(* the jobs table, the one sequential worker polls, executes and posts its *)
(* reply, and requests and responses between them get lost or come late.   *)
(* Either process may crash; the table survives.                           *)
(*                                                                         *)
(* The worker awaits one tool at a time, but a handler whose call was given *)
(* up runs on (a stray), and asks whatever approval handler it then finds. *)
(*                                                                         *)
(* A job and the call that created it share their name.  Both clocks are   *)
(* `now`.                                                                  *)
(***************************************************************************)
EXTENDS RelayStore, Sequences

CONSTANTS
  Questions,      \* the sequences of questions a job's tool may have to ask: that
                  \* depends on the policy and the window when it runs
  Summaries,      \* the summaries users are asked about
  WindowJobs,     \* jobs of the tools that await their window before they ask
  ApprovalTtl,    \* ttlMs of createApproval
  WorkerCrashes, RelayCrashes   \* bounds: may a process crash at all

\* What the worker's client answers with.
WorkerBodies == {"done", "TOOL_FAILED", "EXECUTION_FAILED", "INVALID_APPROVAL"}

ASSUME SystemAssumption == WorkerBodies \subseteq Bodies /\ ApprovalTtl \in Nat
ASSUME QuestionsAssumption ==
  /\ Questions \in [Jobs -> SUBSET Seq(Summaries)]
  /\ "" \notin Summaries

VARIABLES
  calls,    \* the MCP request of each job
  worker,   \* the worker's main loop
  tickets,  \* PolicyEngine.tickets, the unused ones
  strays,   \* handlers whose call is over: awaiting a window, or operating
  net,      \* posted replies the relay has not read yet
  effects,  \* history: how often each mutation took effect on the machine
  asked     \* history: what each ticket of createApproval was about, and whose
            \* handler had asked

workerVars == <<worker, tickets, strays, effects, asked>>
vars == <<storeVars, calls, workerVars, net>>

NoCall == [phase |-> "idle", aborted |-> FALSE, ticket |-> 0, outcome |-> ""]
Idle == [phase |-> "idle", job |-> "", token |-> 0, approval |-> 0, kind |-> "",
         approved |-> "", question |-> "", by |-> ""]

SystemInit ==
  /\ Init
  /\ calls = [j \in Jobs |-> NoCall]
  /\ worker = Idle
  /\ tickets = {}
  /\ strays = {}
  /\ net = {}
  /\ effects = [j \in Jobs |-> 0]
  /\ asked = {}

CallPhases == {"idle", "waiting", "asked", "resumed", "done"}
Outcomes == {"", "WORKER_OFFLINE", "CANCELLED", "INVALID_APPROVAL", "lost"} \cup Ended
Kinds == {"completed", "failed", "approval-required"}
Message == [job : Jobs, token : Nat, kind : Kinds, body : Bodies \cup {""},
            expires : Nat]

SystemTypeOK ==
  /\ TypeOK
  /\ calls \in [Jobs -> [phase : CallPhases, aborted : BOOLEAN, ticket : Nat,
                         outcome : Outcomes]]
  /\ worker \in [phase : {"idle", "leased", "executing", "executed", "posting",
                          "refused"},
                 job : Jobs \cup {""}, token : Nat, approval : Nat,
                 kind : Kinds \cup {""}, approved : Summaries \cup {""},
                 question : Summaries \cup {""}, by : Jobs \cup {""}]
  /\ tickets \subseteq [job : Jobs, id : Nat, summary : Summaries, expires : Nat]
  /\ strays \subseteq [job : Jobs, token : Nat, at : {"window", "operating"}]
  /\ net \subseteq Message
  /\ effects \in [Jobs -> Nat]
  /\ asked \subseteq [job : Jobs, id : Nat, summary : Summaries, by : Jobs]

-----------------------------------------------------------------------------
(* RelayService and the MCP handler *)

EndCall(j, outcome) ==
  calls' = [calls EXCEPT ![j] = [@ EXCEPT !.phase = "done", !.outcome = outcome]]

SetPhase(j, phase) == calls' = [calls EXCEPT ![j] = [@ EXCEPT !.phase = phase]]

Waits(j) == calls[j].phase \in {"waiting", "resumed"}

\* Without a recent heartbeat nothing is created.
BeginOffline(j) ==
  /\ calls[j].phase = "idle"
  /\ EndCall(j, "WORKER_OFFLINE")
  /\ UNCHANGED <<storeVars, workerVars, net>>

BeginCall(j) ==
  /\ calls[j].phase = "idle"
  /\ CreateJob(j)
  /\ SetPhase(j, "waiting")
  /\ UNCHANGED <<workerVars, net>>

\* The poll of waitForStep: only the first wait of a call stops at a question.
Observe(j) ==
  /\ Waits(j)
  /\ \/ jobs[j].state \in Ended /\ EndCall(j, jobs[j].state)
     \/ /\ jobs[j].state = "approval-pending"
        /\ calls[j].phase = "waiting"
        /\ calls' = [calls EXCEPT ![j] =
             [@ EXCEPT !.phase = "asked", !.ticket = jobs[j].ticket]]
  /\ UNCHANGED <<storeVars, workerVars, net>>

\* The abort listener cancels; the loop then throws whatever the job's state.
AbortCall(j) ==
  /\ Waits(j)
  /\ Cancel(j)
  /\ EndCall(j, "CANCELLED")
  /\ UNCHANGED <<workerVars, net>>

\* No listener is attached while the user is being asked (call, beginCall).
AbortAsked(j) ==
  /\ calls[j].phase = "asked" /\ ~calls[j].aborted
  /\ calls' = [calls EXCEPT ![j] = [@ EXCEPT !.aborted = TRUE]]
  /\ UNCHANGED <<storeVars, workerVars, net>>

\* Slip: a phase the MCP handler does not have.
AfterResumeUnknown(j) == SetPhase(j, "resuming")

\* After the answer is stored, waitForStep throws at once for an aborted signal.
AfterResume(j) ==
  IF calls[j].aborted THEN EndCall(j, "CANCELLED") ELSE SetPhase(j, "resumed")

Resume(j) ==
  /\ calls[j].phase = "asked"
  /\ \/ /\ \/ AcceptApproval(j, calls[j].ticket, RequestHash[j])
           \/ DeclineApproval(j, calls[j].ticket, RequestHash[j])
        /\ AfterResume(j)
     \/ /\ ~TicketOpen(j, calls[j].ticket, RequestHash[j])
        /\ EndCall(j, "INVALID_APPROVAL")
        /\ UNCHANGED storeVars
  /\ UNCHANGED <<workerVars, net>>

\* Waits end with the process, and so does the key that signs requestState.
RelayCrash ==
  /\ RelayCrashes
  /\ calls' = [j \in Jobs |->
       IF calls[j].phase \in {"waiting", "asked", "resumed"}
       THEN [calls[j] EXCEPT !.phase = "done", !.outcome = "lost"]
       ELSE calls[j]]
  /\ UNCHANGED <<storeVars, workerVars, net>>

-----------------------------------------------------------------------------
(* The worker: poll, handle *)

\* The relay leases for the poll; its response may be lost.
Poll(j) ==
  /\ worker.phase = "idle"
  /\ Lease(j)
  /\ \/ worker' = [phase |-> "leased", job |-> j, token |-> jobs'[j].leaseToken,
                   approval |-> ApprovalSent(jobs'[j]), kind |-> "",
                   approved |-> "", question |-> "", by |-> ""]
     \/ UNCHANGED worker
  /\ UNCHANGED <<calls, tickets, strays, net, effects, asked>>

\* What execute was called with, and was asked meanwhile, ends with it.
Returned(phase, kind) ==
  worker' = [worker EXCEPT !.phase = phase, !.kind = kind,
                           !.approved = "", !.question = "", !.by = ""]

Post(j, kind, body, expires) ==
  /\ net' = net \cup {[job |-> j, token |-> worker.token, kind |-> kind,
                       body |-> body, expires |-> expires]}
  /\ Returned("posting", kind)

\* consumeApproval: unused, unexpired and for a request with the same hash.
Consumable ==
  {t \in tickets : /\ t.job = worker.job /\ t.id = worker.approval
                   /\ t.expires > now}

\* execute is called with the summary of the ticket, if one was sent.
Executes(summary) ==
  worker' = [worker EXCEPT !.phase = "executing", !.approved = summary]

StartExecution ==
  /\ worker.phase = "leased"
  /\ \/ worker.approval = 0 /\ Executes("") /\ UNCHANGED tickets
     \/ \E t \in Consumable : Executes(t.summary) /\ tickets' = tickets \ {t}
  /\ UNCHANGED <<storeVars, calls, strays, net, effects, asked>>

RejectApproval ==
  /\ worker.phase = "leased"
  /\ worker.approval # 0 /\ Consumable = {}
  /\ Post(worker.job, "failed", "INVALID_APPROVAL", 0)
  /\ UNCHANGED <<storeVars, calls, tickets, strays, effects, asked>>

\* Slip: the approval handler approves whatever it is asked.
ApprovesAll(summary) == worker.phase = "executing"

\* The approval handler of the active execution, which every handler meets
\* that asks now, approves this summary and no other.
Approves(summary) == worker.phase = "executing" /\ summary = worker.approved

\* The tool of j runs through without a (further) question.
Permitted(j) ==
  \E questions \in Questions[j] :
    \A n \in DOMAIN questions : Approves(questions[n])

\* The tool of j comes to a question that is not approved.
Asks(j, summary) ==
  \E questions \in Questions[j] : \E n \in DOMAIN questions :
    /\ summary = questions[n] /\ ~Approves(summary)
    /\ \A k \in 1..(n - 1) : Approves(questions[k])

TakesEffect(j) ==
  effects' = [effects EXCEPT ![j] = IF j \in ReadOnlyJobs THEN 0 ELSE @ + 1]

ExecutionSucceeds ==
  /\ worker.phase = "executing" /\ worker.question = ""
  /\ Permitted(worker.job)
  /\ TakesEffect(worker.job)
  /\ Returned("executed", "")
  /\ UNCHANGED <<storeVars, calls, tickets, strays, net, asked>>

\* A tool that does not succeed may have taken effect all the same.
MayTakeEffect ==
  \/ UNCHANGED effects
  \/ Permitted(worker.job) /\ TakesEffect(worker.job)

\* Slip: a tool result with ok = false is submitted as a result.
ExecutionFailsUnseen ==
  /\ worker.phase = "executing"
  /\ Post(worker.job, "completed", "done", 0)
  /\ UNCHANGED <<storeVars, calls, tickets, strays, effects, asked>>

ExecutionFails ==
  /\ worker.phase = "executing" /\ worker.question = ""
  /\ MayTakeEffect
  /\ Post(worker.job, "failed", "TOOL_FAILED", 0)
  /\ UNCHANGED <<storeVars, calls, tickets, strays, asked>>

\* createApproval: a fresh ticket that lives no longer than the job.
CreateApproval(j, summary, by) ==
  LET deadline == IF jobs[j].expires < now + ApprovalTtl
                  THEN jobs[j].expires ELSE now + ApprovalTtl
      question == [job |-> j, id |-> worker.token, summary |-> summary, by |-> by]
  IN
  /\ tickets' = tickets \cup {[job |-> j, id |-> worker.token,
                               summary |-> summary, expires |-> deadline]}
  /\ asked' = asked \cup {question}
  /\ Post(j, "approval-required", "", deadline)

ExecutionAsks ==
  /\ worker.phase = "executing"
  /\ \E summary \in Summaries :
       /\ Asks(worker.job, summary)
       /\ CreateApproval(worker.job, summary, worker.job)
  /\ UNCHANGED <<storeVars, calls, strays, effects>>

\* The tool has ended, but a stray has asked meanwhile: execute throws
\* ApprovalNeeded with the stray's question, whatever the tool returned.
ExecutionCrossed ==
  /\ worker.phase = "executing" /\ worker.question # ""
  /\ MayTakeEffect
  /\ CreateApproval(worker.job, worker.question, worker.by)
  /\ UNCHANGED <<storeVars, calls, strays>>

PostCompleted ==
  /\ worker.phase = "executed"
  /\ Post(worker.job, "completed", "done", 0)
  /\ UNCHANGED <<storeVars, calls, tickets, strays, effects, asked>>

\* uploadExports fails; only file_export, a read-only tool, has anything to upload.
UploadFails ==
  /\ worker.phase = "executed"
  /\ worker.job \in ReadOnlyJobs
  /\ Post(worker.job, "failed", "EXECUTION_FAILED", 0)
  /\ UNCHANGED <<storeVars, calls, tickets, strays, effects, asked>>

-----------------------------------------------------------------------------
(* Calls that end before their handlers *)

\* The handler of the call that is given up stays where it is.
RunsOn(place) ==
  /\ worker.phase = "executing"
  /\ place = "window" => worker.job \in WindowJobs
  /\ place = "operating" => Permitted(worker.job)
  /\ strays' = strays \cup {[job |-> worker.job, token |-> worker.token, at |-> place]}

CancellationStates == {"cancelled", "indeterminate", "expired"}

\* watchCancellation aborts the call: callTool rejects at once.
AbortExecution ==
  /\ worker.phase \in {"executing", "executed"}
  /\ jobs[worker.job].state \in CancellationStates
  /\ worker' = Idle
  /\ UNCHANGED strays \/ RunsOn("window") \/ RunsOn("operating")
  /\ UNCHANGED <<storeVars, calls, tickets, net, effects, asked>>

LeaseOver(j, token) == ~HoldsLease(j, token) \/ jobs[j].leaseExpires <= now

\* The client's own limit of 60 s a request, longer than a lease: the call is
\* reported as failed.  A wait for a window is given no longer and ends along
\* with it (native-client.ts:35).
ExecutionTimesOut ==
  /\ worker.phase = "executing"
  /\ LeaseOver(worker.job, worker.token)
  /\ UNCHANGED strays \/ RunsOn("operating")
  /\ Post(worker.job, "failed", "EXECUTION_FAILED", 0)
  /\ UNCHANGED <<storeVars, calls, tickets, effects, asked>>

StrayTakesEffect(s) ==
  /\ s.at = "operating"
  /\ TakesEffect(s.job)
  /\ strays' = strays \ {s}
  /\ UNCHANGED <<storeVars, calls, worker, tickets, net, asked>>

\* The window is found, and the policy or the acceptance of the job that is
\* executing now permits the action.
StrayPermitted(s) ==
  /\ s.at = "window"
  /\ Permitted(s.job)
  /\ strays' = (strays \ {s}) \cup {[s EXCEPT !.at = "operating"]}
  /\ UNCHANGED <<storeVars, calls, worker, tickets, net, effects, asked>>

\* The question is left with the execution that is active now.
StrayAsks(s) ==
  /\ s.at = "window" /\ worker.phase = "executing"
  /\ \E summary \in Summaries :
       /\ Asks(s.job, summary)
       /\ worker' = [worker EXCEPT !.question = summary, !.by = s.job]
  /\ strays' = strays \ {s}
  /\ UNCHANGED <<storeVars, calls, tickets, net, effects, asked>>

\* The window is lost, the operation fails, or nobody is there to be asked.
StrayEnds(s) ==
  /\ strays' = strays \ {s}
  /\ UNCHANGED <<storeVars, calls, worker, tickets, net, effects, asked>>

WorkerCrash ==
  /\ WorkerCrashes
  /\ worker' = Idle
  /\ tickets' = {} /\ strays' = {}
  /\ UNCHANGED <<storeVars, calls, net, effects, asked>>

-----------------------------------------------------------------------------
(* The reply's way to the relay and the response's way back *)

Awaits(m) ==
  /\ worker.phase = "posting"
  /\ worker.job = m.job /\ worker.token = m.token /\ worker.kind = m.kind

\* The response reaches a worker that still waits for it, or is lost.
Respond(m, next) == UNCHANGED worker \/ (Awaits(m) /\ worker' = next)

Accepted(m) ==
  IF m.kind = "approval-required"
  THEN SubmitApproval(m.job, m.token, RequestHash[m.job], m.expires)
  ELSE SubmitOutcome(m.job, m.token, RequestHash[m.job], m.kind, m.body)

\* submitReply refuses: no lease under that token, or a question out of time.
Refuses(m) ==
  \/ ~HoldsLease(m.job, m.token)
  \/ /\ m.kind = "approval-required"
     /\ m.expires <= now \/ m.expires > jobs[m.job].expires

Deliver(m) ==
  /\ m \in net
  /\ net' = net \ {m}
  /\ \/ Accepted(m) /\ Respond(m, Idle)
     \/ /\ Refuses(m)
        /\ UNCHANGED storeVars
        /\ Respond(m, IF SameAnswer(m.job, m.kind, m.body) THEN Idle
                      ELSE [worker EXCEPT !.phase = "refused"])
  /\ UNCHANGED <<calls, tickets, strays, effects, asked>>

Lose(m) ==
  /\ m \in net
  /\ net' = net \ {m}
  /\ UNCHANGED <<storeVars, calls, workerVars>>

\* A 409 is fine when the job was given up meanwhile.
AcceptRefusal ==
  /\ worker.phase = "refused"
  /\ jobs[worker.job].state \in CancellationStates
  /\ worker' = Idle
  /\ UNCHANGED <<storeVars, calls, tickets, strays, net, effects, asked>>

\* submit throws on a timeout, a lost connection, any other 409.  For a
\* completed reply the catch of the same try then reports a failure, unless
\* the watcher has aborted the execution; for any other the loop backs off.
SubmitThrows ==
  /\ worker.phase \in {"posting", "refused"}
  /\ \/ /\ worker.kind = "completed"
        /\ Post(worker.job, "failed", "EXECUTION_FAILED", 0)
     \/ /\ worker.kind = "completed" => jobs[worker.job].state \in CancellationStates
        /\ worker' = Idle
        /\ UNCHANGED net
  /\ UNCHANGED <<storeVars, calls, tickets, strays, effects, asked>>

-----------------------------------------------------------------------------
CallStep(j) ==
  \/ BeginOffline(j)
  \/ BeginCall(j)
  \/ Observe(j)
  \/ AbortCall(j)
  \/ AbortAsked(j)
  \/ Resume(j)

WorkerStep ==
  \/ StartExecution
  \/ RejectApproval
  \/ ExecutionSucceeds
  \/ ExecutionFails
  \/ ExecutionAsks
  \/ ExecutionCrossed
  \/ PostCompleted
  \/ UploadFails
  \/ AbortExecution
  \/ ExecutionTimesOut
  \/ AcceptRefusal
  \/ SubmitThrows
  \/ WorkerCrash

StrayStep(s) ==
  \/ StrayTakesEffect(s)
  \/ StrayPermitted(s)
  \/ StrayAsks(s)
  \/ StrayEnds(s)

TimerStep == (Tick \/ Sweep) /\ UNCHANGED <<calls, workerVars, net>>

SystemNext ==
  \/ TimerStep
  \/ RelayCrash
  \/ WorkerStep
  \/ \E j \in Jobs : CallStep(j) \/ Poll(j)
  \/ \E s \in strays : StrayStep(s)
  \/ \E m \in net : Deliver(m) \/ Lose(m)

SystemSpec == SystemInit /\ [][SystemNext]_vars

\* Time passes, the maintenance timer runs and waits poll; nothing is assumed
\* of the worker, the network or the users.
SystemFairness ==
  /\ WF_vars(TimerStep)
  /\ \A j \in Jobs : WF_vars(Observe(j))

FairSystemSpec == SystemSpec /\ SystemFairness

-----------------------------------------------------------------------------
(* Correctness *)

Mutations == Jobs \ ReadOnlyJobs

\* The job came back with the question of another job's stray.
AskedByAnother(j) == \E q \in asked : q.job = j /\ q.by # j

UserAccepted(summary, k) ==
  \E q \in asked : q.job = k /\ q.summary = summary /\ q.id \in granted[k]

\* All that a run of j's tool asks was accepted: in answer to that very job, or,
\* for a job that was given up, to another that asked the same.
Confirmed(j) ==
  \E questions \in Questions[j] : \A n \in DOMAIN questions :
    \E k \in Jobs : /\ UserAccepted(questions[n], k)
                    /\ k = j \/ jobs[j].state = "indeterminate"

\* No loss, delay, retry or crash makes a mutation take effect twice on the
\* machine, and no approval round but one that another job's stray began.
\* Even that takes effect again at most once for each question the user has
\* accepted about the job, and what outlived its call counts, too.
AppliedAtMostOnce ==
  \A j \in Mutations :
    /\ AskedByAnother(j) \/ effects[j] <= 1
    /\ \A n \in 1..(effects[j] - 1) : n \in granted[j]

\* A mutation the policy wants confirmed takes effect only after the user
\* accepted what it has to ask, through a restart of the worker too (which
\* forgets its tickets): in answer to that very job, unless its call was given
\* up, its row says that its outcome is unknown, and its handler ran on and met
\* the acceptance of another job that asked the same.
AppliedOnlyIfConfirmed == \A j \in Mutations : effects[j] > 0 => Confirmed(j)

\* A mutation reported cancelled or expired never ran and never will: once
\* its row says so it takes no effect any more, and had none before, unless
\* it came back with a stray's question.  A completed one did take effect,
\* and once but for that case; no late or repeated reply of another attempt
\* stands in for it.
RowTellsEffect ==
  \A j \in Mutations :
    /\ jobs[j].state \in {"cancelled", "expired"} => AskedByAnother(j) \/ effects[j] = 0
    /\ jobs[j].state = "completed" =>
         effects[j] = 1 \/ (AskedByAnother(j) /\ effects[j] > 1)

\* The question a user is looking at is the job's latest: no newer one has
\* replaced it, and an answer is not filed under another question.
PromptIsCurrent ==
  \A j \in Jobs :
    calls[j].phase = "asked" =>
      /\ calls[j].ticket = jobs[j].ticket
      /\ calls[j].ticket \notin granted[j]

\* A caller waiting for a mutation is answered or asked in the end, with the
\* worker dead, the replies lost and the user gone.
MutationCallReturns == \A j \in Mutations : Waits(j) ~> ~Waits(j)

-----------------------------------------------------------------------------
(* Statements of the repository that the code does not keep *)

\* A mutation that may have taken effect is not reported as failed when only
\* contact was lost (cloud-agent-handoff.md:51).
LostContactIsNotFailure ==
  \A j \in Mutations : jobs[j].answer = "EXECUTION_FAILED" => effects[j] = 0

\* Every call is answered, with a timeout if need be (cloud-agent-handoff.md:37).
EveryCallReturns == \A j \in Jobs : Waits(j) ~> ~Waits(j)
=============================================================================
