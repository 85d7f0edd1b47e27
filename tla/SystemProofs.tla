----------------------------- MODULE SystemProofs -----------------------------
(***************************************************************************)
(* Theorems about RelaySystem, for any set of jobs, any timeouts and any   *)
(* loss, delay, repetition and crash.                                      *)
(***************************************************************************)
EXTENDS RelaySystem, RelayStoreProofs

-----------------------------------------------------------------------------
(* The inductive invariant *)

\* No job outlives the horizon.
LivesOn(j) == jobs[j].expires <= CreateUntil + JobTimeout

\* Every token in the worker's hands or under way is one that was drawn.
Drawn(job, token) == job \in Jobs /\ token \in 1..jobs[job].attempt

TokensDrawn ==
  /\ worker.phase # "idle" => Drawn(worker.job, worker.token)
  /\ \A m \in net : Drawn(m.job, m.token)

\* An answer has a body.
AnswersHaveBodies == \A m \in net : m.kind # "approval-required" => m.body \in Bodies

\* The approval the worker was sent is the user's.
ApprovalHeld ==
  worker.phase # "idle" /\ worker.approval # 0 => worker.approval \in granted[worker.job]

\* What stands in a ticket was asked of the user under that ticket.
TicketsAsked ==
  \A t \in tickets :
    t.id # 0 /\ \E q \in asked : q.job = t.job /\ q.id = t.id /\ q.summary = t.summary

\* The summary an execution approves was accepted for its job.
ApprovedAccepted == worker.approved # "" => UserAccepted(worker.approved, worker.job)

\* A question left with an execution is a stray's, of another job than the
\* mutation that executes.
LeftByStray ==
  worker.question # "" =>
    worker.by \in Jobs /\ (worker.job \in Mutations => worker.by # worker.job)

\* The worker has a job and has not answered it; it has not operated either.
Holds(j) == worker.phase \in {"leased", "executing", "executed"} /\ worker.job = j
Fresh(j) == worker.phase \in {"leased", "executing"} /\ worker.job = j

\* While the worker holds a mutation nobody else has a say: no reply of this
\* attempt is under way, no stray of it runs, and the relay has at most given
\* the job up.
HeldAlone(j) ==
  Holds(j) =>
    /\ jobs[j].state \in {"leased", "indeterminate"}
    /\ worker.token = jobs[j].attempt
    /\ \A m \in net : m.job = j => m.token # worker.token
    /\ \A s \in strays : s.job # j

\* A stray of a mutation is the only one, its row never goes back to the queue
\* and no reply of its attempt but a failure is under way.  One that still
\* awaits its window was given up by the relay.
StrayAlone(j) ==
  \A s \in strays : s.job = j =>
    /\ jobs[j].state \in {"leased", "indeterminate", "failed"}
    /\ s.at = "window" => jobs[j].state = "indeterminate"
    /\ \A m \in net : m.job = j /\ m.token = jobs[j].attempt => m.kind = "failed"
    /\ \A t \in strays : t.job = j => t = s

\* A mutation takes effect at most once for each time it was handed out, and
\* one of these is left as long as its tool may still take effect.
EffectsCounted(j) ==
  /\ effects[j] <= jobs[j].attempt
  /\ Fresh(j) => effects[j] < jobs[j].attempt
  /\ \A s \in strays : s.job = j => effects[j] < jobs[j].attempt

\* A mutation that took effect did so once, under the last attempt, which will
\* never ask: the row cannot come back to the queue.  (Unless a stray of
\* another job asked in its name.)
AppliedFinally(j) ==
  /\ effects[j] <= 1
  /\ effects[j] > 0 =>
       /\ jobs[j].state \in {"leased", "indeterminate", "completed", "failed"}
       /\ ~Fresh(j)
       /\ \A s \in strays : s.job # j
       /\ \A m \in net :
            m.job = j /\ m.kind = "approval-required" => m.token # jobs[j].attempt

\* What says that a mutation was done is true.
DoneIsDone(j) ==
  /\ worker.phase = "executed" /\ worker.job = j => effects[j] > 0
  /\ worker.phase \in {"posting", "refused"} /\ worker.job = j /\ worker.kind = "completed" =>
       effects[j] > 0
  /\ \A m \in net : m.job = j /\ m.kind = "completed" => effects[j] > 0
  /\ jobs[j].state = "completed" => effects[j] > 0

\* A mutation that took effect, or a stray of it that will, was confirmed.
EffectsConfirmed(j) ==
  /\ effects[j] > 0 => Confirmed(j)
  /\ \A s \in strays : s.job = j /\ s.at = "operating" => Confirmed(j)

\* The question a call has shown is open or will never be.
QuestionShown(j) ==
  calls[j].phase = "asked" =>
    /\ jobs[j].state \in {"approval-pending"} \cup Ended
    /\ calls[j].ticket = jobs[j].ticket
    /\ calls[j].ticket \notin granted[j]

MutationInv(j) ==
  /\ HeldAlone(j)
  /\ StrayAlone(j)
  /\ EffectsCounted(j)
  /\ AskedByAnother(j) \/ AppliedFinally(j)
  /\ DoneIsDone(j)
  /\ EffectsConfirmed(j)

SystemInv ==
  /\ IInv
  /\ SystemTypeOK
  /\ TokensDrawn
  /\ AnswersHaveBodies
  /\ ApprovalHeld
  /\ TicketsAsked
  /\ ApprovedAccepted
  /\ LeftByStray
  /\ \A j \in Jobs : LivesOn(j) /\ QuestionShown(j)
  /\ \A j \in Mutations : MutationInv(j)

-----------------------------------------------------------------------------
(* Steps of the table *)

\* What a sweep or a cancel makes of a row, and a lease of the rows it does not
\* hand out.
Onward(j, r, d) ==
  /\ d.attempt = r.attempt /\ d.expires = r.expires /\ d.ticket = r.ticket
  /\ \/ d.state = r.state
     \/ r.state \in {"queued", "approval-pending"} /\ d.state \in {"expired", "cancelled"}
     \/ r.state = "leased" /\ j \notin ReadOnlyJobs /\ d.state = "indeterminate"
     \/ r.state = "leased" /\ j \in ReadOnlyJobs /\ d.state \in {"queued", "cancelled"}

LEMMA SweptOnward ==
  ASSUME NEW j, NEW r \in Row
  PROVE  Onward(j, r, Swept(j, r))
<1>1. CASE Lapsed(r)
  BY <1>1 DEF Lapsed, LeaseLost, Swept, Onward, Row
<1>2. CASE ~Lapsed(r) /\ LeaseLost(r) /\ j \in ReadOnlyJobs /\ r.expires > now
  BY <1>2 DEF LeaseLost, Swept, Onward, Row, Released
<1>3. CASE ~Lapsed(r) /\ LeaseLost(r) /\ j \notin ReadOnlyJobs
  BY <1>3 DEF LeaseLost, Swept, Onward, Row, Released
<1>4. CASE /\ ~Lapsed(r)
           /\ ~(LeaseLost(r) /\ j \in ReadOnlyJobs /\ r.expires > now)
           /\ ~(LeaseLost(r) /\ j \notin ReadOnlyJobs)
  BY <1>4 DEF Swept, Onward
<1> QED
  BY <1>1, <1>2, <1>3, <1>4

LEMMA CancelledOnward ==
  ASSUME NEW j, NEW r \in Row
  PROVE  Onward(j, r, Cancelled(j, r))
<1> DEFINE Open == \/ r.state \in {"queued", "approval-pending"}
                   \/ r.state = "leased" /\ j \in ReadOnlyJobs
           Mutating == r.state = "leased" /\ j \notin ReadOnlyJobs
<1>1. CASE Open
  BY <1>1 DEF Cancelled, Onward, Row, Released
<1>2. CASE Mutating
  BY <1>2 DEF Cancelled, Onward, Row, Released
<1>3. CASE ~Open /\ ~Mutating
  BY <1>3 DEF Cancelled, Onward
<1> QED
  BY <1>1, <1>2, <1>3

\* The row that a lease hands out.
LEMMA LeasedRow ==
  ASSUME IInv, NEW j \in Jobs, Lease(j)
  PROVE  /\ jobs[j].state = "queued" \/ (jobs[j].state = "leased" /\ j \in ReadOnlyJobs)
         /\ jobs'[j].state = "leased"
         /\ jobs'[j].attempt = jobs[j].attempt + 1 /\ jobs'[j].leaseToken = jobs[j].attempt + 1
         /\ jobs'[j].expires = jobs[j].expires /\ jobs'[j].ticket = jobs[j].ticket
<1> DEFINE s == SweptJobs[j]
<1>1. s = Swept(j, jobs[j]) /\ jobs[j] \in Row /\ now \in Nat
  BY HorizonNat DEF SweptJobs, IInv, Good
<1>2. Onward(j, jobs[j], s) /\ s \in Row
  <2>1. Good(j, s, granted[j])
    BY SweptRowsGood
  <2> QED
    BY <1>1, <2>1, SweptOnward DEF Good
<1>3. s.state = "queued" /\ jobs'[j] = Leased(s)
  BY DEF Lease, Leasable, SweptJobs
<1> HIDE DEF s
<1>4. /\ jobs'[j].state = "leased"
      /\ jobs'[j].attempt = s.attempt + 1 /\ jobs'[j].leaseToken = s.attempt + 1
      /\ jobs'[j].expires = s.expires /\ jobs'[j].ticket = s.ticket
  BY <1>2, <1>3 DEF Leased, Row
<1> QED
  BY <1>2, <1>3, <1>4 DEF Onward

LEMMA OthersOnward ==
  ASSUME IInv, NEW j \in Jobs, Lease(j), NEW k \in Jobs, k # j
  PROVE  Onward(k, jobs[k], jobs'[k])
<1>1. jobs[k] \in Row
  BY DEF IInv, Good
<1>2. jobs'[k] = Swept(k, jobs[k])
  BY DEF Lease, SweptJobs
<1> QED
  BY <1>1, <1>2, SweptOnward

LEMMA SweepOnward ==
  ASSUME IInv, Sweep, NEW k \in Jobs
  PROVE  Onward(k, jobs[k], jobs'[k])
BY SweptOnward DEF IInv, Good, Sweep, SweptJobs

LEMMA CancelOnward ==
  ASSUME IInv, NEW j \in Jobs, Cancel(j), NEW k \in Jobs
  PROVE  Onward(k, jobs[k], jobs'[k])
<1>1. jobs[k] \in Row
  BY DEF IInv, Good
<1>2. jobs'[k] = IF k = j THEN Cancelled(k, jobs[k]) ELSE jobs[k]
  BY DEF IInv, Cancel
<1>3. Onward(k, jobs[k], jobs[k])
  BY DEF Onward
<1> QED
  BY <1>1, <1>2, <1>3, CancelledOnward

\* The row of a reply, and of an answered question.
LEMMA RepliedRow ==
  ASSUME IInv, NEW j \in Jobs, NEW token, NEW hash, NEW kind, NEW body, NEW expires,
         SubmitOutcome(j, token, hash, kind, body) \/ SubmitApproval(j, token, hash, expires)
  PROVE  /\ jobs[j].state = "leased" /\ jobs[j].attempt = token
         /\ jobs'[j].attempt = jobs[j].attempt /\ jobs'[j].expires = jobs[j].expires
         /\ SubmitOutcome(j, token, hash, kind, body) => jobs'[j].state = kind
         /\ SubmitApproval(j, token, hash, expires) =>
              jobs'[j].state = "approval-pending" /\ jobs'[j].ticket = token
         /\ \A k \in Jobs \ {j} : jobs'[k] = jobs[k]
         /\ granted' = granted
<1>1. /\ jobs[j] \in Row /\ jobs = [k \in Jobs |-> jobs[k]] /\ Coherent(jobs[j], granted[j])
      /\ jobs[j].state = "leased" /\ jobs[j].leaseToken = token
  BY DEF IInv, Good, SubmitOutcome, SubmitApproval, HoldsLease
<1>2. CASE SubmitOutcome(j, token, hash, kind, body)
  <2>1. /\ jobs' = [jobs EXCEPT ![j] = [Released(jobs[j]) EXCEPT !.state = kind, !.answer = body]]
        /\ granted' = granted
    BY <1>2 DEF SubmitOutcome
  <2>2. jobs'[j] = [Released(jobs[j]) EXCEPT !.state = kind, !.answer = body]
    BY <1>1, <2>1
  <2>3. \A k \in Jobs \ {j} : jobs'[k] = jobs[k]
    BY <1>1, <2>1
  <2>4. /\ jobs'[j].attempt = jobs[j].attempt /\ jobs'[j].expires = jobs[j].expires
        /\ jobs'[j].state = kind
    BY <1>1, <2>2 DEF Released, Row
  <2>5. jobs[j].attempt = token
    BY <1>1 DEF Coherent
  <2>6. ~SubmitApproval(j, token, hash, expires) \/ kind = "approval-pending"
    <3>1. SubmitApproval(j, token, hash, expires) => jobs'[j].state = "approval-pending"
      BY <1>1 DEF SubmitApproval, Released, Row
    <3> QED
      BY <2>4, <3>1
  <2>7. SubmitApproval(j, token, hash, expires) => jobs'[j].ticket = token
    BY <1>1 DEF SubmitApproval, Released, Row
  <2> QED
    BY <1>1, <2>1, <2>3, <2>4, <2>5, <2>6, <2>7
<1>3. CASE ~SubmitOutcome(j, token, hash, kind, body) /\ SubmitApproval(j, token, hash, expires)
  <2>1. /\ jobs' = [jobs EXCEPT ![j] =
             [Released(jobs[j]) EXCEPT !.state = "approval-pending",
                                       !.ticket = token, !.ticketExpires = expires]]
        /\ granted' = granted
    BY <1>3 DEF SubmitApproval
  <2>2. jobs'[j] = [Released(jobs[j]) EXCEPT !.state = "approval-pending",
                                             !.ticket = token, !.ticketExpires = expires]
    BY <1>1, <2>1
  <2>3. \A k \in Jobs \ {j} : jobs'[k] = jobs[k]
    BY <1>1, <2>1
  <2>4. /\ jobs'[j].attempt = jobs[j].attempt /\ jobs'[j].expires = jobs[j].expires
        /\ jobs'[j].state = "approval-pending" /\ jobs'[j].ticket = token
    BY <1>1, <2>2 DEF Released, Row
  <2>5. jobs[j].attempt = token
    BY <1>1 DEF Coherent
  <2> QED
    BY <1>1, <1>3, <2>1, <2>3, <2>4, <2>5
<1> QED
  BY <1>2, <1>3

-----------------------------------------------------------------------------
(* Every step of the system is a step of the table or leaves it alone *)

\* What a step other than a reply makes of a row.
Moved(j, r, d) ==
  \/ Onward(j, r, d)
  \/ /\ r.state = "absent" /\ d.state = "queued"
     /\ d.attempt = r.attempt /\ d.expires <= CreateUntil + JobTimeout
  \/ /\ r.state = "queued" \/ (r.state = "leased" /\ j \in ReadOnlyJobs)
     /\ d.state = "leased" /\ d.attempt = r.attempt + 1
     /\ d.expires = r.expires /\ d.ticket = r.ticket
  \/ /\ r.state = "approval-pending" /\ d.state \in {"queued", "failed"}
     /\ d.attempt = r.attempt /\ d.expires = r.expires /\ d.ticket = r.ticket

LEMMA CreateMoved ==
  ASSUME IInv, NEW j \in Jobs, CreateJob(j), NEW k \in Jobs
  PROVE  Moved(k, jobs[k], jobs'[k])
<1>1. /\ jobs = [i \in Jobs |-> jobs[i]] /\ jobs[j] = NoRow
      /\ now \in Nat /\ now <= CreateUntil
  BY HorizonNat DEF IInv, Good, Coherent, CreateJob
<1>2. CASE k = j
  <2>1. jobs'[k] = [NoRow EXCEPT !.state = "queued", !.expires = now + JobTimeout]
    BY <1>1, <1>2 DEF CreateJob
  <2>2. /\ jobs'[k].state = "queued" /\ jobs'[k].attempt = 0
        /\ jobs'[k].expires = now + JobTimeout
    BY <2>1 DEF NoRow
  <2>3. NoRow.state = "absent" /\ NoRow.attempt = 0
    BY DEF NoRow
  <2>4. now + JobTimeout <= CreateUntil + JobTimeout
    BY <1>1, TimesAssumption
  <2> QED
    BY <1>1, <1>2, <2>2, <2>3, <2>4 DEF Moved
<1>3. CASE k # j
  BY <1>1, <1>3 DEF CreateJob, Moved, Onward
<1> QED
  BY <1>2, <1>3

LEMMA LeaseMoved ==
  ASSUME IInv, NEW j \in Jobs, Lease(j), NEW k \in Jobs
  PROVE  Moved(k, jobs[k], jobs'[k])
BY LeasedRow, OthersOnward DEF Moved

\* The row of an answered question.
LEMMA ResumedRow ==
  ASSUME IInv, NEW j \in Jobs, NEW t, NEW h,
         AcceptApproval(j, t, h) \/ DeclineApproval(j, t, h)
  PROVE  /\ t \in 1..jobs[j].attempt
         /\ jobs[j].state = "approval-pending" /\ jobs'[j].state \in {"queued", "failed"}
         /\ jobs'[j].attempt = jobs[j].attempt /\ jobs'[j].expires = jobs[j].expires
         /\ jobs'[j].ticket = jobs[j].ticket
         /\ \A k \in Jobs \ {j} : jobs'[k] = jobs[k] /\ granted'[k] = granted[k]
         /\ DeclineApproval(j, t, h) => granted' = granted
<1>1. /\ jobs[j] \in Row /\ jobs = [k \in Jobs |-> jobs[k]] /\ Coherent(jobs[j], granted[j])
      /\ granted = [k \in Jobs |-> granted[k]]
      /\ jobs[j].state = "approval-pending" /\ t = jobs[j].ticket
  BY DEF IInv, Good, AcceptApproval, DeclineApproval, TicketOpen
<1>2. t \in 1..jobs[j].attempt
  BY <1>1 DEF Coherent, Row
<1>3. CASE AcceptApproval(j, t, h)
  <2>1. jobs'[j] = [jobs[j] EXCEPT !.state = "queued", !.approved = TRUE]
    BY <1>1, <1>3 DEF AcceptApproval
  <2>2. /\ jobs'[j].state = "queued" /\ jobs'[j].attempt = jobs[j].attempt
        /\ jobs'[j].expires = jobs[j].expires /\ jobs'[j].ticket = jobs[j].ticket
    BY <1>1, <2>1 DEF Row
  <2>3. \A k \in Jobs \ {j} : jobs'[k] = jobs[k] /\ granted'[k] = granted[k]
    BY <1>1, <1>3 DEF AcceptApproval
  <2>4. ~DeclineApproval(j, t, h)
    <3>1. DeclineApproval(j, t, h) => jobs'[j].state = "failed"
      BY <1>1 DEF DeclineApproval, Row
    <3> QED
      BY <2>2, <3>1
  <2> QED
    BY <1>1, <1>2, <2>2, <2>3, <2>4
<1>4. CASE DeclineApproval(j, t, h)
  <2>1. jobs'[j] = [jobs[j] EXCEPT !.state = "failed", !.answer = "APPROVAL_DECLINED"]
    BY <1>1, <1>4 DEF DeclineApproval
  <2>2. /\ jobs'[j].state = "failed" /\ jobs'[j].attempt = jobs[j].attempt
        /\ jobs'[j].expires = jobs[j].expires /\ jobs'[j].ticket = jobs[j].ticket
    BY <1>1, <2>1 DEF Row
  <2>3. granted' = granted /\ \A k \in Jobs \ {j} : jobs'[k] = jobs[k]
    BY <1>1, <1>4 DEF DeclineApproval
  <2> QED
    BY <1>1, <1>2, <2>2, <2>3
<1> QED
  BY <1>3, <1>4

LEMMA ResumeMoved ==
  ASSUME IInv, NEW j \in Jobs, NEW t, NEW h,
         AcceptApproval(j, t, h) \/ DeclineApproval(j, t, h), NEW k \in Jobs
  PROVE  Moved(k, jobs[k], jobs'[k])
<1>1. CASE k = j
  BY <1>1, ResumedRow DEF Moved
<1>2. CASE k # j
  <2>1. jobs'[k] = jobs[k]
    BY <1>2, ResumedRow
  <2> QED
    BY <2>1 DEF Moved, Onward
<1> QED
  BY <1>1, <1>2

LEMMA WorkerKeepsTable == ASSUME WorkerStep PROVE UNCHANGED <<storeVars, calls>>
BY DEF WorkerStep, StartExecution, RejectApproval, ExecutionSucceeds, ExecutionFails,
       ExecutionAsks, ExecutionCrossed, PostCompleted, UploadFails, AbortExecution,
       ExecutionTimesOut, AcceptRefusal, SubmitThrows, WorkerCrash

LEMMA StrayKeepsTable ==
  ASSUME NEW s \in strays, StrayStep(s)
  PROVE  UNCHANGED <<storeVars, calls, tickets, net, asked>>
BY DEF StrayStep, StrayTakesEffect, StrayPermitted, StrayAsks, StrayEnds

\* What the relay is asked to store of a reply is what the table allows for.
LEMMA DeliverStores ==
  ASSUME SystemInv, NEW m \in net, Deliver(m)
  PROVE  [Next]_storeVars
<1> USE DEF SystemInv
<1>1. /\ m.job \in Jobs /\ m.token \in 1..jobs[m.job].attempt /\ m.kind \in Kinds
      /\ m.expires \in Nat
      /\ m.kind # "approval-required" => m.body \in Bodies
  BY DEF SystemTypeOK, Message, TokensDrawn, Drawn, AnswersHaveBodies
<1>2. RequestHash[m.job] \in Hashes
  BY <1>1, HashAssumption
<1>3. CASE UNCHANGED storeVars
  BY <1>3
<1>4. CASE m.kind # "approval-required" /\ Accepted(m)
  <2>1. m.kind \in {"completed", "failed"} /\ m.body \in Bodies
    BY <1>1, <1>4 DEF Kinds
  <2>2. SubmitOutcome(m.job, m.token, RequestHash[m.job], m.kind, m.body)
    BY <1>4 DEF Accepted
  <2> QED
    BY <1>1, <1>2, <2>1, <2>2 DEF Next
<1>5. CASE m.kind = "approval-required" /\ Accepted(m)
  <2>1. SubmitApproval(m.job, m.token, RequestHash[m.job], m.expires)
    BY <1>5 DEF Accepted
  <2>2. m.expires \in 1..Horizon
    <3>1. now \in Nat /\ now < m.expires /\ m.expires <= jobs[m.job].expires
      BY <2>1, HorizonNat DEF SubmitApproval, IInv
    <3>2. jobs[m.job].expires \in Nat /\ jobs[m.job].expires <= CreateUntil + JobTimeout
      BY <1>1 DEF IInv, Good, Row, LivesOn
    <3> QED
      BY <1>1, <3>1, <3>2, TimesAssumption DEF Horizon
  <2> QED
    BY <1>1, <1>2, <2>1, <2>2 DEF Next
<1> QED
  BY <1>3, <1>4, <1>5 DEF Deliver

\* The table's own specification allows every step of the system: callers,
\* worker and network only ever do to it what RelayStore's Next provides for.
LEMMA SystemStoreStep ==
  ASSUME SystemInv, [SystemNext]_vars
  PROVE  [Next]_storeVars
<1>0. IInv
  BY DEF SystemInv
<1>1. CASE TimerStep
  BY <1>1 DEF TimerStep, Next
<1>2. CASE RelayCrash \/ WorkerStep \/ UNCHANGED vars
  BY <1>2, WorkerKeepsTable DEF RelayCrash, vars
<1>3. ASSUME NEW j \in Jobs, CallStep(j) \/ Poll(j)
      PROVE  [Next]_storeVars
  <2>1. CASE UNCHANGED storeVars
    BY <2>1
  <2>2. CASE CreateJob(j) \/ Lease(j) \/ Cancel(j)
    BY <2>2 DEF Next
  <2>3. CASE \/ AcceptApproval(j, calls[j].ticket, RequestHash[j])
             \/ DeclineApproval(j, calls[j].ticket, RequestHash[j])
    <3>1. RequestHash[j] \in Hashes
      BY HashAssumption
    <3>2. calls[j].ticket \in 1..jobs[j].attempt
      BY <1>0, <2>3, ResumedRow
    <3> QED
      BY <2>3, <3>1, <3>2 DEF Next
  <2> QED
    BY <1>3, <2>1, <2>2, <2>3
    DEF CallStep, BeginOffline, BeginCall, Observe, AbortCall, AbortAsked, Resume, Poll
<1>4. ASSUME NEW m \in net, Deliver(m) \/ Lose(m)
      PROVE  [Next]_storeVars
  BY <1>4, DeliverStores DEF Lose
<1>5. CASE \E s \in strays : StrayStep(s)
  BY <1>5, StrayKeepsTable
<1> QED
  BY <1>1, <1>2, <1>3, <1>4, <1>5 DEF SystemNext

-----------------------------------------------------------------------------
(* The shapes of a step *)

\* The worker and its machine are not involved.
Calm ==
  /\ \A k \in Jobs : Moved(k, jobs[k], jobs'[k])
  /\ UNCHANGED workerVars
  /\ net' \subseteq net

\* The worker gets job j.
Handed(j) ==
  /\ Lease(j)
  /\ worker' = [phase |-> "leased", job |-> j, token |-> jobs'[j].leaseToken,
                approval |-> ApprovalSent(jobs'[j]), kind |-> "",
                approved |-> "", question |-> "", by |-> ""]
  /\ UNCHANGED <<tickets, strays, net, effects, asked>>

LEMMA StepShape ==
  ASSUME SystemInv, [SystemNext]_vars
  PROVE  \/ Calm
         \/ \E j \in Jobs : Handed(j)
         \/ WorkerStep
         \/ \E s \in strays : StrayStep(s)
         \/ \E m \in net : Deliver(m)
<1>0. IInv
  BY DEF SystemInv
<1>1. ASSUME UNCHANGED storeVars, NEW k \in Jobs
      PROVE  Moved(k, jobs[k], jobs'[k])
  BY <1>1 DEF storeVars, Moved, Onward
<1>2. CASE TimerStep
  <2>1. ASSUME NEW k \in Jobs PROVE Moved(k, jobs[k], jobs'[k])
    <3>1. CASE Tick
      BY <3>1 DEF Tick, Moved, Onward
    <3>2. CASE Sweep
      BY <1>0, <3>2, SweepOnward DEF Moved
    <3> QED
      BY <1>2, <3>1, <3>2 DEF TimerStep
  <2> QED
    BY <1>2, <2>1 DEF TimerStep, Calm, workerVars
<1>3. CASE RelayCrash \/ UNCHANGED vars
  BY <1>1, <1>3 DEF RelayCrash, vars, Calm, workerVars
<1>4. ASSUME NEW j \in Jobs, CallStep(j)
      PROVE  Calm
  <2>1. UNCHANGED <<workerVars, net>>
    BY <1>4 DEF CallStep, BeginOffline, BeginCall, Observe, AbortCall, AbortAsked, Resume
  <2>2. ASSUME NEW k \in Jobs PROVE Moved(k, jobs[k], jobs'[k])
    <3>1. CASE UNCHANGED storeVars
      BY <1>1, <3>1
    <3>2. CASE CreateJob(j)
      BY <1>0, <3>2, CreateMoved
    <3>3. CASE Cancel(j)
      BY <1>0, <3>3, CancelOnward DEF Moved
    <3>4. CASE \/ AcceptApproval(j, calls[j].ticket, RequestHash[j])
               \/ DeclineApproval(j, calls[j].ticket, RequestHash[j])
      BY <1>0, <3>4, ResumeMoved
    <3> QED
      BY <1>4, <3>1, <3>2, <3>3, <3>4
      DEF CallStep, BeginOffline, BeginCall, Observe, AbortCall, AbortAsked, Resume
  <2> QED
    BY <2>1, <2>2 DEF Calm
<1>5. ASSUME NEW j \in Jobs, Poll(j)
      PROVE  Calm \/ Handed(j)
  <2>1. CASE UNCHANGED worker
    BY <1>0, <1>5, <2>1, LeaseMoved DEF Poll, Calm, workerVars
  <2>2. CASE ~UNCHANGED worker
    BY <1>5, <2>2 DEF Poll, Handed
  <2> QED
    BY <2>1, <2>2
<1>6. ASSUME NEW m \in net, Lose(m)
      PROVE  Calm
  BY <1>1, <1>6 DEF Lose, Calm, workerVars
<1> QED
  BY <1>2, <1>3, <1>4, <1>5, <1>6 DEF SystemNext

\* Attempts are counted up only, and the user's word stays given.
LEMMA Grows ==
  ASSUME SystemInv, [SystemNext]_vars, NEW k \in Jobs
  PROVE  /\ jobs[k].attempt \in Nat /\ jobs'[k].attempt \in Nat
         /\ jobs[k].attempt <= jobs'[k].attempt
         /\ granted[k] \subseteq granted'[k]
<1>1. IInv /\ IInv' /\ [Next]_storeVars
  BY SystemStoreStep, NextIInv DEF SystemInv
<1>2. jobs[k].attempt \in Nat /\ jobs'[k].attempt \in Nat
  BY <1>1 DEF IInv, Good, Row
<1>3. jobs[k].attempt <= jobs'[k].attempt /\ granted[k] \subseteq granted'[k]
  <2>1. Follows(k, jobs[k], granted[k], jobs'[k], granted'[k])
    BY <1>1, NextFollows
  <2>2. CASE JobView(jobs'[k], granted'[k]) = JobView(jobs[k], granted[k])
    BY <1>2, <2>2 DEF JobView
  <2>3. CASE Promise!JobStep(k, JobView(jobs[k], granted[k]), JobView(jobs'[k], granted'[k]))
    BY <1>2, <2>3 DEF JobView, Promise!JobStep, Promise!Goes, Promise!Submit, Promise!Start,
       Promise!Ask, Promise!Grant, Promise!Refuse, Promise!Answer, Promise!Drop,
       Promise!Return, Promise!Lose
  <2> QED
    BY <2>1, <2>2, <2>3 DEF Follows
<1> QED
  BY <1>2, <1>3

\* The worker goes on with the job it has.
SameLease ==
  /\ worker.phase # "idle" /\ worker'.phase # "idle"
  /\ worker'.job = worker.job /\ worker'.token = worker.token
  /\ worker'.approval = worker.approval

\* execute has returned.
Forgets == worker'.approved = "" /\ worker'.question = ""

Begins ==
  /\ SameLease /\ worker.phase = "leased" /\ worker'.phase = "executing"
  /\ worker'.question = worker.question /\ worker'.by = worker.by
  /\ worker'.approved # "" => UserAccepted(worker'.approved, worker.job)
  /\ UNCHANGED <<net, strays, effects>>

\* The tool runs, with the user's word where that is needed.
Operates ==
  worker.phase = "executing" /\ Permitted(worker.job) /\ TakesEffect(worker.job)

\* Success is reported after the tool ran only, a question before; and a second
\* reply of the same attempt is a failure.
Replies ==
  /\ SameLease /\ Forgets /\ worker'.phase = "posting"
  /\ worker'.kind \in Kinds
  /\ worker'.kind = "completed" => worker.phase = "executed"
  /\ worker'.kind = "approval-required" => worker.phase = "executing"
  /\ worker.phase \in {"posting", "refused"} => worker'.kind = "failed"
  /\ net \subseteq net'
  /\ \A m \in net' \ net :
       /\ m \in Message
       /\ m.job = worker.job /\ m.token = worker.token /\ m.kind = worker'.kind
       /\ m.kind # "approval-required" => m.body \in Bodies

\* The tool took effect, and what is reported of it is no question, but for one
\* a stray left.
Succeeds ==
  /\ SameLease /\ Operates /\ UNCHANGED strays
  /\ \/ worker'.phase = "executed" /\ Forgets /\ UNCHANGED net
     \/ /\ Replies
        /\ worker'.kind = "approval-required" /\ worker.job \in Mutations =>
             AskedByAnother(worker.job)'

\* The handler of the execution stays when its call ends.
Leaves ==
  /\ UNCHANGED effects
  /\ \/ Replies /\ worker'.kind = "failed" /\ RunsOn("operating")
     \/ /\ worker' = Idle /\ UNCHANGED net
        /\ jobs[worker.job].state \in CancellationStates
        /\ RunsOn("window") \/ RunsOn("operating")

\* The worker gives up the job.
Drops == worker' = Idle /\ UNCHANGED <<net, effects>> /\ strays' \subseteq strays

LEMMA PostReplies ==
  ASSUME SystemInv, worker.phase # "idle",
         NEW kind \in Kinds, NEW body \in Bodies \cup {""}, NEW expires \in Nat,
         Post(worker.job, kind, body, expires),
         kind = "completed" => worker.phase = "executed",
         kind = "approval-required" => worker.phase = "executing",
         worker.phase \in {"posting", "refused"} => kind = "failed",
         kind # "approval-required" => body \in Bodies
  PROVE  Replies /\ worker'.kind = kind
<1> DEFINE m == [job |-> worker.job, token |-> worker.token, kind |-> kind,
                 body |-> body, expires |-> expires]
<1>1. worker.job \in Jobs /\ worker.token \in Nat
  BY DEF SystemInv, TokensDrawn, Drawn, SystemTypeOK
<1>2. m \in Message
  BY <1>1 DEF Message
<1>3. net' = net \cup {m}
  BY DEF Post
<1>4. m.job = worker.job /\ m.token = worker.token /\ m.kind = kind /\ m.body = body
  OBVIOUS
<1> HIDE DEF m
<1>5. /\ worker'.phase = "posting" /\ worker'.kind = kind /\ worker'.job = worker.job
      /\ worker'.token = worker.token /\ worker'.approval = worker.approval
      /\ Forgets
  BY DEF Post, Returned, Forgets, SystemInv, SystemTypeOK
<1> QED
  BY <1>2, <1>3, <1>4, <1>5 DEF Replies, SameLease

\* A question is asked in the name of the executing job.
LEMMA AskingReplies ==
  ASSUME SystemInv, worker.phase = "executing", NEW summary, NEW by,
         CreateApproval(worker.job, summary, by)
  PROVE  /\ Replies /\ worker'.kind = "approval-required"
         /\ asked' = asked \cup {[job |-> worker.job, id |-> worker.token,
                                 summary |-> summary, by |-> by]}
         /\ \E e \in Nat : tickets' = tickets \cup {[job |-> worker.job, id |-> worker.token,
                                                   summary |-> summary, expires |-> e]}
<1>1. worker.job \in Jobs
  BY DEF SystemInv, TokensDrawn, Drawn
<1>2. jobs[worker.job].expires \in Nat
  BY <1>1 DEF SystemInv, IInv, Good, Row
<1>3. now + ApprovalTtl \in Nat
  <2>1. now \in Nat /\ ApprovalTtl \in Nat
    BY SystemAssumption, HorizonNat DEF SystemInv, IInv
  <2> QED
    BY <2>1
<1>4. PICK e \in Nat :
        /\ Post(worker.job, "approval-required", "", e)
        /\ tickets' = tickets \cup {[job |-> worker.job, id |-> worker.token,
                                     summary |-> summary, expires |-> e]}
  BY <1>2, <1>3 DEF CreateApproval
<1>5. "approval-required" \in Kinds
  BY DEF Kinds
<1>6. Replies /\ worker'.kind = "approval-required"
  BY <1>4, <1>5, PostReplies
<1> QED
  BY <1>4, <1>6 DEF CreateApproval

LEMMA BeginShape ==
  ASSUME SystemInv, StartExecution
  PROVE  Begins
<1>0. /\ worker \in [phase : {"idle", "leased", "executing", "executed", "posting",
                              "refused"},
                     job : Jobs \cup {""}, token : Nat, approval : Nat,
                     kind : Kinds \cup {""}, approved : Summaries \cup {""},
                     question : Summaries \cup {""}, by : Jobs \cup {""}]
      /\ worker.phase = "leased" /\ UNCHANGED <<net, strays, effects>>
  BY DEF SystemInv, SystemTypeOK, StartExecution
<1>1. ASSUME NEW summary, Executes(summary),
             summary # "" => UserAccepted(summary, worker.job)
      PROVE  Begins
  <2>1. worker' = [worker EXCEPT !.phase = "executing", !.approved = summary]
    BY <1>1 DEF Executes
  <2>2. /\ worker'.phase = "executing" /\ worker'.approved = summary
        /\ worker'.job = worker.job /\ worker'.token = worker.token
        /\ worker'.approval = worker.approval /\ worker'.question = worker.question
        /\ worker'.by = worker.by
    BY <1>0, <2>1
  <2> QED
    BY <1>0, <1>1, <2>2 DEF Begins, SameLease
<1>2. CASE Executes("")
  BY <1>1, <1>2
<1>3. ASSUME NEW t \in Consumable, Executes(t.summary) PROVE Begins
  <2>1. t \in tickets /\ t.job = worker.job /\ t.id = worker.approval
    BY DEF Consumable
  <2>2. PICK q \in asked : q.job = t.job /\ q.id = t.id /\ q.summary = t.summary
    BY <2>1 DEF SystemInv, TicketsAsked
  <2>3. worker.approval \in granted[worker.job]
    BY <1>0, <2>1 DEF SystemInv, TicketsAsked, ApprovalHeld
  <2>4. UserAccepted(t.summary, worker.job)
    BY <2>1, <2>2, <2>3 DEF UserAccepted
  <2> QED
    BY <1>1, <1>3, <2>4
<1> QED
  BY <1>2, <1>3 DEF StartExecution

LEMMA WorkerShape ==
  ASSUME SystemInv, WorkerStep
  PROVE  \/ Begins
         \/ Replies /\ UNCHANGED <<strays, effects>>
         \/ Succeeds
         \/ Leaves
         \/ Drops
<1>0. worker \in [phase : {"idle", "leased", "executing", "executed", "posting",
                           "refused"},
                  job : Jobs \cup {""}, token : Nat, approval : Nat,
                  kind : Kinds \cup {""}, approved : Summaries \cup {""},
                  question : Summaries \cup {""}, by : Jobs \cup {""}]
  BY DEF SystemInv, SystemTypeOK
<1>1. {"done", "TOOL_FAILED", "EXECUTION_FAILED", "INVALID_APPROVAL"} \subseteq Bodies
  BY SystemAssumption DEF WorkerBodies
<1>2. {"completed", "failed", "approval-required"} = Kinds
  BY DEF Kinds
<1>3. CASE StartExecution
  BY <1>3, BeginShape
<1>4. CASE RejectApproval
  BY <1>1, <1>2, <1>4, PostReplies DEF RejectApproval
<1>5. CASE ExecutionSucceeds
  <2>1. /\ worker'.phase = "executed" /\ worker'.job = worker.job
        /\ worker'.token = worker.token /\ worker'.approval = worker.approval /\ Forgets
    BY <1>0, <1>5 DEF ExecutionSucceeds, Returned, Forgets
  <2> QED
    BY <1>5, <2>1 DEF ExecutionSucceeds, SameLease, Operates, Succeeds
<1>6. CASE ExecutionFails
  <2>1. Replies /\ worker'.kind = "failed"
    BY <1>1, <1>2, <1>6, PostReplies DEF ExecutionFails
  <2>2. UNCHANGED effects \/ Operates
    BY <1>6 DEF ExecutionFails, MayTakeEffect, Operates
  <2> QED
    BY <1>6, <2>1, <2>2 DEF ExecutionFails, Succeeds, Replies
<1>7. CASE ExecutionAsks
  BY <1>7, AskingReplies DEF ExecutionAsks
<1>8. CASE ExecutionCrossed
  <2>1. /\ Replies /\ worker'.kind = "approval-required"
        /\ asked' = asked \cup {[job |-> worker.job, id |-> worker.token,
                                summary |-> worker.question, by |-> worker.by]}
    BY <1>8, AskingReplies DEF ExecutionCrossed
  <2>2. worker.job \in Mutations => AskedByAnother(worker.job)'
    <3> DEFINE q == [job |-> worker.job, id |-> worker.token,
                     summary |-> worker.question, by |-> worker.by]
    <3>1. q \in asked' /\ q.job = worker.job /\ q.by = worker.by
      BY <2>1
    <3> HIDE DEF q
    <3>2. worker.job \in Mutations => worker.by # worker.job
      BY <1>8 DEF ExecutionCrossed, SystemInv, LeftByStray
    <3>3. worker'.job = worker.job
      BY <2>1 DEF Replies, SameLease
    <3> QED
      BY <3>1, <3>2, <3>3 DEF AskedByAnother
  <2>3. UNCHANGED effects \/ Operates
    BY <1>8 DEF ExecutionCrossed, MayTakeEffect, Operates
  <2> QED
    BY <1>8, <2>1, <2>2, <2>3 DEF ExecutionCrossed, Succeeds, Replies
<1>9. CASE PostCompleted
  BY <1>1, <1>2, <1>9, PostReplies DEF PostCompleted
<1>10. CASE UploadFails
  BY <1>1, <1>2, <1>10, PostReplies DEF UploadFails
<1>11. CASE AbortExecution
  BY <1>11 DEF AbortExecution, Leaves, Drops
<1>12. CASE ExecutionTimesOut
  <2>1. Replies /\ worker'.kind = "failed"
    BY <1>1, <1>2, <1>12, PostReplies DEF ExecutionTimesOut
  <2> QED
    BY <1>12, <2>1 DEF ExecutionTimesOut, Leaves
<1>13. CASE AcceptRefusal
  BY <1>13 DEF AcceptRefusal, Drops
<1>14. CASE SubmitThrows
  <2>1. CASE worker' = Idle /\ UNCHANGED net
    BY <1>14, <2>1 DEF SubmitThrows, Drops
  <2>2. CASE Post(worker.job, "failed", "EXECUTION_FAILED", 0)
    BY <1>1, <1>2, <1>14, <2>2, PostReplies DEF SubmitThrows
  <2> QED
    BY <1>14, <2>1, <2>2 DEF SubmitThrows
<1>15. CASE WorkerCrash
  BY <1>15 DEF WorkerCrash, Drops
<1> QED
  BY <1>3, <1>4, <1>5, <1>6, <1>7, <1>8, <1>9, <1>10, <1>11, <1>12, <1>13, <1>14, <1>15
  DEF WorkerStep

\* A reply is read: the table stores it or not, the worker hears of it or not.
Hears ==
  \/ UNCHANGED worker
  \/ worker' = Idle
  \/ /\ SameLease /\ worker.phase = "posting" /\ worker'.phase = "refused"
     /\ worker'.kind = worker.kind /\ worker'.approved = worker.approved
     /\ worker'.question = worker.question /\ worker'.by = worker.by

LEMMA DeliverShape ==
  ASSUME SystemInv, NEW m \in net, Deliver(m)
  PROVE  /\ Hears /\ net' \subseteq net
         /\ UNCHANGED <<calls, tickets, strays, effects, asked>>
         /\ Accepted(m) \/ UNCHANGED storeVars
<1>1. worker \in [phase : {"idle", "leased", "executing", "executed", "posting",
                           "refused"},
                  job : Jobs \cup {""}, token : Nat, approval : Nat,
                  kind : Kinds \cup {""}, approved : Summaries \cup {""},
                  question : Summaries \cup {""}, by : Jobs \cup {""}]
  BY DEF SystemInv, SystemTypeOK
<1>2. ASSUME worker.phase = "posting", worker' = [worker EXCEPT !.phase = "refused"]
      PROVE  Hears
  BY <1>1, <1>2 DEF Hears, SameLease
<1>3. Hears
  BY <1>2 DEF Deliver, Respond, Awaits, Hears
<1> QED
  BY <1>3 DEF Deliver

\* A stray leaves a question with the execution; nothing else of the worker is
\* involved.
Questioned ==
  /\ worker.phase = "executing"
  /\ \E summary \in Summaries, j \in Jobs :
       worker' = [worker EXCEPT !.question = summary, !.by = j]

LEMMA StrayShape ==
  ASSUME SystemInv, NEW s \in strays, StrayStep(s)
  PROVE  /\ UNCHANGED worker \/ (Questioned /\ worker'.by = s.job)
         /\ \/ UNCHANGED effects /\ strays' = strays \ {s}
            \/ s.at = "operating" /\ TakesEffect(s.job) /\ strays' = strays \ {s}
            \/ /\ s.at = "window" /\ Permitted(s.job) /\ UNCHANGED effects
               /\ strays' = (strays \ {s}) \cup {[s EXCEPT !.at = "operating"]}
<1>0. s.job \in Jobs /\ worker \in [phase : {"idle", "leased", "executing", "executed",
                                            "posting", "refused"},
                  job : Jobs \cup {""}, token : Nat, approval : Nat,
                  kind : Kinds \cup {""}, approved : Summaries \cup {""},
                  question : Summaries \cup {""}, by : Jobs \cup {""}]
  BY DEF SystemInv, SystemTypeOK
<1>1. CASE StrayTakesEffect(s)
  BY <1>1 DEF StrayTakesEffect
<1>2. CASE StrayPermitted(s)
  BY <1>2 DEF StrayPermitted
<1>3. CASE StrayAsks(s)
  <2>1. PICK summary \in Summaries :
          worker' = [worker EXCEPT !.question = summary, !.by = s.job]
    BY <1>3 DEF StrayAsks
  <2>2. worker'.by = s.job
    BY <1>0, <2>1
  <2> QED
    BY <1>0, <1>3, <2>1, <2>2 DEF StrayAsks, Questioned
<1>4. CASE StrayEnds(s)
  BY <1>4 DEF StrayEnds
<1> QED
  BY <1>1, <1>2, <1>3, <1>4 DEF StrayStep

\* What a stray's question leaves of the worker.
LEMMA QuestionedWorker ==
  ASSUME SystemInv, NEW s \in strays, StrayStep(s)
  PROVE  /\ worker'.phase = worker.phase /\ worker'.job = worker.job
         /\ worker'.token = worker.token /\ worker'.approval = worker.approval
         /\ worker'.kind = worker.kind /\ worker'.approved = worker.approved
<1>0. worker \in [phase : {"idle", "leased", "executing", "executed", "posting",
                           "refused"},
                  job : Jobs \cup {""}, token : Nat, approval : Nat,
                  kind : Kinds \cup {""}, approved : Summaries \cup {""},
                  question : Summaries \cup {""}, by : Jobs \cup {""}]
  BY DEF SystemInv, SystemTypeOK
<1>1. CASE UNCHANGED worker
  BY <1>1
<1>2. CASE Questioned
  BY <1>0, <1>2 DEF Questioned
<1> QED
  BY <1>1, <1>2, StrayShape

\* What was asked is never forgotten.
LEMMA AskedGrows ==
  ASSUME SystemInv, [SystemNext]_vars
  PROVE  asked \subseteq asked'
<1>1. CASE UNCHANGED asked
  BY <1>1
<1>2. CASE WorkerStep
  <2>1. CASE ExecutionAsks \/ ExecutionCrossed
    BY <2>1 DEF ExecutionAsks, ExecutionCrossed, CreateApproval
  <2> QED
    BY <1>2, <2>1 DEF WorkerStep, StartExecution, RejectApproval, ExecutionSucceeds,
       ExecutionFails, PostCompleted, UploadFails, AbortExecution, ExecutionTimesOut,
       AcceptRefusal, SubmitThrows, WorkerCrash
<1> QED
  BY <1>1, <1>2, StepShape, StrayKeepsTable, DeliverShape DEF Calm, Handed, workerVars

\* The row of a stored reply.
LEMMA AcceptedRow ==
  ASSUME SystemInv, NEW m \in net, Accepted(m)
  PROVE  /\ m.job \in Jobs
         /\ jobs[m.job].state = "leased" /\ jobs[m.job].attempt = m.token
         /\ jobs'[m.job].attempt = jobs[m.job].attempt
         /\ jobs'[m.job].expires = jobs[m.job].expires
         /\ m.kind # "approval-required" => jobs'[m.job].state = m.kind
         /\ m.kind = "approval-required" => jobs'[m.job].state = "approval-pending"
         /\ \A k \in Jobs \ {m.job} : jobs'[k] = jobs[k]
         /\ granted' = granted
<1>1. IInv /\ m.job \in Jobs
  BY DEF SystemInv, TokensDrawn, Drawn
<1>2. CASE m.kind = "approval-required"
  <2>1. SubmitApproval(m.job, m.token, RequestHash[m.job], m.expires)
    BY <1>2 DEF Accepted
  <2> QED
    BY <1>1, <1>2, <2>1, RepliedRow
<1>3. CASE m.kind # "approval-required"
  <2>1. SubmitOutcome(m.job, m.token, RequestHash[m.job], m.kind, m.body)
    BY <1>3 DEF Accepted
  <2> QED
    BY <1>1, <1>3, <2>1, RepliedRow
<1> QED
  BY <1>2, <1>3

-----------------------------------------------------------------------------
(* Every conjunct of the invariant is kept *)

LEMMA IdlePhase == Idle.phase = "idle" /\ Idle.approved = "" /\ Idle.question = ""
BY DEF Idle

LEMMA WorkerLease ==
  ASSUME SystemInv, WorkerStep
  PROVE  worker'.phase = "idle" \/ SameLease
BY WorkerShape, IdlePhase DEF Begins, Replies, Succeeds, Leaves, Drops

\* What a worker sends is of the job it has.
LEMMA WorkerPosts ==
  ASSUME SystemInv, WorkerStep
  PROVE  \A m \in net' \ net :
           /\ worker.phase # "idle" /\ m \in Message
           /\ m.job = worker.job /\ m.token = worker.token
           /\ m.kind # "approval-required" => m.body \in Bodies
<1>1. CASE Replies
  BY <1>1 DEF Replies, SameLease
<1>2. CASE UNCHANGED net
  BY <1>2
<1> QED
  BY <1>1, <1>2, WorkerShape DEF Begins, Succeeds, Leaves, Drops

LEMMA LivesOnKept ==
  ASSUME SystemInv, [SystemNext]_vars, NEW k \in Jobs
  PROVE  LivesOn(k)'
<1>0. IInv /\ LivesOn(k)
  BY DEF SystemInv
<1>1. ASSUME Moved(k, jobs[k], jobs'[k]) PROVE LivesOn(k)'
  BY <1>0, <1>1 DEF Moved, Onward, LivesOn
<1>2. CASE Calm
  BY <1>1, <1>2 DEF Calm
<1>3. CASE \E j \in Jobs : Handed(j)
  BY <1>0, <1>1, <1>3, LeaseMoved DEF Handed
<1>4. CASE WorkerStep
  BY <1>0, <1>4, WorkerKeepsTable DEF storeVars, LivesOn
<1>6. CASE \E s \in strays : StrayStep(s)
  BY <1>0, <1>6, StrayKeepsTable DEF storeVars, LivesOn
<1>5. CASE \E m \in net : Deliver(m)
  <2>1. PICK m \in net : Deliver(m)
    BY <1>5
  <2>2. CASE UNCHANGED storeVars
    BY <1>0, <2>2 DEF storeVars, LivesOn
  <2>3. CASE Accepted(m)
    <3>1. jobs'[k].expires = jobs[k].expires
      BY <2>3, AcceptedRow
    <3> QED
      BY <1>0, <3>1 DEF LivesOn
  <2> QED
    BY <2>1, <2>2, <2>3, DeliverShape
<1> QED
  BY <1>2, <1>3, <1>4, <1>5, <1>6, StepShape

LEMMA DrawnStays ==
  ASSUME SystemInv, [SystemNext]_vars, NEW j, NEW t, Drawn(j, t)
  PROVE  j \in Jobs /\ t \in 1..jobs'[j].attempt
<1>1. j \in Jobs /\ t \in 1..jobs[j].attempt
  BY DEF Drawn
<1>2. /\ jobs[j].attempt \in Nat /\ jobs'[j].attempt \in Nat
      /\ jobs[j].attempt <= jobs'[j].attempt
  BY <1>1, Grows
<1> QED
  BY <1>1, <1>2 DEF Drawn

LEMMA TokensDrawnKept ==
  ASSUME SystemInv, [SystemNext]_vars
  PROVE  TokensDrawn' /\ AnswersHaveBodies'
<1>1. /\ worker.phase # "idle" =>
           worker.job \in Jobs /\ worker.token \in 1..jobs'[worker.job].attempt
      /\ \A m \in net : m.job \in Jobs /\ m.token \in 1..jobs'[m.job].attempt
      /\ AnswersHaveBodies
  BY DrawnStays DEF SystemInv, TokensDrawn
<1>2. CASE Calm
  BY <1>1, <1>2 DEF Calm, workerVars, TokensDrawn, AnswersHaveBodies, Drawn
<1>3. ASSUME NEW j \in Jobs, Handed(j) PROVE TokensDrawn' /\ AnswersHaveBodies'
  <2>1. /\ jobs'[j].leaseToken = jobs'[j].attempt /\ jobs'[j].attempt \in Nat \ {0}
    <3>1. IInv /\ Lease(j) /\ jobs[j].attempt \in Nat
      BY <1>3 DEF SystemInv, Handed, IInv, Good, Row
    <3> QED
      BY <3>1, LeasedRow
  <2>2. worker'.job = j /\ worker'.token = jobs'[j].leaseToken /\ net' = net
    BY <1>3 DEF Handed
  <2>3. Drawn(worker.job, worker.token)'
    BY <2>1, <2>2 DEF Drawn
  <2> QED
    BY <1>1, <2>2, <2>3 DEF TokensDrawn, AnswersHaveBodies, Drawn
<1>4. CASE WorkerStep
  <2>1. worker'.phase = "idle" \/ SameLease
    BY <1>4, WorkerLease
  <2>2. \A m \in net' \ net : /\ worker.phase # "idle" /\ m.job = worker.job
                              /\ m.token = worker.token
                              /\ m.kind # "approval-required" => m.body \in Bodies
    BY <1>4, WorkerPosts
  <2> QED
    BY <1>1, <2>1, <2>2 DEF TokensDrawn, AnswersHaveBodies, Drawn, SameLease
<1>6. ASSUME NEW s \in strays, StrayStep(s) PROVE TokensDrawn' /\ AnswersHaveBodies'
  <2>1. net' = net /\ worker'.phase = worker.phase /\ worker'.job = worker.job
        /\ worker'.token = worker.token
    BY <1>6, StrayKeepsTable, QuestionedWorker
  <2> QED
    BY <1>1, <2>1 DEF TokensDrawn, AnswersHaveBodies, Drawn
<1>5. ASSUME NEW m \in net, Deliver(m) PROVE TokensDrawn' /\ AnswersHaveBodies'
  <2>1. Hears /\ net' \subseteq net
    BY <1>5, DeliverShape
  <2> QED
    BY <1>1, <2>1, IdlePhase DEF TokensDrawn, AnswersHaveBodies, Drawn, Hears, SameLease
<1> QED
  BY <1>2, <1>3, <1>4, <1>5, <1>6, StepShape

LEMMA ApprovalHeldKept ==
  ASSUME SystemInv, [SystemNext]_vars
  PROVE  ApprovalHeld'
<1>1. worker.phase # "idle" /\ worker.approval # 0 => worker.approval \in granted'[worker.job]
  BY Grows DEF SystemInv, TokensDrawn, Drawn, ApprovalHeld
<1>2. CASE worker'.phase = "idle" \/ UNCHANGED worker \/ SameLease
  BY <1>1, <1>2 DEF ApprovalHeld, SameLease
<1>3. ASSUME NEW j \in Jobs, Handed(j) PROVE ApprovalHeld'
  <2>1. IInv'
    BY SystemStoreStep, NextIInv DEF SystemInv
  <2>2. jobs'[j].state = "leased"
    BY <1>3, LeasedRow DEF SystemInv, Handed
  <2>3. ApprovalSent(jobs'[j]) # 0 =>
          jobs'[j].approved /\ ApprovalSent(jobs'[j]) = jobs'[j].ticket
    BY DEF ApprovalSent
  <2>4. ApprovalSent(jobs'[j]) # 0 => ApprovalSent(jobs'[j]) \in granted'[j]
    BY <2>1, <2>2, <2>3 DEF IInv, Good, Coherent
  <2>5. worker'.job = j /\ worker'.approval = ApprovalSent(jobs'[j])
    BY <1>3 DEF Handed
  <2> QED
    BY <2>4, <2>5 DEF ApprovalHeld
<1>4. CASE WorkerStep
  BY <1>2, <1>4, WorkerLease
<1>5. ASSUME NEW m \in net, Deliver(m) PROVE ApprovalHeld'
  BY <1>2, <1>5, DeliverShape, IdlePhase DEF Hears
<1>6. ASSUME NEW s \in strays, StrayStep(s) PROVE ApprovalHeld'
  BY <1>1, <1>6, QuestionedWorker DEF ApprovalHeld
<1> QED
  BY <1>2, <1>3, <1>4, <1>5, <1>6, StepShape DEF Calm, workerVars

LEMMA TicketsAskedKept ==
  ASSUME SystemInv, [SystemNext]_vars
  PROVE  TicketsAsked'
<1>0. asked \subseteq asked' /\ TicketsAsked
  BY AskedGrows DEF SystemInv
<1>1. CASE tickets' \subseteq tickets
  BY <1>0, <1>1 DEF TicketsAsked
<1>2. ASSUME worker.phase = "executing", NEW summary, NEW by,
             CreateApproval(worker.job, summary, by)
      PROVE  TicketsAsked'
  <2>1. PICK e \in Nat : tickets' = tickets \cup {[job |-> worker.job, id |-> worker.token,
                                                  summary |-> summary, expires |-> e]}
    BY <1>2, AskingReplies
  <2>2. [job |-> worker.job, id |-> worker.token, summary |-> summary, by |-> by] \in asked'
    BY <1>2, AskingReplies
  <2>3. worker.token # 0
    BY <1>2 DEF SystemInv, TokensDrawn, Drawn
  <2> QED
    BY <1>0, <2>1, <2>2, <2>3 DEF TicketsAsked
<1>3. CASE WorkerStep
  <2>1. CASE ExecutionAsks
    BY <1>2, <2>1 DEF ExecutionAsks
  <2>2. CASE ExecutionCrossed
    BY <1>2, <2>2 DEF ExecutionCrossed
  <2> QED
    BY <1>1, <1>3, <2>1, <2>2 DEF WorkerStep, StartExecution, RejectApproval,
       ExecutionSucceeds, ExecutionFails, PostCompleted, UploadFails, AbortExecution,
       ExecutionTimesOut, AcceptRefusal, SubmitThrows, WorkerCrash
<1> QED
  BY <1>1, <1>3, StepShape, StrayKeepsTable, DeliverShape DEF Calm, Handed, workerVars

\* What a user accepted stays accepted.
LEMMA AcceptedStays ==
  ASSUME SystemInv, [SystemNext]_vars, NEW k \in Jobs, NEW summary,
         UserAccepted(summary, k)
  PROVE  UserAccepted(summary, k)'
BY AskedGrows, Grows DEF UserAccepted

LEMMA ApprovedAcceptedKept ==
  ASSUME SystemInv, [SystemNext]_vars
  PROVE  ApprovedAccepted'
<1>0. /\ worker.approved # "" =>
           UserAccepted(worker.approved, worker.job) /\ worker.job \in Jobs
      /\ worker.phase # "idle" => worker.job \in Jobs
  BY DEF SystemInv, ApprovedAccepted, TokensDrawn, Drawn, UserAccepted, SystemTypeOK
<1>1. CASE worker'.approved = ""
  BY <1>1 DEF ApprovedAccepted
<1>2. CASE worker'.approved = worker.approved /\ worker'.job = worker.job
  BY <1>0, <1>2, AcceptedStays DEF ApprovedAccepted
<1>3. CASE WorkerStep
  <2>1. CASE Begins
    BY <1>0, <2>1, AcceptedStays DEF Begins, SameLease, ApprovedAccepted
  <2>2. CASE worker'.phase # "executing"
    BY <1>1, <1>3, <2>2, WorkerShape, IdlePhase
    DEF Begins, Replies, Succeeds, Leaves, Drops, Forgets
  <2>3. CASE worker'.phase = "executing" /\ ~Begins
    BY <1>3, <2>3, WorkerShape, IdlePhase DEF Replies, Succeeds, Leaves, Drops
  <2> QED
    BY <2>1, <2>2, <2>3
<1>4. ASSUME NEW j \in Jobs, Handed(j) PROVE ApprovedAccepted'
  BY <1>1, <1>4 DEF Handed
<1>5. ASSUME NEW m \in net, Deliver(m) PROVE ApprovedAccepted'
  <2>1. Hears
    BY <1>5, DeliverShape
  <2> QED
    BY <1>1, <1>2, <2>1, IdlePhase DEF Hears, SameLease
<1>6. ASSUME NEW s \in strays, StrayStep(s) PROVE ApprovedAccepted'
  BY <1>2, <1>6, QuestionedWorker
<1> QED
  BY <1>2, <1>3, <1>4, <1>5, <1>6, StepShape DEF Calm, workerVars

LEMMA LeftByStrayKept ==
  ASSUME SystemInv, [SystemNext]_vars
  PROVE  LeftByStray'
<1>0. LeftByStray
  BY DEF SystemInv
<1>1. CASE worker'.question = ""
  BY <1>1 DEF LeftByStray
<1>2. CASE worker'.question = worker.question /\ worker'.job = worker.job /\ worker'.by = worker.by
  BY <1>0, <1>2 DEF LeftByStray, Mutations
<1>3. CASE WorkerStep
  <2>1. CASE Begins
    BY <1>2, <2>1 DEF Begins, SameLease
  <2>2. CASE ~Begins
    BY <1>1, <1>3, <2>2, WorkerShape, IdlePhase DEF Replies, Succeeds, Leaves, Drops, Forgets
  <2> QED
    BY <2>1, <2>2
<1>4. ASSUME NEW j \in Jobs, Handed(j) PROVE LeftByStray'
  BY <1>1, <1>4 DEF Handed
<1>5. ASSUME NEW m \in net, Deliver(m) PROVE LeftByStray'
  <2>1. Hears
    BY <1>5, DeliverShape
  <2> QED
    BY <1>1, <1>2, <2>1, IdlePhase DEF Hears, SameLease
<1>6. ASSUME NEW s \in strays, StrayStep(s) PROVE LeftByStray'
  <2>1. CASE UNCHANGED worker
    BY <1>2, <2>1
  <2>2. CASE Questioned /\ worker'.by = s.job
    <3>1. worker'.job = worker.job /\ worker.phase = "executing" /\ s.job \in Jobs
      BY <1>6, <2>2, QuestionedWorker DEF Questioned, SystemInv, SystemTypeOK
    <3>2. worker.job \in Mutations => s.job # worker.job
      BY <3>1 DEF SystemInv, MutationInv, HeldAlone, Holds
    <3> QED
      BY <2>2, <3>1, <3>2 DEF LeftByStray, Mutations
  <2> QED
    BY <1>6, <2>1, <2>2, StrayShape
<1> QED
  BY <1>2, <1>3, <1>4, <1>5, <1>6, StepShape DEF Calm, workerVars

LEMMA IndeterminateStays ==
  ASSUME SystemInv, [SystemNext]_vars, NEW k \in Jobs, jobs[k].state = "indeterminate"
  PROVE  jobs'[k].state = "indeterminate"
<1>1. ASSUME Moved(k, jobs[k], jobs'[k]) PROVE jobs'[k].state = "indeterminate"
  BY <1>1 DEF Moved, Onward
<1>2. CASE Calm \/ \E j \in Jobs : Handed(j)
  BY <1>1, <1>2, LeaseMoved DEF Calm, Handed, SystemInv
<1>3. CASE WorkerStep \/ \E s \in strays : StrayStep(s)
  BY <1>3, WorkerKeepsTable, StrayKeepsTable DEF storeVars
<1>4. ASSUME NEW m \in net, Deliver(m) PROVE jobs'[k].state = "indeterminate"
  BY <1>4, DeliverShape, AcceptedRow DEF storeVars
<1> QED
  BY <1>2, <1>3, <1>4, StepShape

LEMMA ConfirmedStays ==
  ASSUME SystemInv, [SystemNext]_vars, NEW k \in Jobs, Confirmed(k)
  PROVE  Confirmed(k)'
<1>1. PICK questions \in Questions[k] : \A n \in DOMAIN questions :
        \E i \in Jobs : /\ UserAccepted(questions[n], i)
                        /\ i = k \/ jobs[k].state = "indeterminate"
  BY DEF Confirmed
<1>2. ASSUME NEW n \in DOMAIN questions
      PROVE  \E i \in Jobs : /\ UserAccepted(questions[n], i)'
                             /\ i = k \/ jobs'[k].state = "indeterminate"
  BY <1>1, AcceptedStays, IndeterminateStays
<1> QED
  BY <1>1, <1>2 DEF Confirmed

\* What an execution permits was confirmed: for its own job, or for one that
\* was given up.
LEMMA PermittedConfirmed ==
  ASSUME SystemInv, NEW k \in Jobs, Permitted(k),
         worker.job = k \/ jobs[k].state = "indeterminate"
  PROVE  Confirmed(k)
<1>1. PICK questions \in Questions[k] : \A n \in DOMAIN questions : Approves(questions[n])
  BY DEF Permitted
<1>2. questions \in Seq(Summaries)
  BY QuestionsAssumption
<1>3. ASSUME NEW n \in DOMAIN questions
      PROVE  \E i \in Jobs : /\ UserAccepted(questions[n], i)
                             /\ i = k \/ jobs[k].state = "indeterminate"
  <2>1. questions[n] \in Summaries
    BY <1>2
  <2>2. worker.phase = "executing" /\ questions[n] = worker.approved /\ questions[n] # ""
    BY <1>1, <2>1, QuestionsAssumption DEF Approves
  <2>3. worker.job \in Jobs /\ UserAccepted(questions[n], worker.job)
    BY <2>2 DEF SystemInv, ApprovedAccepted, TokensDrawn, Drawn
  <2> QED
    BY <2>3
<1> QED
  BY <1>1, <1>3 DEF Confirmed

LEMMA AnotherStays ==
  ASSUME SystemInv, [SystemNext]_vars, NEW k, AskedByAnother(k)
  PROVE  AskedByAnother(k)'
BY AskedGrows DEF AskedByAnother

\* A mutation's row moves without touching what the worker or a stray does with
\* it: nothing that was handed out or ended comes back.
LEMMA UntouchedMutation ==
  ASSUME SystemInv, [SystemNext]_vars, NEW k \in Mutations,
         Moved(k, jobs[k], jobs'[k]), effects'[k] = effects[k],
         \A m \in net' : m.job = k => m \in net,
         \A s \in strays' : s.job = k => s \in strays,
         \/ worker'.phase = "idle"
         \/ worker'.job # k
         \/ /\ worker'.phase = worker.phase /\ worker'.job = worker.job
            /\ worker'.token = worker.token /\ worker'.kind = worker.kind
  PROVE  MutationInv(k)'
<1>0. MutationInv(k) /\ k \in Jobs \ ReadOnlyJobs
  BY DEF SystemInv, Mutations
<1>1. jobs[k].state \in {"leased", "indeterminate", "completed", "failed"} =>
        /\ jobs'[k].attempt = jobs[k].attempt
        /\ \/ jobs'[k].state = jobs[k].state
           \/ jobs[k].state = "leased" /\ jobs'[k].state = "indeterminate"
  BY <1>0 DEF Moved, Onward
<1>2. jobs'[k].state = "completed" => jobs[k].state = "completed"
  BY <1>0 DEF Moved, Onward
<1>3. /\ jobs[k].attempt \in Nat /\ jobs'[k].attempt \in Nat
      /\ jobs[k].attempt <= jobs'[k].attempt /\ effects[k] \in Nat
  BY <1>0, Grows DEF SystemInv, SystemTypeOK
<1>4. HeldAlone(k)'
  BY <1>0, <1>1 DEF MutationInv, HeldAlone, Holds
<1>5. StrayAlone(k)'
  BY <1>0, <1>1 DEF MutationInv, StrayAlone
<1>6. EffectsCounted(k)'
  <2>1. Fresh(k)' => Fresh(k)
    BY DEF Fresh
  <2> QED
    BY <1>0, <1>3, <2>1 DEF MutationInv, EffectsCounted
<1>7. AskedByAnother(k)' \/ AppliedFinally(k)'
  <2>1. CASE AskedByAnother(k)
    BY <2>1, AnotherStays
  <2>2. CASE AppliedFinally(k)
    BY <1>0, <1>1, <2>2 DEF AppliedFinally, Fresh
  <2> QED
    BY <1>0, <2>1, <2>2 DEF MutationInv
<1>8. DoneIsDone(k)'
  BY <1>0, <1>2 DEF MutationInv, DoneIsDone
<1>9. EffectsConfirmed(k)'
  BY <1>0, ConfirmedStays DEF MutationInv, EffectsConfirmed
<1> QED
  BY <1>4, <1>5, <1>6, <1>7, <1>8, <1>9 DEF MutationInv

\* A mutation is handed out from the queue: it has taken no effect yet that an
\* earlier attempt does not account for, no stray of it runs, and no reply
\* bears its token.
LEMMA HandedMutation ==
  ASSUME SystemInv, [SystemNext]_vars, NEW j \in Jobs, Handed(j), NEW k \in Mutations
  PROVE  MutationInv(k)'
<1>0. IInv /\ MutationInv(k) /\ k \in Jobs \ ReadOnlyJobs
  BY DEF SystemInv, Mutations
<1>1. CASE j # k
  <2>1. Moved(k, jobs[k], jobs'[k])
    BY <1>0, LeaseMoved DEF Handed
  <2>2. worker'.job # k /\ UNCHANGED <<net, strays, effects>>
    BY <1>1 DEF Handed
  <2> QED
    BY <2>1, <2>2, UntouchedMutation
<1>2. CASE j = k
  <2>1. /\ jobs[k].state = "queued" /\ jobs'[k].state = "leased"
        /\ jobs[k].attempt \in Nat
        /\ jobs'[k].attempt = jobs[k].attempt + 1
        /\ jobs'[k].leaseToken = jobs[k].attempt + 1
    BY <1>0, <1>2, LeasedRow DEF Handed, IInv, Good, Row
  <2>2. /\ worker'.phase = "leased" /\ worker'.job = k
        /\ worker'.token = jobs'[k].leaseToken
        /\ UNCHANGED <<net, strays, effects>>
    BY <1>2 DEF Handed
  <2>3. effects[k] \in Nat /\ effects[k] < jobs'[k].attempt
    <3>1. effects[k] \in Nat
      BY <1>0 DEF SystemInv, SystemTypeOK
    <3>2. effects[k] <= jobs[k].attempt
      BY <1>0 DEF MutationInv, EffectsCounted
    <3> QED
      BY <2>1, <3>1, <3>2
  <2>4. \A m \in net : m.job = k => m.token # jobs'[k].attempt
    BY <2>1 DEF SystemInv, TokensDrawn, Drawn
  <2>5. \A s \in strays : s.job # k
    BY <1>0, <2>1 DEF MutationInv, StrayAlone
  <2>6. HeldAlone(k)' /\ StrayAlone(k)'
    BY <2>1, <2>2, <2>4, <2>5 DEF HeldAlone, StrayAlone
  <2>7. EffectsCounted(k)'
    BY <2>1, <2>2, <2>3 DEF EffectsCounted
  <2>8. AskedByAnother(k)' \/ AppliedFinally(k)'
    <3>1. CASE AskedByAnother(k)
      BY <3>1, AnotherStays
    <3>2. CASE AppliedFinally(k)
      <4>1. ~(effects[k] > 0)
        BY <2>1, <3>2 DEF AppliedFinally
      <4> QED
        BY <2>2, <3>2, <4>1 DEF AppliedFinally
    <3> QED
      BY <1>0, <3>1, <3>2 DEF MutationInv
  <2>9. DoneIsDone(k)'
    BY <1>0, <2>1, <2>2 DEF MutationInv, DoneIsDone
  <2>10. EffectsConfirmed(k)'
    BY <1>0, <2>2, ConfirmedStays DEF MutationInv, EffectsConfirmed
  <2> QED
    BY <2>6, <2>7, <2>8, <2>9, <2>10 DEF MutationInv
<1> QED
  BY <1>1, <1>2

\* The worker answers, and the tool took no effect in this step.
LEMMA RepliesMutation ==
  ASSUME SystemInv, [SystemNext]_vars, WorkerStep, Replies, UNCHANGED <<strays, effects>>,
         NEW k \in Mutations, worker.job = k
  PROVE  MutationInv(k)'
<1>0. /\ MutationInv(k) /\ k \in Jobs /\ jobs' = jobs
      /\ worker.phase \in {"leased", "executing", "executed", "posting", "refused"}
  BY WorkerKeepsTable DEF SystemInv, SystemTypeOK, Mutations, storeVars, Replies, SameLease
<1>1. HeldAlone(k)'
  BY DEF Replies, HeldAlone, Holds
<1>2. StrayAlone(k)'
  <2>1. ASSUME NEW s \in strays, s.job = k PROVE worker'.kind = "failed"
    BY <1>0, <2>1 DEF MutationInv, HeldAlone, Holds, Replies
  <2> QED
    BY <1>0, <2>1 DEF MutationInv, StrayAlone, Replies
<1>3. EffectsCounted(k)'
  BY <1>0 DEF MutationInv, EffectsCounted, Fresh, Replies
<1>4. AskedByAnother(k)' \/ AppliedFinally(k)'
  <2>1. CASE AskedByAnother(k)
    BY <2>1, AnotherStays
  <2>2. CASE AppliedFinally(k)
    <3>1. \A m \in net' \ net : m.kind = "approval-required" => ~(effects[k] > 0)
      BY <2>2 DEF Replies, AppliedFinally, Fresh
    <3> QED
      BY <1>0, <2>2, <3>1 DEF AppliedFinally, Replies, Fresh
  <2> QED
    BY <1>0, <2>1, <2>2 DEF MutationInv
<1>5. DoneIsDone(k)'
  BY <1>0 DEF MutationInv, Replies, SameLease, DoneIsDone
<1>6. EffectsConfirmed(k)'
  BY <1>0, ConfirmedStays DEF MutationInv, EffectsConfirmed
<1> QED
  BY <1>1, <1>2, <1>3, <1>4, <1>5, <1>6 DEF MutationInv

\* The tool takes effect in the worker's hands.
LEMMA SucceedsMutation ==
  ASSUME SystemInv, [SystemNext]_vars, WorkerStep, Succeeds,
         NEW k \in Mutations, worker.job = k
  PROVE  MutationInv(k)'
<1>0. /\ MutationInv(k) /\ k \in Jobs \ ReadOnlyJobs /\ jobs' = jobs
      /\ worker.phase = "executing" /\ worker'.phase \in {"executed", "posting"}
      /\ worker'.job = k /\ worker'.token = worker.token /\ strays' = strays
      /\ effects \in [Jobs -> Nat] /\ jobs[k].attempt \in Nat
  BY WorkerKeepsTable, Grows DEF SystemInv, SystemTypeOK, Mutations, storeVars, Succeeds,
     SameLease, Operates, Replies
<1>1. effects'[k] = effects[k] + 1
  BY <1>0 DEF Succeeds, Operates, TakesEffect
<1>2. /\ jobs[k].state \in {"leased", "indeterminate"} /\ worker.token = jobs[k].attempt
      /\ \A m \in net : m.job = k => m.token # jobs[k].attempt
      /\ \A s \in strays : s.job # k
      /\ effects[k] < jobs[k].attempt
  BY <1>0 DEF MutationInv, HeldAlone, Holds, EffectsCounted, Fresh
<1>3. \A m \in net' \ net :
        m.kind # "completed" /\ (m.kind = "approval-required" => AskedByAnother(k)')
  BY <1>0 DEF Succeeds, Replies
<1>4. HeldAlone(k)'
  <2>1. worker'.phase = "executed" => net' = net
    BY DEF Succeeds, Replies
  <2> QED
    BY <1>0, <1>2, <2>1 DEF HeldAlone, Holds
<1>5. StrayAlone(k)'
  BY <1>0, <1>2 DEF StrayAlone
<1>6. EffectsCounted(k)'
  BY <1>0, <1>1, <1>2 DEF EffectsCounted, Fresh
<1>7. AskedByAnother(k)' \/ AppliedFinally(k)'
  <2>1. CASE AskedByAnother(k)
    BY <2>1, AnotherStays
  <2>2. CASE AppliedFinally(k) /\ ~AskedByAnother(k)'
    <3>1. effects'[k] = 1
      BY <1>0, <1>1, <2>2 DEF AppliedFinally, Fresh
    <3>2. \A m \in net' : m.job = k /\ m.kind = "approval-required" => m.token # jobs[k].attempt
      BY <1>2, <1>3, <2>2
    <3> QED
      BY <1>0, <1>2, <3>1, <3>2 DEF AppliedFinally, Fresh
  <2> QED
    BY <1>0, <2>1, <2>2 DEF MutationInv
<1>8. DoneIsDone(k)'
  BY <1>0, <1>1 DEF DoneIsDone
<1>9. EffectsConfirmed(k)'
  <2>1. Confirmed(k)
    BY <1>0, PermittedConfirmed DEF Succeeds, Operates
  <2> QED
    BY <1>0, <2>1, ConfirmedStays DEF EffectsConfirmed
<1> QED
  BY <1>4, <1>5, <1>6, <1>7, <1>8, <1>9 DEF MutationInv

LEMMA BeginsMutation ==
  ASSUME SystemInv, [SystemNext]_vars, WorkerStep, Begins,
         NEW k \in Mutations, worker.job = k
  PROVE  MutationInv(k)'
<1>0. /\ MutationInv(k) /\ k \in Jobs /\ jobs' = jobs
      /\ worker.phase = "leased" /\ worker'.phase = "executing"
      /\ worker'.job = k /\ worker'.token = worker.token
      /\ UNCHANGED <<net, strays, effects>>
  BY WorkerKeepsTable DEF SystemInv, Mutations, storeVars, Begins, SameLease
<1>1. HeldAlone(k)' /\ StrayAlone(k)'
  BY <1>0 DEF MutationInv, HeldAlone, StrayAlone, Holds
<1>2. EffectsCounted(k)'
  BY <1>0 DEF MutationInv, EffectsCounted, Fresh
<1>3. AskedByAnother(k)' \/ AppliedFinally(k)'
  BY <1>0, AnotherStays DEF MutationInv, AppliedFinally, Fresh
<1>4. DoneIsDone(k)'
  BY <1>0 DEF MutationInv, DoneIsDone
<1>5. EffectsConfirmed(k)'
  BY <1>0, ConfirmedStays DEF MutationInv, EffectsConfirmed
<1> QED
  BY <1>1, <1>2, <1>3, <1>4, <1>5 DEF MutationInv

\* The call of a mutation ends before its handler: the handler is the only
\* stray, and has taken no effect in this attempt.
LEMMA LeavesMutation ==
  ASSUME SystemInv, [SystemNext]_vars, WorkerStep, Leaves,
         NEW k \in Mutations, worker.job = k
  PROVE  MutationInv(k)'
<1>0. /\ MutationInv(k) /\ k \in Jobs /\ jobs' = jobs
      /\ worker.phase = "executing" /\ worker'.phase \in {"idle", "posting"}
      /\ worker'.phase = "posting" => worker'.kind = "failed"
      /\ UNCHANGED effects
  BY WorkerKeepsTable, IdlePhase
  DEF SystemInv, Mutations, storeVars, Leaves, RunsOn, Replies
<1>1. /\ jobs[k].state \in {"leased", "indeterminate"} /\ worker.token = jobs[k].attempt
      /\ \A m \in net : m.job = k => m.token # jobs[k].attempt
      /\ \A s \in strays : s.job # k
      /\ effects[k] < jobs[k].attempt
  BY <1>0 DEF MutationInv, HeldAlone, Holds, EffectsCounted, Fresh
<1>2. PICK place \in {"window", "operating"} :
        /\ RunsOn(place)
        /\ place = "window" => jobs[k].state \in CancellationStates
  BY DEF Leaves
<1>3. PICK s : s.job = k /\ s.at = place /\ strays' = strays \cup {s}
  BY <1>2 DEF RunsOn
<1>4. \A m \in net' \ net : m.kind = "failed"
  BY DEF Leaves, Replies
<1>5. HeldAlone(k)'
  BY <1>0 DEF HeldAlone, Holds
<1>6. StrayAlone(k)'
  <2>1. place = "window" => jobs[k].state = "indeterminate"
    BY <1>1, <1>2 DEF CancellationStates
  <2> QED
    BY <1>0, <1>1, <1>3, <1>4, <2>1 DEF StrayAlone
<1>7. EffectsCounted(k)'
  BY <1>0, <1>1 DEF MutationInv, EffectsCounted, Fresh
<1>8. AskedByAnother(k)' \/ AppliedFinally(k)'
  <2>1. AppliedFinally(k) => effects[k] <= 1 /\ ~(effects[k] > 0)
    BY <1>0 DEF AppliedFinally, Fresh
  <2> QED
    BY <1>0, <2>1, AnotherStays DEF MutationInv, AppliedFinally
<1>9. DoneIsDone(k)'
  BY <1>0, <1>4 DEF MutationInv, DoneIsDone
<1>10. EffectsConfirmed(k)'
  <2>1. place = "operating" => Confirmed(k)
    BY <1>0, <1>2, PermittedConfirmed DEF RunsOn
  <2> QED
    BY <1>0, <1>3, <2>1, ConfirmedStays DEF MutationInv, EffectsConfirmed
<1> QED
  BY <1>5, <1>6, <1>7, <1>8, <1>9, <1>10 DEF MutationInv

LEMMA SameMoved ==
  ASSUME NEW k \in Jobs, jobs'[k] = jobs[k]
  PROVE  Moved(k, jobs[k], jobs'[k])
BY DEF Moved, Onward

LEMMA WorkerMutation ==
  ASSUME SystemInv, [SystemNext]_vars, WorkerStep, NEW k \in Mutations
  PROVE  MutationInv(k)'
<1>0. k \in Jobs /\ Moved(k, jobs[k], jobs'[k]) /\ effects \in [Jobs -> Nat]
  BY WorkerKeepsTable, SameMoved DEF Mutations, storeVars, SystemInv, SystemTypeOK
<1>1. CASE Drops
  BY <1>0, <1>1, UntouchedMutation, IdlePhase DEF Drops
<1>2. CASE worker.job = k /\ ~Drops
  BY <1>2, WorkerShape, BeginsMutation, RepliesMutation, SucceedsMutation, LeavesMutation
<1>3. CASE worker.job # k /\ ~Drops
  <2>1. worker'.phase = "idle" \/ worker'.job # k
    BY <1>3, WorkerLease DEF SameLease
  <2>2. \A m \in net' : m.job = k => m \in net
    BY <1>3, WorkerPosts
  <2>3. \A s \in strays' : s.job = k => s \in strays
    <3>1. ASSUME NEW place, RunsOn(place), NEW s \in strays', s.job = k PROVE s \in strays
      BY <1>3, <3>1 DEF RunsOn
    <3> QED
      BY <1>3, <3>1, WorkerShape DEF Begins, Succeeds, Leaves
  <2>4. effects'[k] = effects[k]
    BY <1>0, <1>3, WorkerShape DEF Begins, Succeeds, Operates, TakesEffect, Leaves
  <2> QED
    BY <1>0, <2>1, <2>2, <2>3, <2>4, UntouchedMutation
<1> QED
  BY <1>1, <1>2, <1>3

\* A stray takes effect: it was the only one that could.
LEMMA StrayEffectMutation ==
  ASSUME SystemInv, [SystemNext]_vars, NEW s \in strays, StrayStep(s),
         s.at = "operating", TakesEffect(s.job), strays' = strays \ {s},
         NEW k \in Mutations, s.job = k
  PROVE  MutationInv(k)'
<1>0. /\ MutationInv(k) /\ k \in Jobs \ ReadOnlyJobs /\ jobs' = jobs /\ net' = net
      /\ worker'.phase = worker.phase /\ worker'.job = worker.job
      /\ effects \in [Jobs -> Nat] /\ jobs[k].attempt \in Nat
  BY StrayKeepsTable, QuestionedWorker, Grows
  DEF SystemInv, SystemTypeOK, Mutations, storeVars
<1>1. effects'[k] = effects[k] + 1
  BY <1>0 DEF TakesEffect
<1>2. /\ jobs[k].state \in {"leased", "indeterminate", "failed"}
      /\ \A m \in net : m.job = k /\ m.token = jobs[k].attempt => m.kind = "failed"
      /\ \A t \in strays' : t.job # k
      /\ effects[k] < jobs[k].attempt
  BY <1>0 DEF MutationInv, StrayAlone, EffectsCounted
<1>3. ~Holds(k)' /\ ~Fresh(k)'
  BY <1>0 DEF MutationInv, HeldAlone, Holds, Fresh
<1>4. HeldAlone(k)' /\ StrayAlone(k)'
  BY <1>2, <1>3 DEF HeldAlone, StrayAlone
<1>5. EffectsCounted(k)'
  BY <1>0, <1>1, <1>2, <1>3 DEF EffectsCounted
<1>6. AskedByAnother(k)' \/ AppliedFinally(k)'
  <2>1. CASE AppliedFinally(k)
    <3>1. effects'[k] = 1
      BY <1>0, <1>1, <2>1 DEF AppliedFinally
    <3> QED
      BY <1>0, <1>2, <1>3, <3>1 DEF AppliedFinally
  <2> QED
    BY <1>0, <2>1, AnotherStays DEF MutationInv
<1>7. DoneIsDone(k)'
  BY <1>0, <1>1 DEF DoneIsDone
<1>8. EffectsConfirmed(k)'
  <2>1. Confirmed(k)
    BY <1>0 DEF MutationInv, EffectsConfirmed
  <2> QED
    BY <1>0, <1>2, <2>1, ConfirmedStays DEF EffectsConfirmed
<1> QED
  BY <1>4, <1>5, <1>6, <1>7, <1>8 DEF MutationInv

\* A stray's window is found while an acceptance is around that permits it.
LEMMA StrayPermittedMutation ==
  ASSUME SystemInv, [SystemNext]_vars, NEW s \in strays, StrayStep(s),
         s.at = "window", Permitted(s.job), UNCHANGED effects,
         strays' = (strays \ {s}) \cup {[s EXCEPT !.at = "operating"]},
         NEW k \in Mutations, s.job = k
  PROVE  MutationInv(k)'
<1>0. /\ MutationInv(k) /\ k \in Jobs \ ReadOnlyJobs /\ jobs' = jobs /\ net' = net
      /\ worker'.phase = worker.phase /\ worker'.job = worker.job
      /\ worker'.kind = worker.kind
  BY StrayKeepsTable, QuestionedWorker DEF SystemInv, Mutations, storeVars
<1>1. PICK t : t.job = k /\ t.at = "operating" /\ strays' = (strays \ {s}) \cup {t}
  <2>1. s \in [job : Jobs, token : Nat, at : {"window", "operating"}]
    BY DEF SystemInv, SystemTypeOK
  <2> QED
    BY <2>1
<1>2. /\ jobs[k].state = "indeterminate"
      /\ \A m \in net : m.job = k /\ m.token = jobs[k].attempt => m.kind = "failed"
      /\ \A u \in strays : u.job = k => u = s
      /\ effects[k] < jobs[k].attempt
  BY <1>0 DEF MutationInv, StrayAlone, EffectsCounted
<1>3. ~Holds(k)' /\ ~Fresh(k)'
  BY <1>0 DEF MutationInv, HeldAlone, Holds, Fresh
<1>4. HeldAlone(k)' /\ StrayAlone(k)'
  BY <1>0, <1>1, <1>2, <1>3 DEF HeldAlone, StrayAlone
<1>5. EffectsCounted(k)'
  BY <1>0, <1>2, <1>3 DEF MutationInv, EffectsCounted
<1>6. AskedByAnother(k)' \/ AppliedFinally(k)'
  <2>1. AppliedFinally(k) => effects[k] <= 1 /\ ~(effects[k] > 0)
    BY DEF AppliedFinally
  <2> QED
    BY <1>0, <2>1, AnotherStays DEF MutationInv, AppliedFinally
<1>7. DoneIsDone(k)'
  BY <1>0 DEF MutationInv, DoneIsDone
<1>8. EffectsConfirmed(k)'
  <2>1. Confirmed(k)
    BY <1>0, <1>2, PermittedConfirmed
  <2> QED
    BY <1>0, <1>2, <2>1, ConfirmedStays DEF EffectsConfirmed
<1> QED
  BY <1>4, <1>5, <1>6, <1>7, <1>8 DEF MutationInv

LEMMA StrayMutation ==
  ASSUME SystemInv, [SystemNext]_vars, NEW s \in strays, StrayStep(s), NEW k \in Mutations
  PROVE  MutationInv(k)'
<1>0. /\ k \in Jobs /\ Moved(k, jobs[k], jobs'[k]) /\ net' = net
      /\ effects \in [Jobs -> Nat]
      /\ worker'.phase = worker.phase /\ worker'.job = worker.job
      /\ worker'.token = worker.token /\ worker'.kind = worker.kind
  BY StrayKeepsTable, QuestionedWorker, SameMoved
  DEF Mutations, storeVars, SystemInv, SystemTypeOK
<1>1. CASE UNCHANGED effects /\ strays' = strays \ {s}
  BY <1>0, <1>1, UntouchedMutation
<1>2. CASE s.job = k /\ ~(UNCHANGED effects /\ strays' = strays \ {s})
  BY <1>2, StrayShape, StrayEffectMutation, StrayPermittedMutation
<1>3. CASE s.job # k /\ ~(UNCHANGED effects /\ strays' = strays \ {s})
  <2>1. effects'[k] = effects[k]
    BY <1>0, <1>3, StrayShape DEF TakesEffect
  <2>2. \A t \in strays' : t.job = k => t \in strays
    <3>1. s \in [job : Jobs, token : Nat, at : {"window", "operating"}]
      BY DEF SystemInv, SystemTypeOK
    <3>2. [s EXCEPT !.at = "operating"].job = s.job
      BY <3>1
    <3> QED
      BY <1>3, <3>2, StrayShape
  <2> QED
    BY <1>0, <2>1, <2>2, UntouchedMutation
<1> QED
  BY <1>1, <1>2, <1>3

\* A stored reply is of the last attempt: no question of a mutation that took
\* effect, only a failure of one that a stray is left of, and the worker no
\* longer holds that job.
LEMMA DeliverMutation ==
  ASSUME SystemInv, [SystemNext]_vars, NEW m \in net, Deliver(m), NEW k \in Mutations
  PROVE  MutationInv(k)'
<1>0. /\ MutationInv(k) /\ k \in Jobs
      /\ Hears /\ net' \subseteq net /\ UNCHANGED <<strays, effects>>
      /\ Accepted(m) \/ UNCHANGED storeVars
      /\ m.kind \in Kinds
  BY DeliverShape DEF SystemInv, Mutations, SystemTypeOK, Message
<1>2. \/ jobs'[k] = jobs[k]
      \/ /\ m.job = k /\ jobs[k].state = "leased" /\ jobs[k].attempt = m.token
         /\ jobs'[k].attempt = jobs[k].attempt
         /\ m.kind # "approval-required" => jobs'[k].state = m.kind
         /\ m.kind = "approval-required" => jobs'[k].state = "approval-pending"
  BY <1>0, AcceptedRow DEF storeVars
<1>3. Holds(k)' => Holds(k) /\ UNCHANGED worker
  BY <1>0, IdlePhase DEF Hears, Holds
<1>4. Fresh(k)' => Fresh(k)
  BY <1>0, IdlePhase DEF Hears, Fresh
<1>5. HeldAlone(k)'
  BY <1>0, <1>2, <1>3 DEF MutationInv, HeldAlone
<1>6. StrayAlone(k)'
  BY <1>0, <1>2 DEF MutationInv, StrayAlone
<1>7. EffectsCounted(k)'
  BY <1>0, <1>2, <1>4 DEF MutationInv, EffectsCounted
<1>8. AskedByAnother(k)' \/ AppliedFinally(k)'
  <2>1. CASE AskedByAnother(k)
    BY <2>1, AnotherStays
  <2>2. CASE AppliedFinally(k)
    BY <1>0, <1>2, <1>4, <2>2 DEF AppliedFinally, Kinds
  <2> QED
    BY <1>0, <2>1, <2>2 DEF MutationInv
<1>9. DoneIsDone(k)'
  BY <1>0, <1>2, IdlePhase DEF MutationInv, DoneIsDone, Hears, SameLease
<1>10. EffectsConfirmed(k)'
  BY <1>0, ConfirmedStays DEF MutationInv, EffectsConfirmed
<1> QED
  BY <1>5, <1>6, <1>7, <1>8, <1>9, <1>10 DEF MutationInv

LEMMA MutationInvKept ==
  ASSUME SystemInv, [SystemNext]_vars, NEW k \in Mutations
  PROVE  MutationInv(k)'
<1>1. CASE Calm
  BY <1>1, UntouchedMutation DEF Calm, workerVars, Mutations
<1> QED
  BY <1>1, StepShape, HandedMutation, WorkerMutation, StrayMutation, DeliverMutation

\* The question a call shows stays as it is, unless the job ends.
QuestionStays(k) ==
  /\ calls[k].phase = "asked" /\ calls'[k].ticket = calls[k].ticket
  /\ granted'[k] = granted[k]
  /\ Onward(k, jobs[k], jobs'[k])

LEMMA StaysShown ==
  ASSUME SystemInv, NEW k \in Jobs, QuestionStays(k)
  PROVE  QuestionShown(k)'
BY DEF SystemInv, QuestionShown, QuestionStays, Onward, Ended

LEMMA SameOnward ==
  ASSUME NEW k \in Jobs, jobs'[k] = jobs[k]
  PROVE  Onward(k, jobs[k], jobs'[k])
BY DEF Onward

\* Steps of the call itself.
LEMMA OwnCallShown ==
  ASSUME SystemInv, NEW k \in Jobs, CallStep(k)
  PROVE  QuestionShown(k)'
<1>0. /\ IInv /\ calls = [i \in Jobs |-> calls[i]]
      /\ calls[k] \in [phase : CallPhases, aborted : BOOLEAN, ticket : Nat,
                       outcome : Outcomes]
  BY DEF SystemInv, SystemTypeOK
<1>1. ASSUME NEW o, EndCall(k, o) PROVE QuestionShown(k)'
  <2>1. calls'[k] = [calls[k] EXCEPT !.phase = "done", !.outcome = o]
    BY <1>0, <1>1 DEF EndCall
  <2>2. calls'[k].phase = "done"
    BY <1>0, <2>1
  <2> QED
    BY <2>2 DEF QuestionShown
<1>2. ASSUME NEW p, p # "asked", SetPhase(k, p) PROVE QuestionShown(k)'
  <2>1. calls'[k] = [calls[k] EXCEPT !.phase = p]
    BY <1>0, <1>2 DEF SetPhase
  <2>2. calls'[k].phase = p
    BY <1>0, <2>1
  <2> QED
    BY <1>2, <2>2 DEF QuestionShown
<1>3. CASE BeginOffline(k)
  BY <1>1, <1>3 DEF BeginOffline
<1>4. CASE BeginCall(k)
  BY <1>2, <1>4 DEF BeginCall
<1>5. CASE Observe(k)
  <2>1. CASE EndCall(k, jobs[k].state)
    BY <1>1, <2>1
  <2>2. CASE /\ jobs[k].state = "approval-pending"
             /\ calls' = [calls EXCEPT ![k] =
                  [@ EXCEPT !.phase = "asked", !.ticket = jobs[k].ticket]]
    <3>1. calls'[k] = [calls[k] EXCEPT !.phase = "asked", !.ticket = jobs[k].ticket]
      BY <1>0, <2>2
    <3>2. calls'[k].ticket = jobs[k].ticket
      BY <1>0, <3>1
    <3>3. jobs' = jobs /\ granted' = granted
      BY <1>5 DEF Observe, storeVars
    <3>4. jobs[k].ticket = jobs[k].attempt /\ jobs[k].attempt \notin granted[k]
      BY <1>0, <2>2 DEF IInv, Good, Coherent
    <3> QED
      BY <2>2, <3>2, <3>3, <3>4 DEF QuestionShown
  <2> QED
    BY <1>5, <2>1, <2>2 DEF Observe
<1>6. CASE AbortCall(k)
  BY <1>1, <1>6 DEF AbortCall
<1>7. CASE AbortAsked(k)
  <2>1. calls'[k] = [calls[k] EXCEPT !.aborted = TRUE]
    BY <1>0, <1>7 DEF AbortAsked
  <2>2. calls'[k].ticket = calls[k].ticket
    BY <1>0, <2>1
  <2>3. /\ calls[k].phase = "asked" /\ jobs'[k] = jobs[k] /\ granted'[k] = granted[k]
    BY <1>7 DEF AbortAsked, storeVars
  <2> QED
    BY <2>2, <2>3, SameOnward, StaysShown DEF QuestionStays
<1>8. CASE Resume(k)
  <2>1. EndCall(k, "INVALID_APPROVAL") \/ AfterResume(k)
    BY <1>8 DEF Resume
  <2> QED
    BY <1>1, <1>2, <2>1 DEF AfterResume
<1> QED
  BY <1>3, <1>4, <1>5, <1>6, <1>7, <1>8 DEF CallStep

\* Steps of anyone else.
LEMMA OthersCallShown ==
  ASSUME SystemInv, NEW k \in Jobs, NEW j \in Jobs \ {k}, CallStep(j)
  PROVE  QuestionShown(k)'
<1>0. /\ IInv /\ jobs = [i \in Jobs |-> jobs[i]] /\ calls = [i \in Jobs |-> calls[i]]
  BY DEF SystemInv, SystemTypeOK, IInv
<1>1. calls'[k] = calls[k]
  BY <1>0 DEF CallStep, BeginOffline, BeginCall, Observe, AbortCall, AbortAsked, Resume,
              AfterResume, EndCall, SetPhase
<1>2. jobs'[k] = jobs[k] /\ granted'[k] = granted[k]
  <2>1. CASE UNCHANGED storeVars \/ CreateJob(j) \/ Cancel(j)
    BY <1>0, <2>1 DEF storeVars, CreateJob, Cancel
  <2>2. CASE \/ AcceptApproval(j, calls[j].ticket, RequestHash[j])
             \/ DeclineApproval(j, calls[j].ticket, RequestHash[j])
    BY <1>0, <2>2, ResumedRow
  <2> QED
    BY <2>1, <2>2
    DEF CallStep, BeginOffline, BeginCall, Observe, AbortCall, AbortAsked, Resume
<1>3. CASE calls[k].phase = "asked"
  BY <1>1, <1>2, <1>3, SameOnward, StaysShown DEF QuestionStays
<1>4. CASE calls[k].phase # "asked"
  BY <1>1, <1>4 DEF QuestionShown
<1> QED
  BY <1>3, <1>4

LEMMA QuestionShownKept ==
  ASSUME SystemInv, [SystemNext]_vars, NEW k \in Jobs
  PROVE  QuestionShown(k)'
<1>0. /\ IInv /\ calls = [i \in Jobs |-> calls[i]] /\ QuestionShown(k)
      /\ calls[k] \in [phase : CallPhases, aborted : BOOLEAN, ticket : Nat,
                       outcome : Outcomes]
  BY DEF SystemInv, SystemTypeOK
<1>1. ASSUME calls' = calls, granted' = granted,
             calls[k].phase = "asked" => Onward(k, jobs[k], jobs'[k])
      PROVE  QuestionShown(k)'
  <2>1. CASE calls[k].phase = "asked"
    BY <1>1, <2>1, StaysShown DEF QuestionStays
  <2>2. CASE calls[k].phase # "asked"
    BY <1>1, <2>2 DEF QuestionShown
  <2> QED
    BY <2>1, <2>2
<1>2. CASE TimerStep
  <2>1. Onward(k, jobs[k], jobs'[k])
    BY <1>0, <1>2, SweepOnward, SameOnward DEF TimerStep, Tick
  <2> QED
    BY <1>1, <1>2, <2>1 DEF TimerStep, Tick, Sweep
<1>3. CASE RelayCrash
  <2>1. calls'[k] = IF calls[k].phase \in {"waiting", "asked", "resumed"}
                    THEN [calls[k] EXCEPT !.phase = "done", !.outcome = "lost"]
                    ELSE calls[k]
    BY <1>3 DEF RelayCrash
  <2>2. calls'[k].phase # "asked"
    BY <1>0, <2>1
  <2> QED
    BY <2>2 DEF QuestionShown
<1>4. CASE WorkerStep \/ UNCHANGED vars \/ \E s \in strays : StrayStep(s)
  <2>1. calls' = calls /\ UNCHANGED storeVars
    BY <1>4, WorkerKeepsTable, StrayKeepsTable DEF vars
  <2> QED
    BY <1>1, <2>1, SameOnward DEF storeVars
<1>5. ASSUME NEW j \in Jobs, CallStep(j) PROVE QuestionShown(k)'
  BY <1>5, OwnCallShown, OthersCallShown
<1>6. ASSUME NEW j \in Jobs, Poll(j) PROVE QuestionShown(k)'
  <2>1. calls' = calls /\ granted' = granted /\ Lease(j)
    BY <1>6 DEF Poll, Lease
  <2>2. calls[k].phase = "asked" => j # k
    BY <1>0, <2>1, LeasedRow DEF QuestionShown, Ended
  <2> QED
    BY <1>0, <1>1, <2>1, <2>2, OthersOnward
<1>7. ASSUME NEW m \in net, Deliver(m) PROVE QuestionShown(k)'
  <2>1. calls' = calls /\ (Accepted(m) \/ UNCHANGED storeVars)
    BY <1>7, DeliverShape
  <2>2. CASE UNCHANGED storeVars
    BY <1>1, <2>1, <2>2, SameOnward DEF storeVars
  <2>3. CASE Accepted(m)
    <3>1. calls[k].phase = "asked" => m.job # k
      BY <1>0, <2>3, AcceptedRow DEF QuestionShown, Ended
    <3>2. granted' = granted /\ (m.job # k => jobs'[k] = jobs[k])
      BY <2>3, AcceptedRow
    <3> QED
      BY <1>1, <2>1, <3>1, <3>2, SameOnward
  <2> QED
    BY <2>1, <2>2, <2>3
<1>8. ASSUME NEW m \in net, Lose(m) PROVE QuestionShown(k)'
  BY <1>1, <1>8, SameOnward DEF Lose, storeVars
<1> QED
  BY <1>2, <1>3, <1>4, <1>5, <1>6, <1>7, <1>8 DEF SystemNext

-----------------------------------------------------------------------------
(* Types *)

CallRecords == [phase : CallPhases, aborted : BOOLEAN, ticket : Nat, outcome : Outcomes]

WorkerRecords ==
  [phase : {"idle", "leased", "executing", "executed", "posting", "refused"},
   job : Jobs \cup {""}, token : Nat, approval : Nat, kind : Kinds \cup {""},
   approved : Summaries \cup {""}, question : Summaries \cup {""}, by : Jobs \cup {""}]

TicketRecords == [job : Jobs, id : Nat, summary : Summaries, expires : Nat]

StrayRecords == [job : Jobs, token : Nat, at : {"window", "operating"}]

AskedRecords == [job : Jobs, id : Nat, summary : Summaries, by : Jobs]

LEMMA CallStepTyped ==
  ASSUME SystemInv, NEW j \in Jobs, CallStep(j)
  PROVE  calls' \in [Jobs -> CallRecords]
<1>0. /\ IInv /\ calls \in [Jobs -> CallRecords] /\ calls[j] \in CallRecords
  BY DEF SystemInv, SystemTypeOK, CallRecords
<1>1. ASSUME NEW o \in Outcomes, EndCall(j, o) PROVE calls' \in [Jobs -> CallRecords]
  <2>1. [calls[j] EXCEPT !.phase = "done", !.outcome = o] \in CallRecords
    BY <1>0 DEF CallRecords, CallPhases
  <2> QED
    BY <1>0, <1>1, <2>1 DEF EndCall
<1>2. ASSUME NEW p \in CallPhases, SetPhase(j, p) PROVE calls' \in [Jobs -> CallRecords]
  <2>1. [calls[j] EXCEPT !.phase = p] \in CallRecords
    BY <1>0 DEF CallRecords
  <2> QED
    BY <1>0, <1>2, <2>1 DEF SetPhase
<1>3. CASE BeginOffline(j)
  BY <1>1, <1>3 DEF BeginOffline, Outcomes
<1>4. CASE BeginCall(j)
  BY <1>2, <1>4 DEF BeginCall, CallPhases
<1>5. CASE Observe(j)
  <2>1. CASE jobs[j].state \in Ended /\ EndCall(j, jobs[j].state)
    BY <1>1, <2>1 DEF Outcomes
  <2>2. CASE calls' = [calls EXCEPT ![j] =
               [@ EXCEPT !.phase = "asked", !.ticket = jobs[j].ticket]]
    <3>1. jobs[j].ticket \in Nat
      BY <1>0 DEF IInv, Good, Row
    <3>2. [calls[j] EXCEPT !.phase = "asked", !.ticket = jobs[j].ticket] \in CallRecords
      BY <1>0, <3>1 DEF CallRecords, CallPhases
    <3> QED
      BY <1>0, <2>2, <3>2
  <2> QED
    BY <1>5, <2>1, <2>2 DEF Observe
<1>6. CASE AbortCall(j)
  BY <1>1, <1>6 DEF AbortCall, Outcomes
<1>7. CASE AbortAsked(j)
  <2>1. [calls[j] EXCEPT !.aborted = TRUE] \in CallRecords
    BY <1>0 DEF CallRecords
  <2> QED
    BY <1>0, <1>7, <2>1 DEF AbortAsked
<1>8. CASE Resume(j)
  <2>1. \/ EndCall(j, "INVALID_APPROVAL") \/ EndCall(j, "CANCELLED")
        \/ SetPhase(j, "resumed")
    BY <1>8 DEF Resume, AfterResume
  <2> QED
    BY <1>1, <1>2, <2>1 DEF Outcomes, CallPhases
<1> QED
  BY <1>3, <1>4, <1>5, <1>6, <1>7, <1>8 DEF CallStep

LEMMA CallsTyped ==
  ASSUME SystemInv, [SystemNext]_vars
  PROVE  calls' \in [Jobs -> CallRecords]
<1>0. calls \in [Jobs -> CallRecords]
  BY DEF SystemInv, SystemTypeOK, CallRecords
<1>1. CASE UNCHANGED calls
  BY <1>0, <1>1
<1>2. CASE RelayCrash
  <2>1. ASSUME NEW j \in Jobs
        PROVE  [calls[j] EXCEPT !.phase = "done", !.outcome = "lost"] \in CallRecords
    BY <1>0 DEF CallRecords, CallPhases, Outcomes
  <2> QED
    BY <1>0, <1>2, <2>1 DEF RelayCrash
<1>3. CASE \E j \in Jobs : CallStep(j)
  BY <1>3, CallStepTyped
<1>4. CASE \/ TimerStep \/ WorkerStep \/ UNCHANGED vars
           \/ \E j \in Jobs : Poll(j)
           \/ \E s \in strays : StrayStep(s)
           \/ \E m \in net : Deliver(m) \/ Lose(m)
  BY <1>1, <1>4, WorkerKeepsTable, StrayKeepsTable, DeliverShape DEF TimerStep, vars, Poll, Lose
<1> QED
  BY <1>2, <1>3, <1>4 DEF SystemNext

LEMMA WorkerTyped ==
  ASSUME SystemInv
  PROVE  /\ worker \in WorkerRecords /\ tickets \subseteq TicketRecords
         /\ strays \subseteq StrayRecords /\ asked \subseteq AskedRecords
         /\ Idle \in WorkerRecords
BY DEF SystemInv, SystemTypeOK, WorkerRecords, TicketRecords, StrayRecords, AskedRecords, Idle

\* A question is well typed.
LEMMA AskingTyped ==
  ASSUME SystemInv, worker.phase = "executing", NEW summary \in Summaries, NEW by \in Jobs,
         CreateApproval(worker.job, summary, by)
  PROVE  tickets' \subseteq TicketRecords /\ asked' \subseteq AskedRecords
<1>1. worker.job \in Jobs /\ worker.token \in Nat
  BY DEF SystemInv, TokensDrawn, Drawn, SystemTypeOK
<1>2. PICK e \in Nat : tickets' = tickets \cup {[job |-> worker.job, id |-> worker.token,
                                                summary |-> summary, expires |-> e]}
  BY AskingReplies
<1>3. asked' = asked \cup {[job |-> worker.job, id |-> worker.token,
                           summary |-> summary, by |-> by]}
  BY AskingReplies
<1>4. tickets' \subseteq TicketRecords
  BY <1>1, <1>2, WorkerTyped DEF TicketRecords
<1>5. asked' \subseteq AskedRecords
  BY <1>1, <1>3, WorkerTyped DEF AskedRecords
<1> QED
  BY <1>4, <1>5

LEMMA TicketsTyped ==
  ASSUME SystemInv, WorkerStep
  PROVE  tickets' \subseteq TicketRecords /\ asked' \subseteq AskedRecords
<1>1. CASE tickets' \subseteq tickets /\ asked' = asked
  BY <1>1, WorkerTyped
<1>2. CASE ExecutionAsks
  <2>1. worker.phase = "executing" /\ worker.job \in Jobs
    BY <1>2 DEF ExecutionAsks, SystemInv, TokensDrawn, Drawn
  <2> QED
    BY <1>2, <2>1, AskingTyped DEF ExecutionAsks
<1>3. CASE ExecutionCrossed
  <2>1. worker.question \in Summaries /\ worker.by \in Jobs
    BY <1>3, WorkerTyped DEF ExecutionCrossed, SystemInv, LeftByStray, WorkerRecords
  <2> QED
    BY <1>3, <2>1, AskingTyped DEF ExecutionCrossed
<1> QED
  BY <1>1, <1>2, <1>3 DEF WorkerStep, StartExecution, RejectApproval, ExecutionSucceeds,
     ExecutionFails, PostCompleted, UploadFails, AbortExecution, ExecutionTimesOut,
     AcceptRefusal, SubmitThrows, WorkerCrash

LEMMA WorkerStepTyped ==
  ASSUME SystemInv, WorkerStep
  PROVE  worker' \in WorkerRecords
<1>1. ASSUME NEW j, NEW kind \in Kinds, NEW body, NEW e, Post(j, kind, body, e)
      PROVE  worker' \in WorkerRecords
  BY <1>1, WorkerTyped DEF Post, Returned, WorkerRecords
<1>2. {"completed", "failed", "approval-required"} = Kinds
  BY DEF Kinds
<1>3. ASSUME NEW summary \in Summaries \cup {""}, Executes(summary)
      PROVE  worker' \in WorkerRecords
  BY <1>3, WorkerTyped DEF Executes, WorkerRecords
<1>4. CASE StartExecution
  <2>1. \A t \in Consumable : t.summary \in Summaries
    BY WorkerTyped DEF Consumable, TicketRecords
  <2> QED
    BY <1>3, <1>4, <2>1 DEF StartExecution
<1>5. CASE RejectApproval \/ ExecutionFails \/ PostCompleted \/ UploadFails
           \/ ExecutionTimesOut
  BY <1>1, <1>2, <1>5
  DEF RejectApproval, ExecutionFails, PostCompleted, UploadFails, ExecutionTimesOut
<1>6. CASE ExecutionSucceeds
  BY <1>6, WorkerTyped DEF ExecutionSucceeds, Returned, WorkerRecords
<1>7. CASE ExecutionAsks \/ ExecutionCrossed
  BY <1>1, <1>2, <1>7 DEF ExecutionAsks, ExecutionCrossed, CreateApproval
<1>8. CASE AbortExecution \/ AcceptRefusal \/ WorkerCrash
  BY <1>8, WorkerTyped DEF AbortExecution, AcceptRefusal, WorkerCrash
<1>9. CASE SubmitThrows
  BY <1>1, <1>2, <1>9, WorkerTyped DEF SubmitThrows
<1> QED
  BY <1>4, <1>5, <1>6, <1>7, <1>8, <1>9 DEF WorkerStep

LEMMA StraysTyped ==
  ASSUME SystemInv, WorkerStep
  PROVE  strays' \subseteq StrayRecords
<1>1. CASE strays' \subseteq strays
  BY <1>1, WorkerTyped
<1>2. ASSUME NEW place \in {"window", "operating"}, RunsOn(place)
      PROVE  strays' \subseteq StrayRecords
  <2>1. worker.job \in Jobs /\ worker.token \in Nat
    BY <1>2 DEF SystemInv, TokensDrawn, Drawn, SystemTypeOK, RunsOn
  <2> QED
    BY <1>2, <2>1, WorkerTyped DEF RunsOn, StrayRecords
<1> QED
  BY <1>1, <1>2, WorkerShape DEF Begins, Succeeds, Leaves, Drops

LEMMA HandedTyped ==
  ASSUME SystemInv, NEW j \in Jobs, Handed(j), IInv'
  PROVE  worker' \in WorkerRecords
<1>1. jobs'[j].leaseToken \in Nat /\ ApprovalSent(jobs'[j]) \in Nat
  BY DEF IInv, Good, Row, ApprovalSent
<1> QED
  BY <1>1 DEF Handed, WorkerRecords

LEMMA StrayStepTyped ==
  ASSUME SystemInv, NEW s \in strays, StrayStep(s)
  PROVE  worker' \in WorkerRecords /\ strays' \subseteq StrayRecords
<1>1. worker' \in WorkerRecords
  <2>1. CASE Questioned
    BY <2>1, WorkerTyped DEF Questioned, WorkerRecords
  <2> QED
    BY <2>1, StrayShape, WorkerTyped
<1>2. strays' \subseteq StrayRecords
  <2>1. [s EXCEPT !.at = "operating"] \in StrayRecords
    BY WorkerTyped DEF StrayRecords
  <2> QED
    BY <2>1, StrayShape, WorkerTyped
<1> QED
  BY <1>1, <1>2

LEMMA DeliverTyped ==
  ASSUME SystemInv, NEW m \in net, Deliver(m)
  PROVE  worker' \in WorkerRecords
<1>1. [worker EXCEPT !.phase = "refused"] \in WorkerRecords
  BY WorkerTyped DEF WorkerRecords
<1> QED
  BY <1>1, WorkerTyped DEF Deliver, Respond

LEMMA EffectsTyped ==
  ASSUME SystemInv, NEW j \in Jobs, TakesEffect(j)
  PROVE  effects' \in [Jobs -> Nat]
<1>1. effects \in [Jobs -> Nat]
  BY DEF SystemInv, SystemTypeOK
<1>2. effects' = [effects EXCEPT ![j] = IF j \in ReadOnlyJobs THEN 0 ELSE effects[j] + 1]
  BY DEF TakesEffect
<1> QED
  BY <1>1, <1>2

LEMMA SystemTypeKept ==
  ASSUME SystemInv, [SystemNext]_vars
  PROVE  SystemTypeOK'
<1>0. IInv' /\ calls' \in [Jobs -> CallRecords]
  BY SystemStoreStep, NextIInv, CallsTyped DEF SystemInv
<1>1. TypeOK'
  BY <1>0 DEF IInv, Good, TypeOK
<1>2. net \subseteq Message /\ effects \in [Jobs -> Nat]
  BY DEF SystemInv, SystemTypeOK
<1>3. /\ worker' \in WorkerRecords /\ tickets' \subseteq TicketRecords
      /\ strays' \subseteq StrayRecords /\ asked' \subseteq AskedRecords
      /\ net' \subseteq Message /\ effects' \in [Jobs -> Nat]
  <2>1. CASE Calm
    BY <1>2, <2>1, WorkerTyped DEF Calm, workerVars
  <2>2. CASE \E j \in Jobs : Handed(j)
    BY <1>0, <1>2, <2>2, HandedTyped, WorkerTyped DEF Handed
  <2>3. CASE WorkerStep
    <3>1. net' \subseteq Message
      BY <1>2, <2>3, WorkerPosts
    <3>2. worker.phase = "executing" => worker.job \in Jobs
      BY DEF SystemInv, TokensDrawn, Drawn
    <3>3. UNCHANGED effects \/ Operates
      BY <2>3, WorkerShape DEF Begins, Replies, Succeeds, Leaves, Drops
    <3>4. effects' \in [Jobs -> Nat]
      BY <1>2, <3>2, <3>3, EffectsTyped DEF Operates
    <3> QED
      BY <2>3, <3>1, <3>4, WorkerStepTyped, TicketsTyped, StraysTyped
  <2>4. CASE \E s \in strays : StrayStep(s)
    <3>1. PICK s \in strays : StrayStep(s)
      BY <2>4
    <3>2. s.job \in Jobs
      BY DEF SystemInv, SystemTypeOK
    <3>3. effects' \in [Jobs -> Nat]
      BY <1>2, <3>1, <3>2, StrayShape, EffectsTyped
    <3> QED
      BY <1>2, <3>1, <3>3, StrayStepTyped, StrayKeepsTable, WorkerTyped
  <2>5. CASE \E m \in net : Deliver(m)
    BY <1>2, <2>5, DeliverTyped, DeliverShape, WorkerTyped
  <2> QED
    BY <2>1, <2>2, <2>3, <2>4, <2>5, StepShape
<1> QED
  BY <1>0, <1>1, <1>3
  DEF SystemTypeOK, CallRecords, WorkerRecords, TicketRecords, StrayRecords, AskedRecords

-----------------------------------------------------------------------------
(* The theorems *)

LEMMA SystemInitInv == SystemInit => SystemInv
<1> SUFFICES ASSUME SystemInit PROVE SystemInv
  OBVIOUS
<1>1. IInv
  BY InitIInv DEF SystemInit
<1>2. TypeOK
  BY <1>1 DEF IInv, Good, TypeOK
<1>3. /\ NoCall \in CallRecords /\ Idle \in WorkerRecords
  BY DEF CallRecords, WorkerRecords, NoCall, Idle, CallPhases, Outcomes
<1>4. SystemTypeOK
  BY <1>2, <1>3 DEF SystemInit, SystemTypeOK, CallRecords, WorkerRecords
<1>5. worker.phase = "idle" /\ net = {}
  BY IdlePhase DEF SystemInit
<1>6. /\ TokensDrawn /\ AnswersHaveBodies /\ ApprovalHeld
      /\ TicketsAsked /\ ApprovedAccepted /\ LeftByStray
  BY <1>5 DEF SystemInit, Idle, TokensDrawn, AnswersHaveBodies, ApprovalHeld, TicketsAsked,
     ApprovedAccepted, LeftByStray
<1>7. ASSUME NEW j \in Jobs
      PROVE  /\ LivesOn(j) /\ QuestionShown(j)
             /\ MutationInv(j)
  <2>1. jobs[j].state = "absent" /\ jobs[j].expires = 0
    BY DEF SystemInit, Init, NoRow
  <2>2. calls[j].phase = "idle" /\ effects[j] = 0 /\ strays = {} /\ jobs[j].attempt = 0
    BY DEF SystemInit, Init, NoCall, NoRow
  <2>3. LivesOn(j)
    BY <2>1, TimesAssumption DEF LivesOn
  <2> QED
    BY <1>5, <2>1, <2>2, <2>3 DEF QuestionShown, MutationInv, HeldAlone, Holds, StrayAlone,
       EffectsCounted, Fresh, AppliedFinally, DoneIsDone, EffectsConfirmed
<1> QED
  BY <1>1, <1>4, <1>6, <1>7 DEF SystemInv, Mutations

LEMMA SystemNextInv == SystemInv /\ [SystemNext]_vars => SystemInv'
<1> SUFFICES ASSUME SystemInv, [SystemNext]_vars PROVE SystemInv'
  OBVIOUS
<1>1. IInv'
  BY SystemStoreStep, NextIInv DEF SystemInv
<1>2. \A j \in Jobs : (LivesOn(j) /\ QuestionShown(j))'
  BY LivesOnKept, QuestionShownKept
<1>3. \A j \in Mutations : MutationInv(j)'
  BY MutationInvKept
<1> QED
  BY <1>1, <1>2, <1>3, SystemTypeKept, TokensDrawnKept, ApprovalHeldKept, TicketsAskedKept,
     ApprovedAcceptedKept, LeftByStrayKept
  DEF SystemInv, Mutations

\* The inductive invariant of the composed system: what the table, the worker,
\* the handlers that outlive their calls, the messages under way and the user's
\* question know of one another.
THEOREM SystemInvariant == SystemSpec => []SystemInv
<1>1. SystemInit => SystemInv
  BY SystemInitInv
<1>2. SystemInv /\ [SystemNext]_vars => SystemInv'
  BY SystemNextInv
<1> QED
  BY <1>1, <1>2, PTL DEF SystemSpec

\* The calls, the worker, its tickets, the messages and the table stay well
\* typed (relay.ts, client.ts).
THEOREM SystemTypeCorrect == SystemSpec => []SystemTypeOK
<1>1. SystemInv => SystemTypeOK
  BY DEF SystemInv
<1> QED
  BY <1>1, SystemInvariant, PTL

\* The composed system implements the jobs table: MCP calls, worker, network,
\* timers and crashes only ever do to it what the table's own specification
\* allows any caller.
THEOREM SystemImplementsTable == SystemSpec => Spec
<1>1. SystemInit => Init
  BY DEF SystemInit
<1>2. SystemInv /\ [SystemNext]_vars => [Next]_storeVars
  BY SystemStoreStep
<1> QED
  BY <1>1, <1>2, SystemInvariant, PTL DEF SystemSpec, Spec

\* So a job of the running system keeps the contract: one verdict, no definite
\* one on a mutation that was given up, no rerun of a mutation without the
\* user's word.
THEOREM SystemKeepsContract == SystemSpec => Contract
  BY SystemImplementsTable, TableImplementsContract, PTL

\* Whatever is lost, delayed or repeated, whoever crashes and whichever handler
\* outlives its call, a mutation takes effect at most once, unless another
\* job's handler asked in its name; then at most once more for each question
\* the user accepted about it (client.ts handle, bridge.ts execute, store.ts
\* lease and sweep).
THEOREM MutationAppliedAtMostOnce == SystemSpec => []AppliedAtMostOnce
<1>1. SystemInv => AppliedAtMostOnce
  <2> SUFFICES ASSUME SystemInv, NEW j \in Mutations
               PROVE  /\ AskedByAnother(j) \/ effects[j] <= 1
                      /\ \A n \in 1..(effects[j] - 1) : n \in granted[j]
    BY DEF AppliedAtMostOnce
  <2>1. MutationInv(j) /\ IInv /\ j \in Jobs \ ReadOnlyJobs
        /\ effects[j] \in Nat /\ jobs[j].attempt \in Nat
    BY DEF SystemInv, SystemTypeOK, IInv, Good, Row, Mutations
  <2>2. effects[j] <= jobs[j].attempt
    BY <2>1 DEF MutationInv, EffectsCounted
  <2>3. Authorised(jobs[j], granted[j])
    BY <2>1 DEF IInv, Good
  <2>4. ASSUME NEW n \in 1..(effects[j] - 1) PROVE n \in granted[j]
    <3>1. n \in 1..jobs[j].attempt /\ n < jobs[j].attempt
      BY <2>1, <2>2
    <3> QED
      BY <2>3, <3>1 DEF Authorised
  <2> QED
    BY <2>1, <2>4 DEF MutationInv, AppliedFinally
<1> QED
  BY <1>1, SystemInvariant, PTL

\* A mutation that the policy wants confirmed takes effect only after the user
\* accepted all its run asks: of that job, or of another one with the same
\* question when the row says that the outcome is unknown (consumeApproval,
\* resumeApproval, the approvalHandler of execute).
THEOREM MutationAppliedIfConfirmed == SystemSpec => []AppliedOnlyIfConfirmed
<1>1. SystemInv => AppliedOnlyIfConfirmed
  BY DEF SystemInv, MutationInv, EffectsConfirmed, AppliedOnlyIfConfirmed
<1> QED
  BY <1>1, SystemInvariant, PTL

\* A cancelled or expired mutation did not take effect, unless another job's
\* handler asked in its name; a completed one did, and once but for that case,
\* whichever replies got lost (sweep, cancel, submitReply).
THEOREM RowTellsTheEffect == SystemSpec => []RowTellsEffect
<1>1. SystemInv => RowTellsEffect
  <2> SUFFICES ASSUME SystemInv, NEW j \in Mutations
               PROVE  /\ jobs[j].state \in {"cancelled", "expired"} =>
                           AskedByAnother(j) \/ effects[j] = 0
                      /\ jobs[j].state = "completed" =>
                           effects[j] = 1 \/ (AskedByAnother(j) /\ effects[j] > 1)
    BY DEF RowTellsEffect
  <2>1. MutationInv(j) /\ effects[j] \in Nat
    BY DEF SystemInv, SystemTypeOK, Mutations
  <2>2. AskedByAnother(j) \/ effects[j] <= 1
    BY <2>1 DEF MutationInv, AppliedFinally
  <2>3. jobs[j].state \in {"cancelled", "expired"} => AskedByAnother(j) \/ ~(effects[j] > 0)
    BY <2>1 DEF MutationInv, AppliedFinally
  <2>4. jobs[j].state = "completed" => effects[j] > 0
    BY <2>1 DEF MutationInv, DoneIsDone
  <2> QED
    BY <2>1, <2>2, <2>3, <2>4
<1> QED
  BY <1>1, SystemInvariant, PTL

\* The question a user looks at is the job's latest and not yet accepted
\* (waitForStep, submitReply, resumeApproval).
THEOREM ShownPromptIsCurrent == SystemSpec => []PromptIsCurrent
<1>1. SystemInv => PromptIsCurrent
  BY DEF SystemInv, QuestionShown, PromptIsCurrent
<1> QED
  BY <1>1, SystemInvariant, PTL
=============================================================================
