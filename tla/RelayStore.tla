----------------------------- MODULE RelayStore -----------------------------
(***************************************************************************)
(* The jobs table of the relay (src/remote/store.ts) and every statement   *)
(* that writes it.  Each method runs to its end inside one turn of the     *)
(* relay's event loop, so each is one action.                              *)
(*                                                                         *)
(* Data kept abstract: a lease token and an approval ticket are fresh      *)
(* UUIDs of one attempt, so the number of the attempt stands for both; 0   *)
(* stands for NULL.  A result or error text is a member of Bodies.         *)
(***************************************************************************)
EXTENDS Integers

CONSTANTS
  Jobs,           \* job ids the relay may ever create
  ReadOnlyJobs,   \* jobs of tools with the readOnlyHint annotation
  Hashes,         \* request hashes (tool name and canonical arguments)
  RequestHash,    \* the hash of each job's request
  Bodies,         \* contents a worker's answer may carry
  JobTimeout,     \* JOB_TIMEOUT_MS
  LeaseTime,      \* leaseMs
  CreateUntil,    \* bound: no job is created after this time
  MaxAttempts     \* bound: leases per job

ASSUME JobsAssumption == ReadOnlyJobs \subseteq Jobs
ASSUME HashAssumption == RequestHash \in [Jobs -> Hashes]
ASSUME TimesAssumption ==
  /\ JobTimeout \in Nat \ {0}
  /\ LeaseTime \in Nat \ {0}
  /\ CreateUntil \in Nat
  /\ MaxAttempts \in Nat \ {0}
ASSUME BodiesAssumption ==
  Bodies \cap {"", "APPROVAL_DECLINED", "INDETERMINATE_EXECUTION",
               "CANCELLED_INDETERMINATE"} = {}

VARIABLES
  now,      \* the relay's clock, Date.now()
  jobs,     \* the jobs table: one row per job, state "absent" before INSERT
  granted   \* history: the tickets of each job that a user accepted

storeVars == <<now, jobs, granted>>

JobStates == {"queued", "leased", "approval-pending", "completed", "failed",
              "expired", "cancelled", "indeterminate"}
Ended == {"completed", "failed", "expired", "cancelled", "indeterminate"}

Answers == Bodies \cup {"", "APPROVAL_DECLINED", "INDETERMINATE_EXECUTION",
                        "CANCELLED_INDETERMINATE"}

Row == [state : JobStates \cup {"absent"}, attempt : Nat, expires : Nat,
        leaseToken : Nat, leaseExpires : Nat,
        ticket : Nat, ticketExpires : Nat, approved : BOOLEAN,
        answer : Answers]

NoRow == [state |-> "absent", attempt |-> 0, expires |-> 0,
          leaseToken |-> 0, leaseExpires |-> 0,
          ticket |-> 0, ticketExpires |-> 0, approved |-> FALSE, answer |-> ""]

\* By now every job, ticket and lease that can exist has run out.
Horizon == CreateUntil + JobTimeout + LeaseTime

TypeOK ==
  /\ now \in 0..Horizon
  /\ jobs \in [Jobs -> Row]
  /\ granted \in [Jobs -> SUBSET Nat]

Init ==
  /\ now = 0
  /\ jobs = [j \in Jobs |-> NoRow]
  /\ granted = [j \in Jobs |-> {}]

Tick ==
  /\ now < Horizon
  /\ now' = now + 1
  /\ UNCHANGED <<jobs, granted>>

-----------------------------------------------------------------------------
(* createJob *)

CreateJob(j) ==
  /\ jobs[j].state = "absent"
  /\ now <= CreateUntil
  /\ jobs' = [jobs EXCEPT ![j] =
       [NoRow EXCEPT !.state = "queued", !.expires = now + JobTimeout]]
  /\ UNCHANGED <<now, granted>>

-----------------------------------------------------------------------------
(* sweep *)

Released(r) == [r EXCEPT !.leaseToken = 0, !.leaseExpires = 0]

Lapsed(r) ==
  \/ r.state \in {"queued", "approval-pending"} /\ r.expires <= now
  \/ r.state = "approval-pending" /\ r.ticketExpires <= now

LeaseLost(r) == r.state = "leased" /\ r.leaseExpires <= now

\* Slip: a lost lease requeues a mutation like a read.
SweptRequeuesAll(j, r) ==
  CASE Lapsed(r) -> [r EXCEPT !.state = "expired"]
    [] LeaseLost(r) /\ r.expires > now -> [Released(r) EXCEPT !.state = "queued"]
    [] OTHER -> r

\* Slip: an unanswered question puts the job back in the queue.
SweptRequeuesQuestion(j, r) ==
  IF r.state = "approval-pending" /\ r.ticketExpires <= now /\ r.expires > now
  THEN [r EXCEPT !.state = "queued"]
  ELSE IF Lapsed(r) THEN [r EXCEPT !.state = "expired"] ELSE r

\* Slip: the sweep has no statement for mutations.
SweptReadsOnly(j, r) ==
  CASE Lapsed(r) -> [r EXCEPT !.state = "expired"]
    [] LeaseLost(r) /\ j \in ReadOnlyJobs /\ r.expires > now ->
         [Released(r) EXCEPT !.state = "queued"]
    [] OTHER -> r

\* A read-only lease that ends after its job did matches no UPDATE.
Swept(j, r) ==
  CASE Lapsed(r) -> [r EXCEPT !.state = "expired"]
    [] LeaseLost(r) /\ j \in ReadOnlyJobs /\ r.expires > now ->
         [Released(r) EXCEPT !.state = "queued"]
    [] LeaseLost(r) /\ j \notin ReadOnlyJobs ->
         [Released(r) EXCEPT !.state = "indeterminate",
                             !.answer = "INDETERMINATE_EXECUTION"]
    [] OTHER -> r

SweptJobs == [j \in Jobs |-> Swept(j, jobs[j])]

Sweep == jobs' = SweptJobs /\ UNCHANGED <<now, granted>>

-----------------------------------------------------------------------------
(* lease: sweep, then hand out the oldest queued job.  Every job lives for  *)
(* JobTimeout, so the oldest is the first to expire; ties are open.         *)

Leasable(rows) == {j \in Jobs : rows[j].state = "queued" /\ rows[j].expires > now}

Leased(r) == [r EXCEPT !.state = "leased",
                       !.attempt = r.attempt + 1,
                       !.leaseToken = r.attempt + 1,
                       !.leaseExpires = now + LeaseTime]

Lease(j) ==
  LET rows == SweptJobs IN
  /\ j \in Leasable(rows)
  /\ \A k \in Leasable(rows) : rows[j].expires <= rows[k].expires
  /\ rows[j].attempt < MaxAttempts
  /\ jobs' = [rows EXCEPT ![j] = Leased(rows[j])]
  /\ UNCHANGED <<now, granted>>

\* The ticket the worker receives with the leased row r, 0 for none.
ApprovalSent(r) == IF r.approved THEN r.ticket ELSE 0

-----------------------------------------------------------------------------
(* submitReply *)

\* Slip: the token of the last lease is honoured in any state.
HoldsLastLease(j, token) == jobs[j].attempt = token

HoldsLease(j, token) == jobs[j].state = "leased" /\ jobs[j].leaseToken = token

SameAnswer(j, kind, body) == jobs[j].state = kind /\ jobs[j].answer = body

\* A completed or failed reply: the first answer under the lease is stored.
SubmitOutcome(j, token, hash, kind, body) ==
  /\ hash = RequestHash[j]
  /\ HoldsLease(j, token)
  /\ jobs' = [jobs EXCEPT ![j] =
       [Released(@) EXCEPT !.state = kind, !.answer = body]]
  /\ UNCHANGED <<now, granted>>

\* Slip: the question leaves the lease on the row.
SubmitApprovalKeepsLease(j, token, hash, expires) ==
  /\ hash = RequestHash[j]
  /\ HoldsLease(j, token)
  /\ now < expires /\ expires <= jobs[j].expires
  /\ jobs' = [jobs EXCEPT ![j] =
       [@ EXCEPT !.state = "approval-pending",
                 !.ticket = token, !.ticketExpires = expires]]
  /\ UNCHANGED <<now, granted>>

\* An approval-required reply.  `approved` keeps its value.
SubmitApproval(j, token, hash, expires) ==
  /\ hash = RequestHash[j]
  /\ HoldsLease(j, token)
  /\ now < expires /\ expires <= jobs[j].expires
  /\ jobs' = [jobs EXCEPT ![j] =
       [Released(@) EXCEPT !.state = "approval-pending",
                           !.ticket = token, !.ticketExpires = expires]]
  /\ UNCHANGED <<now, granted>>

-----------------------------------------------------------------------------
(* resumeApproval *)

TicketOpen(j, ticket, hash) ==
  /\ jobs[j].ticket = ticket
  /\ jobs[j].state = "approval-pending"
  /\ jobs[j].ticketExpires > now
  /\ hash = RequestHash[j]

AcceptApproval(j, ticket, hash) ==
  /\ TicketOpen(j, ticket, hash)
  /\ jobs' = [jobs EXCEPT ![j] = [@ EXCEPT !.state = "queued", !.approved = TRUE]]
  /\ granted' = [granted EXCEPT ![j] = @ \cup {ticket}]
  /\ UNCHANGED now

DeclineApproval(j, ticket, hash) ==
  /\ TicketOpen(j, ticket, hash)
  /\ jobs' = [jobs EXCEPT ![j] =
       [@ EXCEPT !.state = "failed", !.answer = "APPROVAL_DECLINED"]]
  /\ UNCHANGED <<now, granted>>

-----------------------------------------------------------------------------
(* cancel *)

\* Slip: a leased mutation is cancelled like a read.
CancelledOutright(j, r) ==
  IF r.state \in {"queued", "approval-pending", "leased"}
  THEN [Released(r) EXCEPT !.state = "cancelled"]
  ELSE r

\* Slip: a state the schema does not know.
CancelledMisspelt(j, r) ==
  IF r.state \in {"queued", "approval-pending"}
  THEN [Released(r) EXCEPT !.state = "canceled"]
  ELSE r

Cancelled(j, r) ==
  CASE \/ r.state \in {"queued", "approval-pending"}
       \/ r.state = "leased" /\ j \in ReadOnlyJobs ->
         [Released(r) EXCEPT !.state = "cancelled"]
    [] r.state = "leased" /\ j \notin ReadOnlyJobs ->
         [Released(r) EXCEPT !.state = "indeterminate",
                             !.answer = "CANCELLED_INDETERMINATE"]
    [] OTHER -> r

Cancel(j) ==
  /\ jobs' = [jobs EXCEPT ![j] = Cancelled(j, @)]
  /\ UNCHANGED <<now, granted>>

-----------------------------------------------------------------------------
(* The table alone, under any caller: a reply may carry the token of any    *)
(* lease the job ever had and come any number of times.                     *)

Next ==
  \/ Tick
  \/ Sweep
  \/ \E j \in Jobs :
       \/ CreateJob(j)
       \/ Lease(j)
       \/ Cancel(j)
       \/ \E token \in 1..jobs[j].attempt, hash \in Hashes :
            \/ \E kind \in {"completed", "failed"}, body \in Bodies :
                 SubmitOutcome(j, token, hash, kind, body)
            \/ \E expires \in 1..Horizon : SubmitApproval(j, token, hash, expires)
            \/ AcceptApproval(j, token, hash)
            \/ DeclineApproval(j, token, hash)

Spec == Init /\ [][Next]_storeVars

-----------------------------------------------------------------------------
(* Correctness *)

\* A row's columns agree: only a leased row has a token, which is that of the
\* last attempt; a question is the last attempt's and closes before the job;
\* a row the user approved stays covered by an accepted ticket until it asks
\* again.  (The UPDATEs of store.ts write these columns piecemeal.)
Coherent(r, g) ==
  /\ (r.state = "leased") = (r.leaseToken # 0)
  /\ r.leaseToken \in {0, r.attempt}
  /\ (r.leaseToken # 0) = (r.leaseExpires # 0)
  /\ r.state = "absent" => r = NoRow
  /\ r.state = "approval-pending" =>
       r.ticket = r.attempt /\ r.ticket # 0 /\ r.ticketExpires <= r.expires
  /\ r.ticket <= r.attempt
  /\ r.state = "leased" => r.ticket < r.attempt
  /\ r.approved /\ r.state \in {"queued", "leased"} => r.ticket \in g
  /\ r.state \in {"approval-pending", "leased"} => r.attempt \notin g
  /\ \A t \in g : 1 <= t /\ t <= r.attempt

RowsCoherent == \A j \in Jobs : Coherent(jobs[j], granted[j])

\* Every hand-out but the last was followed by an accepted question, and in a
\* queued row the last one too.
Authorised(r, g) ==
  \A n \in 1..r.attempt : n < r.attempt \/ r.state = "queued" => n \in g

\* A mutation is handed to the worker again only on the user's word.  No
\* order of sweeps, cancels and stale replies puts one back in the queue
\* (lease, sweep, resumeApproval; store.ts:123-211).
RerunAuthorised ==
  \A j \in Jobs \ ReadOnlyJobs : Authorised(jobs[j], granted[j])

\* The approval a lease carries (store.ts:162) is a ticket the user accepted
\* for that very job, raised by an earlier attempt of it, although the
\* `approved` column is never cleared when the job asks a second time.
ApprovalSentGranted ==
  \A j \in Jobs :
    jobs[j].state = "leased" /\ ApprovalSent(jobs[j]) # 0 =>
      /\ ApprovalSent(jobs[j]) \in granted[j]
      /\ ApprovalSent(jobs[j]) < jobs[j].attempt

\* What JobContract sees of a row.
Phase(s) ==
  CASE s = "queued" -> "waiting"
    [] s = "leased" -> "running"
    [] s = "approval-pending" -> "asking"
    [] s = "completed" -> "succeeded"
    [] s \in {"expired", "cancelled"} -> "dropped"
    [] s = "indeterminate" -> "unknown"
    [] OTHER -> s

JobView(r, g) == [phase |-> Phase(r.state), runs |-> r.attempt, granted |-> g]

JobViews == [j \in Jobs |-> JobView(jobs[j], granted[j])]

Promise == INSTANCE JobContract WITH contract <- JobViews

\* The table keeps the promise of JobContract: one verdict per job, a running
\* mutation never given up with a definite verdict, no rerun of a mutation
\* without the user's word, no ticket accepted twice.
Contract == Promise!Spec

\* A stored answer is the worker's and stays: a second answer, a late sweep
\* or a cancel never replaces the content of a completed or failed job.
AnswerKept ==
  [][\A j \in Jobs : jobs[j].state \in Ended => jobs'[j] = jobs[j]]_storeVars
=============================================================================
