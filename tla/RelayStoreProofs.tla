--------------------------- MODULE RelayStoreProofs ---------------------------
(***************************************************************************)
(* Proofs about the jobs table, for any set of jobs, any timeouts and any  *)
(* number of leases.  The invariant holds row by row, so each UPDATE is a  *)
(* lemma about one row and the step proofs only say which rows it touches. *)
(***************************************************************************)
EXTENDS RelayStore, TLAPS

\* What holds of the row r of job j whose accepted tickets are g.
Good(j, r, g) ==
  /\ r \in Row
  /\ g \in SUBSET Nat
  /\ Coherent(r, g)
  /\ j \notin ReadOnlyJobs => Authorised(r, g)

\* The inductive invariant: every row is good.
IInv ==
  /\ now \in 0..Horizon
  /\ jobs = [j \in Jobs |-> jobs[j]]
  /\ granted = [j \in Jobs |-> granted[j]]
  /\ \A j \in Jobs : Good(j, jobs[j], granted[j])

LEMMA HorizonNat == Horizon \in Nat
  BY TimesAssumption DEF Horizon

LEMMA NoRowGood == ASSUME NEW j PROVE Good(j, NoRow, {})
  BY DEF Good, NoRow, Row, JobStates, Answers, Coherent, Authorised

\* The INSERT of createJob.
LEMMA CreatedGood ==
  ASSUME NEW j, NEW t \in Nat
  PROVE  Good(j, [NoRow EXCEPT !.state = "queued", !.expires = t], {})
<1> DEFINE d == [NoRow EXCEPT !.state = "queued", !.expires = t]
<1>1. NoRow \in Row
  BY NoRowGood DEF Good
<1>2. d \in Row
  BY <1>1 DEF Row, JobStates
<1>3. /\ d.state = "queued" /\ d.attempt = 0 /\ d.approved = FALSE
      /\ d.leaseToken = 0 /\ d.leaseExpires = 0 /\ d.ticket = 0
  BY DEF NoRow
<1> HIDE DEF d
<1>4. Coherent(d, {})
  BY <1>3 DEF Coherent
<1>5. Authorised(d, {})
  BY <1>3 DEF Authorised
<1> QED
  BY <1>2, <1>4, <1>5 DEF Good, d

\* A row whose lease has ended in a state that is neither queued nor asking.
LEMMA ClosedGood ==
  ASSUME NEW j, NEW r, NEW g, Good(j, r, g), r.state # "absent",
         NEW s \in Ended, NEW a \in Answers
  PROVE  Good(j, [Released(r) EXCEPT !.state = s, !.answer = a], g)
  BY DEF Good, Row, JobStates, Coherent, Authorised, Released, Ended

LEMMA SweptGood ==
  ASSUME NEW j, NEW r, NEW g, Good(j, r, g)
  PROVE  Good(j, Swept(j, r), g)
<1>1. CASE Lapsed(r)
  <2>1. r.state \in {"queued", "approval-pending"}
    BY <1>1 DEF Lapsed
  <2>2. Good(j, [r EXCEPT !.state = "expired"], g)
    BY <2>1 DEF Good, Row, JobStates, Coherent, Authorised
  <2>3. ~LeaseLost(r)
    BY <2>1 DEF LeaseLost
  <2> QED
    BY <1>1, <2>2, <2>3 DEF Swept
<1>2. CASE ~Lapsed(r) /\ LeaseLost(r) /\ j \in ReadOnlyJobs /\ r.expires > now
  <2>1. Good(j, [Released(r) EXCEPT !.state = "queued"], g)
    BY <1>2 DEF Good, Row, JobStates, Coherent, Authorised, LeaseLost, Released
  <2> QED
    BY <1>2, <2>1 DEF Swept
<1>3. CASE ~Lapsed(r) /\ LeaseLost(r) /\ j \notin ReadOnlyJobs
  <2>1. Good(j, [Released(r) EXCEPT !.state = "indeterminate",
                                    !.answer = "INDETERMINATE_EXECUTION"], g)
    BY <1>3, ClosedGood DEF LeaseLost, Ended, Answers
  <2> QED
    BY <1>3, <2>1 DEF Swept
<1>4. CASE /\ ~Lapsed(r)
           /\ ~(LeaseLost(r) /\ j \in ReadOnlyJobs /\ r.expires > now)
           /\ ~(LeaseLost(r) /\ j \notin ReadOnlyJobs)
  BY <1>4 DEF Swept
<1> QED
  BY <1>1, <1>2, <1>3, <1>4

LEMMA LeasedGood ==
  ASSUME NEW j, NEW r, NEW g, Good(j, r, g), r.state = "queued", now \in Nat
  PROVE  Good(j, Leased(r), g)
<1> DEFINE d == Leased(r)
<1>1. /\ r \in Row /\ g \in SUBSET Nat /\ r.attempt \in Nat
      /\ now + LeaseTime \in Nat \ {0}
  BY TimesAssumption DEF Good, Row
<1>2. /\ d.state = "leased" /\ d.attempt = r.attempt + 1
      /\ d.leaseToken = r.attempt + 1
  BY <1>1 DEF Leased, Row
<1>6. /\ d.leaseExpires = now + LeaseTime
      /\ d.ticket = r.ticket /\ d.approved = r.approved
  BY <1>1 DEF Leased, Row
<1>3. d \in Row
  <2>1. ASSUME NEW a \in Nat, NEW e \in Nat
        PROVE  [r EXCEPT !.state = "leased", !.attempt = a,
                         !.leaseToken = a, !.leaseExpires = e] \in Row
    BY <1>1 DEF Row, JobStates
  <2>2. r.attempt + 1 \in Nat
    BY <1>1
  <2> QED
    BY <1>1, <2>1, <2>2 DEF Leased
<1> HIDE DEF d
<1>4. Coherent(d, g)
  BY <1>1, <1>2, <1>6 DEF Good, Coherent, Row
<1>5. j \notin ReadOnlyJobs => Authorised(d, g)
  BY <1>1, <1>2 DEF Good, Authorised
<1> QED
  BY <1>1, <1>3, <1>4, <1>5 DEF Good, d

\* The UPDATE of an approval-required reply; the ticket is the attempt's own.
LEMMA AskedGood ==
  ASSUME NEW j, NEW r, NEW g, Good(j, r, g), r.state = "leased",
         NEW e \in Nat, e <= r.expires
  PROVE  Good(j, [Released(r) EXCEPT !.state = "approval-pending",
                                     !.ticket = r.leaseToken,
                                     !.ticketExpires = e], g)
<1> DEFINE d == [Released(r) EXCEPT !.state = "approval-pending",
                                    !.ticket = r.leaseToken, !.ticketExpires = e]
<1>1. /\ r \in Row /\ g \in SUBSET Nat /\ r.attempt \in Nat
      /\ r.leaseToken = r.attempt /\ r.attempt # 0
  BY DEF Good, Row, Coherent
<1>2. d \in Row
  BY <1>1 DEF Released, Row, JobStates
<1>3. /\ d.state = "approval-pending" /\ d.attempt = r.attempt
      /\ d.leaseToken = 0 /\ d.leaseExpires = 0
      /\ d.ticket = r.attempt /\ d.ticketExpires = e /\ d.expires = r.expires
  BY <1>1 DEF Released, Row
<1> HIDE DEF d
<1>4. Coherent(d, g)
  BY <1>1, <1>3 DEF Good, Coherent
<1>5. j \notin ReadOnlyJobs => Authorised(d, g)
  BY <1>1, <1>3 DEF Good, Authorised
<1> QED
  BY <1>1, <1>2, <1>4, <1>5 DEF Good, d

\* The UPDATE of an accepted question: the job waits, its last hand-out covered.
LEMMA AcceptedGood ==
  ASSUME NEW j, NEW r, NEW g, Good(j, r, g), r.state = "approval-pending"
  PROVE  Good(j, [r EXCEPT !.state = "queued", !.approved = TRUE], g \cup {r.ticket})
<1> DEFINE d == [r EXCEPT !.state = "queued", !.approved = TRUE]
           h == g \cup {r.ticket}
<1>1. /\ r \in Row /\ h \in SUBSET Nat /\ r.attempt \in Nat
      /\ r.ticket = r.attempt /\ r.attempt # 0
  BY DEF Good, Row, Coherent
<1>2. d \in Row
  BY <1>1 DEF Row, JobStates
<1>3. /\ d.state = "queued" /\ d.attempt = r.attempt
      /\ d.leaseToken = r.leaseToken /\ d.leaseExpires = r.leaseExpires
      /\ d.ticket = r.ticket
  BY <1>1 DEF Row
<1> HIDE DEF d
<1>4. Coherent(d, h)
  BY <1>1, <1>3 DEF Good, Coherent
<1>5. j \notin ReadOnlyJobs => Authorised(d, h)
  BY <1>1, <1>3 DEF Good, Authorised
<1> QED
  BY <1>1, <1>2, <1>4, <1>5 DEF Good, d

LEMMA DeclinedGood ==
  ASSUME NEW j, NEW r, NEW g, Good(j, r, g), r.state = "approval-pending"
  PROVE  Good(j, [r EXCEPT !.state = "failed", !.answer = "APPROVAL_DECLINED"], g)
  BY DEF Good, Row, JobStates, Answers, Coherent, Authorised

LEMMA CancelledGood ==
  ASSUME NEW j, NEW r, NEW g, Good(j, r, g)
  PROVE  Good(j, Cancelled(j, r), g)
<1> DEFINE Open == \/ r.state \in {"queued", "approval-pending"}
                   \/ r.state = "leased" /\ j \in ReadOnlyJobs
           Mutating == r.state = "leased" /\ j \notin ReadOnlyJobs
<1>1. CASE Open
  <2>1. Good(j, [Released(r) EXCEPT !.state = "cancelled"], g)
    BY <1>1 DEF Good, Row, JobStates, Coherent, Authorised, Released
  <2> QED
    BY <1>1, <2>1 DEF Cancelled
<1>2. CASE Mutating
  <2>1. Good(j, [Released(r) EXCEPT !.state = "indeterminate",
                                    !.answer = "CANCELLED_INDETERMINATE"], g)
    BY <1>2, ClosedGood DEF Ended, Answers
  <2> QED
    BY <1>2, <2>1 DEF Cancelled
<1>3. CASE ~Open /\ ~Mutating
  BY <1>3 DEF Cancelled
<1> QED
  BY <1>1, <1>2, <1>3

-----------------------------------------------------------------------------
(* The invariant *)

LEMMA InitIInv == Init => IInv
<1> SUFFICES ASSUME Init PROVE IInv
  OBVIOUS
<1>1. now \in 0..Horizon
  BY HorizonNat DEF Init
<1>2. ASSUME NEW j \in Jobs PROVE Good(j, jobs[j], granted[j])
  BY NoRowGood DEF Init
<1> QED
  BY <1>1, <1>2 DEF IInv, Init

\* An UPDATE of one row keeps the invariant if the new row is good.
LEMMA OneRow ==
  ASSUME IInv, NEW j \in Jobs, NEW r, NEW g, Good(j, r, g),
         now' = now, jobs' = [jobs EXCEPT ![j] = r],
         granted' = [granted EXCEPT ![j] = g]
  PROVE  IInv'
<1>1. ASSUME NEW k \in Jobs PROVE Good(k, jobs'[k], granted'[k])
  BY <1>1 DEF IInv
<1>2. /\ jobs' = [k \in Jobs |-> jobs'[k]]
      /\ granted' = [k \in Jobs |-> granted'[k]]
  BY DEF IInv
<1> QED
  BY <1>1, <1>2 DEF IInv

\* The same when no ticket is accepted.
LEMMA OneRowOnly ==
  ASSUME IInv, NEW j \in Jobs, NEW r, Good(j, r, granted[j]),
         now' = now, jobs' = [jobs EXCEPT ![j] = r], granted' = granted
  PROVE  IInv'
<1>1. granted' = [granted EXCEPT ![j] = granted[j]]
  BY DEF IInv
<1> QED
  BY <1>1, OneRow

LEMMA SweptRowsGood ==
  ASSUME IInv
  PROVE  \A j \in Jobs : Good(j, SweptJobs[j], granted[j])
  BY SweptGood DEF IInv, SweptJobs

LEMMA SweepIInv ==
  ASSUME IInv, Sweep
  PROVE  IInv'
<1>1. ASSUME NEW k \in Jobs PROVE Good(k, jobs'[k], granted'[k])
  BY SweptRowsGood DEF Sweep
<1>2. jobs' = [k \in Jobs |-> jobs'[k]]
  BY DEF Sweep, SweptJobs
<1> QED
  BY <1>1, <1>2 DEF IInv, Sweep

LEMMA LeaseIInv ==
  ASSUME IInv, NEW j \in Jobs, Lease(j)
  PROVE  IInv'
<1> DEFINE rows == SweptJobs
<1>1. /\ rows[j].state = "queued"
      /\ jobs' = [rows EXCEPT ![j] = Leased(rows[j])]
      /\ now' = now /\ granted' = granted
  BY DEF Lease, Leasable
<1>2. rows = [k \in Jobs |-> rows[k]] /\ now \in Nat
  BY HorizonNat DEF SweptJobs, IInv
<1>3. \A k \in Jobs : Good(k, rows[k], granted[k])
  BY SweptRowsGood
<1> HIDE DEF rows
<1>4. Good(j, Leased(rows[j]), granted[j])
  BY <1>1, <1>2, <1>3, LeasedGood
<1>5. ASSUME NEW k \in Jobs PROVE Good(k, jobs'[k], granted'[k])
  BY <1>1, <1>2, <1>3, <1>4
<1>6. jobs' = [k \in Jobs |-> jobs'[k]]
  BY <1>1, <1>2
<1> QED
  BY <1>1, <1>5, <1>6 DEF IInv

LEMMA CreateJobIInv ==
  ASSUME IInv, NEW j \in Jobs, CreateJob(j)
  PROVE  IInv'
<1>1. granted[j] = {}
  <2>1. Good(j, jobs[j], granted[j]) /\ jobs[j] = NoRow
    BY DEF IInv, CreateJob, Good, Coherent
  <2>2. NoRow.attempt = 0
    BY DEF NoRow
  <2>3. \A t \in granted[j] : t \in Nat /\ 1 <= t /\ t <= jobs[j].attempt
    BY <2>1 DEF Good, Coherent
  <2> QED
    BY <2>1, <2>2, <2>3
<1>2. now + JobTimeout \in Nat
  BY HorizonNat, TimesAssumption DEF IInv
<1>3. Good(j, [NoRow EXCEPT !.state = "queued", !.expires = now + JobTimeout], granted[j])
  BY <1>1, <1>2, CreatedGood
<1> QED
  BY <1>3, OneRowOnly DEF CreateJob

LEMMA SubmitOutcomeIInv ==
  ASSUME IInv, NEW j \in Jobs, NEW token, NEW hash,
         NEW kind \in {"completed", "failed"}, NEW body \in Bodies,
         SubmitOutcome(j, token, hash, kind, body)
  PROVE  IInv'
<1>1. Good(j, jobs[j], granted[j]) /\ jobs[j].state # "absent"
  BY DEF IInv, SubmitOutcome, HoldsLease
<1>2. Good(j, [Released(jobs[j]) EXCEPT !.state = kind, !.answer = body], granted[j])
  BY <1>1, ClosedGood DEF Ended, Answers
<1> QED
  BY <1>2, OneRowOnly DEF SubmitOutcome

LEMMA SubmitApprovalIInv ==
  ASSUME IInv, NEW j \in Jobs, NEW token, NEW hash, NEW e \in 1..Horizon,
         SubmitApproval(j, token, hash, e)
  PROVE  IInv'
<1>1. /\ Good(j, jobs[j], granted[j]) /\ jobs[j].state = "leased"
      /\ token = jobs[j].leaseToken
      /\ e \in Nat /\ e <= jobs[j].expires
  BY HorizonNat DEF IInv, SubmitApproval, HoldsLease
<1>2. Good(j, [Released(jobs[j]) EXCEPT !.state = "approval-pending",
                                        !.ticket = token, !.ticketExpires = e],
           granted[j])
  BY <1>1, AskedGood
<1> QED
  BY <1>2, OneRowOnly DEF SubmitApproval

LEMMA AcceptApprovalIInv ==
  ASSUME IInv, NEW j \in Jobs, NEW ticket, NEW hash, AcceptApproval(j, ticket, hash)
  PROVE  IInv'
<1>1. /\ Good(j, jobs[j], granted[j]) /\ jobs[j].state = "approval-pending"
      /\ ticket = jobs[j].ticket
  BY DEF IInv, AcceptApproval, TicketOpen
<1>2. Good(j, [jobs[j] EXCEPT !.state = "queued", !.approved = TRUE],
           granted[j] \cup {ticket})
  BY <1>1, AcceptedGood
<1> QED
  BY <1>2, OneRow DEF AcceptApproval

LEMMA DeclineApprovalIInv ==
  ASSUME IInv, NEW j \in Jobs, NEW ticket, NEW hash, DeclineApproval(j, ticket, hash)
  PROVE  IInv'
<1>1. Good(j, jobs[j], granted[j]) /\ jobs[j].state = "approval-pending"
  BY DEF IInv, DeclineApproval, TicketOpen
<1>2. Good(j, [jobs[j] EXCEPT !.state = "failed", !.answer = "APPROVAL_DECLINED"],
           granted[j])
  BY <1>1, DeclinedGood
<1> QED
  BY <1>2, OneRowOnly DEF DeclineApproval

LEMMA CancelIInv ==
  ASSUME IInv, NEW j \in Jobs, Cancel(j)
  PROVE  IInv'
<1>1. Good(j, Cancelled(j, jobs[j]), granted[j])
  BY CancelledGood DEF IInv
<1> QED
  BY <1>1, OneRowOnly DEF Cancel

\* Every step of the table keeps the invariant.
LEMMA NextIInv ==
  ASSUME IInv, [Next]_storeVars
  PROVE  IInv'
<1>1. CASE Tick
  BY <1>1, HorizonNat DEF Tick, IInv
<1>2. CASE Sweep
  BY <1>2, SweepIInv
<1>3. CASE \E j \in Jobs : CreateJob(j) \/ Lease(j) \/ Cancel(j)
  BY <1>3, CreateJobIInv, LeaseIInv, CancelIInv
<1>4. CASE \E j \in Jobs, token \in Nat, hash \in Hashes,
              kind \in {"completed", "failed"}, body \in Bodies :
             SubmitOutcome(j, token, hash, kind, body)
  BY <1>4, SubmitOutcomeIInv
<1>5. CASE \E j \in Jobs, token \in Nat, hash \in Hashes, e \in 1..Horizon :
             SubmitApproval(j, token, hash, e)
  BY <1>5, SubmitApprovalIInv
<1>6. CASE \E j \in Jobs, token \in Nat, hash \in Hashes :
             AcceptApproval(j, token, hash) \/ DeclineApproval(j, token, hash)
  BY <1>6, AcceptApprovalIInv, DeclineApprovalIInv
<1>7. CASE UNCHANGED storeVars
  BY <1>7 DEF storeVars, IInv
<1>8. \A j \in Jobs : 1..jobs[j].attempt \subseteq Nat
  BY DEF IInv, Good, Row
<1> QED
  BY <1>1, <1>2, <1>3, <1>4, <1>5, <1>6, <1>7, <1>8 DEF Next

\* The inductive invariant holds in every reachable state.
THEOREM SpecIInv == Spec => []IInv
<1>1. Init => IInv
  BY InitIInv
<1>2. IInv /\ [Next]_storeVars => IInv'
  BY NextIInv
<1> QED
  BY <1>1, <1>2, PTL DEF Spec

\* The jobs table stays well typed (store.ts:43-49), for any constants.
THEOREM TypeCorrect == Spec => []TypeOK
<1>1. IInv => TypeOK
  BY DEF IInv, Good, TypeOK
<1> QED
  BY <1>1, SpecIInv, PTL

\* The columns of a row agree after any sequence of UPDATEs.
THEOREM Coherence == Spec => []RowsCoherent
<1>1. IInv => RowsCoherent
  BY DEF IInv, Good, RowsCoherent
<1> QED
  BY <1>1, SpecIInv, PTL

\* No interleaving of sweeps, leases, cancels, replies and resumes hands a
\* mutation out again without the user's word on the hand-out before.
THEOREM NoUnauthorisedRerun == Spec => []RerunAuthorised
<1>1. IInv => RerunAuthorised
  BY DEF IInv, Good, RerunAuthorised
<1> QED
  BY <1>1, SpecIInv, PTL

\* The approval that a lease carries is one the user gave for that job.
THEOREM SentApprovalIsGranted == Spec => []ApprovalSentGranted
<1>1. IInv => ApprovalSentGranted
  <2> SUFFICES ASSUME IInv, NEW j \in Jobs, jobs[j].state = "leased",
                      ApprovalSent(jobs[j]) # 0
               PROVE  /\ ApprovalSent(jobs[j]) \in granted[j]
                      /\ ApprovalSent(jobs[j]) < jobs[j].attempt
    BY DEF ApprovalSentGranted
  <2>1. jobs[j].approved /\ ApprovalSent(jobs[j]) = jobs[j].ticket
    BY DEF ApprovalSent
  <2> QED
    BY <2>1 DEF IInv, Good, Coherent
<1> QED
  BY <1>1, SpecIInv, PTL

-----------------------------------------------------------------------------
(* A stored answer stays *)

\* The statements of sweep and cancel match no row that has ended.
LEMMA SweptKeepsEnded ==
  ASSUME NEW j, NEW r, r.state \in Ended
  PROVE  Swept(j, r) = r
<1>1. ~Lapsed(r) /\ ~LeaseLost(r)
  BY DEF Ended, Lapsed, LeaseLost
<1> QED
  BY <1>1 DEF Swept

LEMMA CancelKeepsEnded ==
  ASSUME NEW j, NEW r, r.state \in Ended
  PROVE  Cancelled(j, r) = r
  BY DEF Ended, Cancelled

LEMMA NextKeepsEnded ==
  ASSUME IInv, [Next]_storeVars, NEW k \in Jobs, jobs[k].state \in Ended
  PROVE  jobs'[k] = jobs[k]
<1> USE DEF IInv
<1>1. CASE Tick \/ UNCHANGED storeVars
  BY <1>1 DEF Tick, storeVars
<1>2. CASE Sweep
  BY <1>2, SweptKeepsEnded DEF Sweep, SweptJobs
<1>3. CASE \E j \in Jobs : Lease(j)
  <2>1. PICK j \in Jobs : Lease(j)
    BY <1>3
  <2>2. SweptJobs[k] = jobs[k]
    BY SweptKeepsEnded DEF SweptJobs
  <2>3. SweptJobs[j].state = "queued"
    BY <2>1 DEF Lease, Leasable
  <2>4. j # k
    BY <2>2, <2>3 DEF Ended
  <2> QED
    BY <2>1, <2>2, <2>4 DEF Lease, SweptJobs
<1>4. CASE \E j \in Jobs : CreateJob(j)
  BY <1>4 DEF CreateJob, Ended
<1>5. CASE \E j \in Jobs : Cancel(j)
  BY <1>5, CancelKeepsEnded DEF Cancel
<1>6. CASE \E j \in Jobs : \E token, hash, kind, body :
             SubmitOutcome(j, token, hash, kind, body)
  BY <1>6 DEF SubmitOutcome, HoldsLease, Ended
<1>7. CASE \E j \in Jobs : \E token, hash, e : SubmitApproval(j, token, hash, e)
  BY <1>7 DEF SubmitApproval, HoldsLease, Ended
<1>8. CASE \E j \in Jobs : \E token, hash :
             AcceptApproval(j, token, hash) \/ DeclineApproval(j, token, hash)
  BY <1>8 DEF AcceptApproval, DeclineApproval, TicketOpen, Ended
<1> QED
  BY <1>1, <1>2, <1>3, <1>4, <1>5, <1>6, <1>7, <1>8 DEF Next

\* The first answer to a job is its last: no reply, sweep or cancel after it
\* changes the row (submitReply, store.ts:174-180).
THEOREM FirstAnswerStays == Spec => AnswerKept
<1>1. IInv /\ [Next]_storeVars =>
        [\A j \in Jobs : jobs[j].state \in Ended => jobs'[j] = jobs[j]]_storeVars
  BY NextKeepsEnded
<1> QED
  BY <1>1, SpecIInv, PTL DEF Spec, AnswerKept

-----------------------------------------------------------------------------
(* The table implements JobContract *)

\* Row d follows row r by one step of the contract or by none.
Follows(j, r, g, d, h) ==
  \/ JobView(d, h) = JobView(r, g)
  \/ Promise!JobStep(j, JobView(r, g), JobView(d, h))

LEMMA CreatedFollows ==
  ASSUME NEW j, NEW t, NEW g
  PROVE  Follows(j, NoRow, g, [NoRow EXCEPT !.state = "queued", !.expires = t], g)
  BY DEF Follows, JobView, NoRow, Phase, Promise!JobStep, Promise!Submit, Promise!Goes

LEMMA SweptFollows ==
  ASSUME NEW j, NEW r, NEW g, Good(j, r, g)
  PROVE  Follows(j, r, g, Swept(j, r), g)
<1> DEFINE d == Swept(j, r)
<1>1. CASE Lapsed(r)
  <2>1. r.state \in {"queued", "approval-pending"} /\ ~LeaseLost(r)
    BY <1>1 DEF Lapsed, LeaseLost
  <2>2. d.state = "expired" /\ d.attempt = r.attempt
    BY <1>1, <2>1 DEF Swept, Good, Row
  <2> HIDE DEF d
  <2>3. Promise!Drop(j, JobView(r, g), JobView(d, g))
    BY <2>1, <2>2 DEF JobView, Phase, Promise!Drop, Promise!Goes
  <2> QED
    BY <2>3 DEF Follows, Promise!JobStep, d
<1>2. CASE ~Lapsed(r) /\ LeaseLost(r) /\ j \in ReadOnlyJobs /\ r.expires > now
  <2>1. d.state = "queued" /\ d.attempt = r.attempt /\ r.state = "leased"
    BY <1>2 DEF Swept, Good, Row, Released, LeaseLost
  <2> HIDE DEF d
  <2>2. Promise!Return(j, JobView(r, g), JobView(d, g))
    BY <1>2, <2>1 DEF JobView, Phase, Promise!Return, Promise!Goes
  <2> QED
    BY <2>2 DEF Follows, Promise!JobStep, d
<1>3. CASE ~Lapsed(r) /\ LeaseLost(r) /\ j \notin ReadOnlyJobs
  <2>1. d.state = "indeterminate" /\ d.attempt = r.attempt /\ r.state = "leased"
    BY <1>3 DEF Swept, Good, Row, Released, LeaseLost
  <2> HIDE DEF d
  <2>2. Promise!Lose(j, JobView(r, g), JobView(d, g))
    BY <1>3, <2>1 DEF JobView, Phase, Promise!Lose, Promise!Goes
  <2> QED
    BY <2>2 DEF Follows, Promise!JobStep, d
<1>4. CASE /\ ~Lapsed(r)
           /\ ~(LeaseLost(r) /\ j \in ReadOnlyJobs /\ r.expires > now)
           /\ ~(LeaseLost(r) /\ j \notin ReadOnlyJobs)
  BY <1>4 DEF Swept, Follows
<1> QED
  BY <1>1, <1>2, <1>3, <1>4

\* lease sweeps first: the row it hands out was queued, or a read-only one
\* whose lease the same call took back.
LEMMA LeasedFollows ==
  ASSUME NEW j, NEW r, NEW g, Good(j, r, g), Swept(j, r).state = "queued"
  PROVE  Follows(j, r, g, Leased(Swept(j, r)), g)
<1> DEFINE s == Swept(j, r)
           d == Leased(s)
<1>1. /\ s.attempt = r.attempt /\ s \in Row
      /\ r.state = "queued" \/ (r.state = "leased" /\ j \in ReadOnlyJobs)
  <2>1. CASE Lapsed(r)
    <3>1. ~LeaseLost(r) /\ s = [r EXCEPT !.state = "expired"]
      BY <2>1 DEF Lapsed, LeaseLost, Swept
    <3> QED
      BY <3>1 DEF Good, Row
  <2>2. CASE ~Lapsed(r) /\ LeaseLost(r) /\ j \in ReadOnlyJobs /\ r.expires > now
    BY <2>2, SweptGood DEF Swept, Good, Row, Released, LeaseLost
  <2>3. CASE ~Lapsed(r) /\ LeaseLost(r) /\ j \notin ReadOnlyJobs
    BY <2>3 DEF Swept, Good, Row, Released
  <2>4. CASE /\ ~Lapsed(r)
             /\ ~(LeaseLost(r) /\ j \in ReadOnlyJobs /\ r.expires > now)
             /\ ~(LeaseLost(r) /\ j \notin ReadOnlyJobs)
    BY <2>4 DEF Swept, Good
  <2> QED
    BY <2>1, <2>2, <2>3, <2>4
<1> HIDE DEF s
<1>2. d.state = "leased" /\ d.attempt = r.attempt + 1
  BY <1>1 DEF Leased, Row
<1> HIDE DEF d
<1>3. Promise!Start(j, JobView(r, g), JobView(d, g))
  BY <1>1, <1>2 DEF JobView, Phase, Promise!Start
<1> QED
  BY <1>3 DEF Follows, Promise!JobStep, d, s

\* A leased row that is answered or asks keeps its attempt.
LEMMA RepliedFollows ==
  ASSUME NEW j, NEW r, NEW g, NEW d, r.state = "leased", d.attempt = r.attempt,
         d.state \in {"completed", "failed", "approval-pending"}
  PROVE  Follows(j, r, g, d, g)
<1>1. CASE d.state = "approval-pending"
  <2>1. Promise!Ask(JobView(r, g), JobView(d, g))
    BY <1>1 DEF JobView, Phase, Promise!Ask, Promise!Goes
  <2> QED
    BY <2>1 DEF Follows, Promise!JobStep
<1>2. CASE d.state \in {"completed", "failed"}
  <2>1. Promise!Answer(JobView(r, g), JobView(d, g))
    BY <1>2 DEF JobView, Phase, Promise!Answer, Promise!Goes
  <2> QED
    BY <2>1 DEF Follows, Promise!JobStep
<1> QED
  BY <1>1, <1>2

LEMMA AcceptedFollows ==
  ASSUME NEW j, NEW r, NEW g, Good(j, r, g), r.state = "approval-pending"
  PROVE  Follows(j, r, g, [r EXCEPT !.state = "queued", !.approved = TRUE],
                 g \cup {r.ticket})
<1> DEFINE d == [r EXCEPT !.state = "queued", !.approved = TRUE]
<1>1. d.state = "queued" /\ d.attempt = r.attempt
  BY DEF Good, Row
<1>2. r.ticket = r.attempt /\ r.attempt \notin g
  BY DEF Good, Coherent
<1> HIDE DEF d
<1>3. Promise!Grant(JobView(r, g), JobView(d, g \cup {r.ticket}))
  BY <1>1, <1>2 DEF JobView, Phase, Promise!Grant
<1> QED
  BY <1>3 DEF Follows, Promise!JobStep, d

LEMMA DeclinedFollows ==
  ASSUME NEW j, NEW r, NEW g, Good(j, r, g), r.state = "approval-pending"
  PROVE  Follows(j, r, g, [r EXCEPT !.state = "failed", !.answer = "APPROVAL_DECLINED"], g)
<1> DEFINE d == [r EXCEPT !.state = "failed", !.answer = "APPROVAL_DECLINED"]
<1>1. d.state = "failed" /\ d.attempt = r.attempt
  BY DEF Good, Row
<1> HIDE DEF d
<1>2. Promise!Refuse(JobView(r, g), JobView(d, g))
  BY <1>1 DEF JobView, Phase, Promise!Refuse, Promise!Goes
<1> QED
  BY <1>2 DEF Follows, Promise!JobStep, d

LEMMA CancelledFollows ==
  ASSUME NEW j, NEW r, NEW g, Good(j, r, g)
  PROVE  Follows(j, r, g, Cancelled(j, r), g)
<1> DEFINE d == Cancelled(j, r)
<1>1. CASE \/ r.state \in {"queued", "approval-pending"}
           \/ r.state = "leased" /\ j \in ReadOnlyJobs
  <2>1. d.state = "cancelled" /\ d.attempt = r.attempt
    BY <1>1 DEF Cancelled, Good, Row, Released
  <2> HIDE DEF d
  <2>2. Promise!Drop(j, JobView(r, g), JobView(d, g))
    BY <1>1, <2>1 DEF JobView, Phase, Promise!Drop, Promise!Goes
  <2> QED
    BY <2>2 DEF Follows, Promise!JobStep, d
<1>2. CASE r.state = "leased" /\ j \notin ReadOnlyJobs
  <2>1. d.state = "indeterminate" /\ d.attempt = r.attempt
    BY <1>2 DEF Cancelled, Good, Row, Released
  <2> HIDE DEF d
  <2>2. Promise!Lose(j, JobView(r, g), JobView(d, g))
    BY <1>2, <2>1 DEF JobView, Phase, Promise!Lose, Promise!Goes
  <2> QED
    BY <2>2 DEF Follows, Promise!JobStep, d
<1>3. CASE r.state \notin {"queued", "approval-pending", "leased"}
  BY <1>3 DEF Cancelled, Follows
<1> QED
  BY <1>1, <1>2, <1>3

LEMMA SameFollows ==
  ASSUME NEW j, NEW r, NEW g
  PROVE  Follows(j, r, g, r, g)
  BY DEF Follows

\* In every step, each job moves by one step of the contract or not at all.
LEMMA NextFollows ==
  ASSUME IInv, [Next]_storeVars, NEW k \in Jobs
  PROVE  Follows(k, jobs[k], granted[k], jobs'[k], granted'[k])
<1> USE DEF IInv
<1>0. Good(k, jobs[k], granted[k])
  OBVIOUS
<1>1. CASE Tick \/ UNCHANGED storeVars
  BY <1>1, SameFollows DEF Tick, storeVars
<1>2. CASE Sweep
  BY <1>0, <1>2, SweptFollows DEF Sweep, SweptJobs
<1>3. CASE \E j \in Jobs : Lease(j)
  <2>1. PICK j \in Jobs : Lease(j)
    BY <1>3
  <2>2. CASE j = k
    <3>1. /\ Swept(k, jobs[k]).state = "queued"
          /\ jobs'[k] = Leased(Swept(k, jobs[k])) /\ granted' = granted
      BY <2>1, <2>2 DEF Lease, Leasable, SweptJobs
    <3> QED
      BY <1>0, <3>1, LeasedFollows
  <2>3. CASE j # k
    <3>1. jobs'[k] = Swept(k, jobs[k]) /\ granted' = granted
      BY <2>1, <2>3 DEF Lease, SweptJobs
    <3> QED
      BY <1>0, <3>1, SweptFollows
  <2> QED
    BY <2>2, <2>3
<1>4. CASE \E j \in Jobs : CreateJob(j)
  <2>1. PICK j \in Jobs : CreateJob(j)
    BY <1>4
  <2>2. CASE j = k
    <3>1. /\ jobs[k] = NoRow /\ granted' = granted
          /\ jobs'[k] = [NoRow EXCEPT !.state = "queued", !.expires = now + JobTimeout]
      BY <2>1, <2>2 DEF CreateJob, Good, Coherent
    <3>2. Follows(k, NoRow, granted[k],
                  [NoRow EXCEPT !.state = "queued", !.expires = now + JobTimeout],
                  granted[k])
      BY CreatedFollows
    <3> QED
      BY <3>1, <3>2
  <2>3. CASE j # k
    BY <2>1, <2>3, SameFollows DEF CreateJob
  <2> QED
    BY <2>2, <2>3
<1>5. CASE \E j \in Jobs : Cancel(j)
  <2>1. PICK j \in Jobs : Cancel(j)
    BY <1>5
  <2>2. jobs'[k] \in {jobs[k], Cancelled(k, jobs[k])} /\ granted' = granted
    BY <2>1 DEF Cancel
  <2> QED
    BY <1>0, <2>2, CancelledFollows, SameFollows
<1>6. CASE \E j \in Jobs : \E token, hash, body : \E kind \in {"completed", "failed"} :
             SubmitOutcome(j, token, hash, kind, body)
  <2>0. PICK j \in Jobs : \E token, hash, body : \E kind \in {"completed", "failed"} :
          SubmitOutcome(j, token, hash, kind, body)
    BY <1>6
  <2>1. PICK token, hash, body, kind :
          kind \in {"completed", "failed"} /\ SubmitOutcome(j, token, hash, kind, body)
    BY <2>0
  <2>2. CASE j = k
    <3>1. /\ jobs[k].state = "leased" /\ granted' = granted
          /\ jobs'[k] = [Released(jobs[k]) EXCEPT !.state = kind, !.answer = body]
      BY <1>0, <2>1, <2>2 DEF SubmitOutcome, HoldsLease, Good
    <3>2. jobs'[k].state = kind /\ jobs'[k].attempt = jobs[k].attempt
      BY <1>0, <3>1 DEF Released, Good, Row
    <3>3. kind \in {"completed", "failed"}
      BY <2>1
    <3> QED
      BY <3>1, <3>2, <3>3, RepliedFollows
  <2>3. CASE j # k
    BY <2>1, <2>3, SameFollows DEF SubmitOutcome
  <2> QED
    BY <2>2, <2>3
<1>7. CASE \E j \in Jobs : \E token, hash, e : SubmitApproval(j, token, hash, e)
  <2>0. PICK j \in Jobs : \E token, hash, e : SubmitApproval(j, token, hash, e)
    BY <1>7
  <2>1. PICK token, hash, e : SubmitApproval(j, token, hash, e)
    BY <2>0
  <2>2. CASE j = k
    <3>1. /\ jobs[k].state = "leased" /\ granted' = granted
          /\ jobs'[k].state = "approval-pending"
          /\ jobs'[k].attempt = jobs[k].attempt
      BY <1>0, <2>1, <2>2 DEF SubmitApproval, HoldsLease, Released, Good, Row
    <3> QED
      BY <3>1, RepliedFollows
  <2>3. CASE j # k
    BY <2>1, <2>3, SameFollows DEF SubmitApproval
  <2> QED
    BY <2>2, <2>3
<1>8. CASE \E j \in Jobs : \E token, hash : AcceptApproval(j, token, hash)
  <2>0. PICK j \in Jobs : \E token, hash : AcceptApproval(j, token, hash)
    BY <1>8
  <2>1. PICK token, hash : AcceptApproval(j, token, hash)
    BY <2>0
  <2>2. CASE j = k
    <3>1. /\ jobs[k].state = "approval-pending"
          /\ jobs'[k] = [jobs[k] EXCEPT !.state = "queued", !.approved = TRUE]
          /\ granted'[k] = granted[k] \cup {jobs[k].ticket}
      BY <2>1, <2>2 DEF AcceptApproval, TicketOpen
    <3>2. Follows(k, jobs[k], granted[k],
                  [jobs[k] EXCEPT !.state = "queued", !.approved = TRUE],
                  granted[k] \cup {jobs[k].ticket})
      BY <1>0, <3>1, AcceptedFollows
    <3> QED
      BY <3>1, <3>2
  <2>3. CASE j # k
    BY <2>1, <2>3, SameFollows DEF AcceptApproval
  <2> QED
    BY <2>2, <2>3
<1>9. CASE \E j \in Jobs : \E token, hash : DeclineApproval(j, token, hash)
  <2>0. PICK j \in Jobs : \E token, hash : DeclineApproval(j, token, hash)
    BY <1>9
  <2>1. PICK token, hash : DeclineApproval(j, token, hash)
    BY <2>0
  <2>2. CASE j = k
    <3>1. /\ jobs[k].state = "approval-pending" /\ granted' = granted
          /\ jobs'[k] = [jobs[k] EXCEPT !.state = "failed", !.answer = "APPROVAL_DECLINED"]
      BY <2>1, <2>2 DEF DeclineApproval, TicketOpen
    <3>2. Follows(k, jobs[k], granted[k],
                  [jobs[k] EXCEPT !.state = "failed", !.answer = "APPROVAL_DECLINED"],
                  granted[k])
      BY <1>0, <3>1, DeclinedFollows
    <3> QED
      BY <3>1, <3>2
  <2>3. CASE j # k
    BY <2>1, <2>3, SameFollows DEF DeclineApproval
  <2> QED
    BY <2>2, <2>3
<1>10. \/ Tick \/ UNCHANGED storeVars
       \/ Sweep
       \/ \E j \in Jobs :
            \/ CreateJob(j) \/ Lease(j) \/ Cancel(j)
            \/ \E token, hash :
                 \/ \E body : \E kind \in {"completed", "failed"} :
                      SubmitOutcome(j, token, hash, kind, body)
                 \/ \E e : SubmitApproval(j, token, hash, e)
                 \/ AcceptApproval(j, token, hash)
                 \/ DeclineApproval(j, token, hash)
  <2> HIDE DEF IInv
  <2>1. CASE Next
    BY <2>1 DEF Next
  <2> QED
    BY <2>1
<1> HIDE DEF IInv
<1>11. ASSUME NEW j \in Jobs, CreateJob(j) \/ Lease(j) \/ Cancel(j)
       PROVE  Follows(k, jobs[k], granted[k], jobs'[k], granted'[k])
  BY <1>3, <1>4, <1>5, <1>11
<1>12. ASSUME NEW j \in Jobs, NEW token, NEW hash,
              \/ \E body : \E kind \in {"completed", "failed"} :
                   SubmitOutcome(j, token, hash, kind, body)
              \/ \E e : SubmitApproval(j, token, hash, e)
              \/ AcceptApproval(j, token, hash)
              \/ DeclineApproval(j, token, hash)
       PROVE  Follows(k, jobs[k], granted[k], jobs'[k], granted'[k])
  <2>1. CASE \E body : \E kind \in {"completed", "failed"} :
               SubmitOutcome(j, token, hash, kind, body)
    BY <1>6, <2>1
  <2>2. CASE \E e : SubmitApproval(j, token, hash, e)
    BY <1>7, <2>2
  <2>3. CASE AcceptApproval(j, token, hash)
    BY <1>8, <2>3
  <2>4. CASE DeclineApproval(j, token, hash)
    BY <1>9, <2>4
  <2> QED
    BY <1>12, <2>1, <2>2, <2>3, <2>4
<1> QED
  BY <1>1, <1>2, <1>10, <1>11, <1>12

\* The jobs table keeps the contract: one verdict per job, no definite verdict
\* on a running mutation that was given up, no rerun of a mutation and no use
\* of a ticket without the user's word for it.
THEOREM TableImplementsContract == Spec => Contract
<1>1. Init => Promise!Init
  <2> SUFFICES ASSUME Init PROVE JobViews = [j \in Jobs |-> Promise!Absent]
    BY DEF Promise!Init
  <2>1. JobView(NoRow, {}) = Promise!Absent
    BY DEF JobView, NoRow, Phase, Promise!Absent
  <2>2. ASSUME NEW j \in Jobs
        PROVE  JobView(jobs[j], granted[j]) = Promise!Absent
    BY <2>1 DEF Init
  <2> QED
    BY <2>2 DEF JobViews
<1>2. IInv /\ [Next]_storeVars => [Promise!Next]_JobViews
  <2> SUFFICES ASSUME IInv, [Next]_storeVars
               PROVE  Promise!Next
    OBVIOUS
  <2>1. JobViews' = [j \in Jobs |-> JobViews'[j]]
    BY DEF JobViews
  <2>2. ASSUME NEW j \in Jobs
        PROVE  \/ JobViews'[j] = JobViews[j]
               \/ Promise!JobStep(j, JobViews[j], JobViews'[j])
    <3>1. Follows(j, jobs[j], granted[j], jobs'[j], granted'[j])
      BY NextFollows
    <3>2. /\ JobViews[j] = JobView(jobs[j], granted[j])
          /\ JobViews'[j] = JobView(jobs'[j], granted'[j])
      BY DEF JobViews
    <3> QED
      BY <3>1, <3>2 DEF Follows
  <2> QED
    BY <2>1, <2>2 DEF Promise!Next
<1> QED
  BY <1>1, <1>2, SpecIInv, PTL DEF Spec, Contract, Promise!Spec
=============================================================================
