----------------------------- MODULE ToolBridge -----------------------------
(***************************************************************************)
(* The worker's executor (bridge.ts) and the authorisation of each action  *)
(* (runtime.ts).  One tool call at a time is awaited, but the handler of a *)
(* call that was aborted or took too long runs on, and approvalHandler and *)
(* correlationId are fields of the one Runtime: whoever asks next finds    *)
(* what the current execution left there.                                  *)
(*                                                                         *)
(* A tool is a sequence of authorised actions; all but the last only check *)
(* a permission.  `decision` is what the policy answers.  A desktop tool   *)
(* first awaits the native helper for its window.                          *)
(***************************************************************************)
EXTENDS Naturals, Sequences

CONSTANTS
  Jobs,         \* jobs leased to this worker
  Summaries,    \* what a user can be asked
  Actions,      \* the authorised actions of each job's tool, in order
  WindowJobs,   \* jobs of the tools built on withWindowPolicy
  MaxEffects    \* bound: effects counted per job

ASSUME ActionsAssumption ==
  /\ "" \notin Jobs /\ "" \notin Summaries
  /\ WindowJobs \subseteq Jobs
  /\ Actions \in [Jobs -> Seq([summary : Summaries,
                               decision : {"allow", "prompt", "deny"}])]
  /\ \A j \in Jobs : Actions[j] # <<>>
ASSUME BoundAssumption == MaxEffects \in Nat

VARIABLES
  jobs,       \* each job as its relay row shows it to the worker
  active,     \* the job whose callTool is awaited, "" if none
  requested,  \* requestedSummary of the active execution, "" if none
  tools,      \* the tool handler of each job: where it is, and at which action
  audit,      \* audit_events: whose action, under which correlation_id, the outcome
  effects,    \* history: how often each job's tool took effect
  accepted    \* history: the questions about each job that the user accepted

vars == <<jobs, active, requested, tools, audit, effects, accepted>>

Stopped == [at |-> "none", action |-> 0]

Init ==
  /\ jobs = [j \in Jobs |-> [state |-> "queued", approved |-> "", question |-> ""]]
  /\ active = ""
  /\ requested = ""
  /\ tools = [j \in Jobs |-> Stopped]
  /\ audit = {}
  /\ effects = [j \in Jobs |-> 0]
  /\ accepted = [j \in Jobs |-> {}]

JobsDone == {"completed", "failed", "aborted"}
Outcomes == {"completed", "denied", "approval_required", "failed"}

BridgeTypeOK ==
  /\ jobs \in [Jobs -> [state : {"queued", "running", "asked"} \cup JobsDone,
                        approved : Summaries \cup {""},
                        question : Summaries \cup {""}]]
  /\ active \in Jobs \cup {""}
  /\ requested \in Summaries \cup {""}
  /\ \A j \in Jobs :
       /\ tools[j].at \in {"none", "window", "authorize", "operate"}
       /\ tools[j].action \in 0..Len(Actions[j])
  /\ audit \subseteq [of : Jobs, under : Jobs \cup {""}, summary : Summaries,
                      outcome : Outcomes]
  /\ effects \in [Jobs -> 0..MaxEffects]
  /\ accepted \in [Jobs -> SUBSET Summaries]

\* A handler about to be authorised runs on within the same turn of the event
\* loop: nothing else happens before it waits or ends.
Settled == \A j \in Jobs : tools[j].at # "authorize"

Act(j) == Actions[j][tools[j].action]
IsLast(j) == tools[j].action = Len(Actions[j])

\* The approval handler of the active execution knows this very summary.
ApprovedNow(j) == active # "" /\ jobs[active].approved = Act(j).summary

\* The end of an action is recorded with the id that correlationId holds now:
\* that of the active execution, which need not be the handler's own.
Record(j, outcome) ==
  audit' = audit \cup {[of |-> j, under |-> active, summary |-> Act(j).summary,
                        outcome |-> outcome]}

-----------------------------------------------------------------------------
(* execute *)

\* Slip: every tool waits for the helper before it asks for permission.
FirstStopWaits(j) == [at |-> "window", action |-> 1]

FirstStop(j) == [at |-> IF j \in WindowJobs THEN "window" ELSE "authorize", action |-> 1]

Execute(j) ==
  /\ Settled
  /\ active = ""
  /\ jobs[j].state = "queued"
  /\ active' = j
  /\ requested' = ""
  /\ jobs' = [jobs EXCEPT ![j].state = "running"]
  /\ tools' = [tools EXCEPT ![j] = FirstStop(j)]
  /\ UNCHANGED <<audit, effects, accepted>>

\* What execute returns or throws once its call has ended.
Result(outcome, asked) == IF asked # "" THEN "asked" ELSE outcome

\* The handler ends; if its call is still awaited, the execution ends as well.
EndTool(j, outcome, asked) ==
  /\ tools' = [tools EXCEPT ![j] = Stopped]
  /\ IF active = j
     THEN /\ jobs' = [jobs EXCEPT ![j] = [@ EXCEPT !.state = Result(outcome, asked),
                                                   !.question = asked]]
          /\ active' = ""
          /\ requested' = ""
     ELSE /\ requested' = asked
          /\ UNCHANGED <<jobs, active>>

\* callTool rejects and nothing is made of a question; the handler stays.
GiveUp(outcome) ==
  /\ Settled
  /\ active # ""
  /\ jobs' = [jobs EXCEPT ![active].state = outcome]
  /\ active' = ""
  /\ requested' = ""
  /\ UNCHANGED <<tools, audit, effects, accepted>>

\* The signal of the job aborts.
Abort == GiveUp("aborted")

\* The MCP client's own limit of a request, 60 s, is reported as a failure.  The
\* helper is given no longer to find a window, so that wait ends along with it.
TimeOut == GiveUp("failed") /\ tools[active].at = "operate"

-----------------------------------------------------------------------------
(* authorized *)

\* windowInfo has answered.
WindowFound(j) ==
  /\ Settled
  /\ tools[j].at = "window"
  /\ tools' = [tools EXCEPT ![j].at = "authorize"]
  /\ UNCHANGED <<jobs, active, requested, audit, effects, accepted>>

\* The window is gone, or the helper does not answer.
WindowLost(j) ==
  /\ Settled
  /\ tools[j].at = "window"
  /\ EndTool(j, "failed", requested)
  /\ UNCHANGED <<audit, effects, accepted>>

\* Slip: a decision to prompt is taken for an approval.
MayOperateUnasked(j) == Act(j).decision # "deny"

MayOperate(j) ==
  \/ Act(j).decision = "allow"
  \/ Act(j).decision = "prompt" /\ ApprovedNow(j)

\* The approval handler of the active execution is asked about something new.
Asks(j) == Act(j).decision = "prompt" /\ active # "" /\ ~MayOperate(j)

\* Slip: the last check of a permission is taken for the operation.
NextActionSkips(j) == [tools[j] EXCEPT !.action = @ + 2]

NextAction(j) == [tools[j] EXCEPT !.action = @ + 1]

\* A permission is checked: on to the next action, or to the operation itself.
AuthorizeGranted(j) ==
  /\ tools[j].at = "authorize"
  /\ MayOperate(j)
  /\ IF IsLast(j)
     THEN tools' = [tools EXCEPT ![j].at = "operate"] /\ UNCHANGED audit
     ELSE tools' = [tools EXCEPT ![j] = NextAction(j)] /\ Record(j, "completed")
  /\ UNCHANGED <<jobs, active, requested, effects, accepted>>

AuthorizeDenied(j) ==
  /\ tools[j].at = "authorize"
  /\ Act(j).decision = "deny"
  /\ Record(j, "denied")
  /\ EndTool(j, "failed", requested)
  /\ UNCHANGED <<effects, accepted>>

\* The handler of the active execution takes the question down.
AuthorizePending(j) ==
  /\ tools[j].at = "authorize"
  /\ Asks(j)
  /\ Record(j, "approval_required")
  /\ EndTool(j, "failed", Act(j).summary)
  /\ UNCHANGED <<effects, accepted>>

\* No execution is active: the bridge's client cannot be asked.
AuthorizeUnsupported(j) ==
  /\ tools[j].at = "authorize"
  /\ Act(j).decision = "prompt" /\ active = ""
  /\ Record(j, "failed")
  /\ EndTool(j, "failed", "")
  /\ UNCHANGED <<effects, accepted>>

CountEffect(j) == effects' = [effects EXCEPT ![j] = IF @ < MaxEffects THEN @ + 1 ELSE @]

OperationSucceeds(j) ==
  /\ Settled
  /\ tools[j].at = "operate"
  /\ CountEffect(j)
  /\ Record(j, "completed")
  /\ EndTool(j, "completed", requested)
  /\ UNCHANGED accepted

\* Slip: a record that cannot be written is no reason to fail.
EndUnrecordedQuietly(j) == EndTool(j, "completed", requested)

\* The record cannot be written: authorized throws and the tool fails, but a
\* question that was taken down is still asked.
EndUnrecorded(j) ==
  EndTool(j, "failed", IF tools[j].at = "authorize" /\ Asks(j) THEN Act(j).summary ELSE requested)

AuthorizeUnrecorded(j) ==
  /\ tools[j].at = "authorize"
  /\ ~(MayOperate(j) /\ IsLast(j))
  /\ EndUnrecorded(j)
  /\ UNCHANGED <<audit, effects, accepted>>

\* The tool fails although it took effect.
OperationUnrecorded(j) ==
  /\ Settled
  /\ tools[j].at = "operate"
  /\ CountEffect(j)
  /\ EndUnrecorded(j)
  /\ UNCHANGED <<audit, accepted>>

OperationFails(j) ==
  /\ Settled
  /\ tools[j].at = "operate"
  /\ Record(j, "failed")
  /\ EndTool(j, "failed", requested)
  /\ UNCHANGED <<effects, accepted>>

-----------------------------------------------------------------------------
(* The user's answer, by way of the relay: the next lease carries the        *)
(* summary of the accepted ticket.  Only a job's first question is shown to  *)
(* the user (relay.ts:78), a second one waits until the job expires.         *)

Accept(j) ==
  /\ Settled
  /\ jobs[j].state = "asked"
  /\ accepted[j] = {}
  /\ jobs' = [jobs EXCEPT ![j] = [@ EXCEPT !.state = "queued",
                                           !.approved = jobs[j].question]]
  /\ accepted' = [accepted EXCEPT ![j] = @ \cup {jobs[j].question}]
  /\ UNCHANGED <<active, requested, tools, audit, effects>>

\* The user declines, or the job expires.
Decline(j) ==
  /\ Settled
  /\ jobs[j].state = "asked"
  /\ jobs' = [jobs EXCEPT ![j].state = "failed"]
  /\ UNCHANGED <<active, requested, tools, audit, effects, accepted>>

-----------------------------------------------------------------------------
Next ==
  \/ Abort
  \/ TimeOut
  \/ \E j \in Jobs :
       \/ Execute(j)
       \/ WindowFound(j)
       \/ WindowLost(j)
       \/ AuthorizeGranted(j)
       \/ AuthorizeDenied(j)
       \/ AuthorizePending(j)
       \/ AuthorizeUnsupported(j)
       \/ OperationSucceeds(j)
       \/ AuthorizeUnrecorded(j)
       \/ OperationUnrecorded(j)
       \/ OperationFails(j)
       \/ Accept(j)
       \/ Decline(j)

Spec == Init /\ [][Next]_vars

-----------------------------------------------------------------------------
(* Correctness *)

\* No handler waiting for its window has outlived its call.
NoStrayHandler == \A j \in WindowJobs : jobs[j].state # "aborted"

\* An action the policy prompts for runs only if the user accepted exactly its
\* summary, even when a handler that outlived its call asks the handler of
\* another execution; and for the job it was accepted for, until one has.
RunsOnlyIfAccepted ==
  \A j \in Jobs :
    tools[j].at = "operate" /\ Act(j).decision = "prompt" =>
      \E k \in Jobs : Act(j).summary \in accepted[k] /\ (NoStrayHandler => k = j)

\* The user is asked about a job only what its own tool wants to do.
QuestionIsOwn ==
  \A j \in Jobs :
    NoStrayHandler /\ jobs[j].state = "asked" =>
      \E n \in 1..Len(Actions[j]) :
        Actions[j][n] = [summary |-> jobs[j].question, decision |-> "prompt"]

\* Every action of a job that comes back completed is in the audit as that job's,
\* under its own id, whatever other handlers record meanwhile.
CompletedIsAudited ==
  \A j \in Jobs : jobs[j].state = "completed" =>
    \A n \in 1..Len(Actions[j]) :
      [of |-> j, under |-> j, summary |-> Actions[j][n].summary, outcome |-> "completed"] \in audit

-----------------------------------------------------------------------------
(* Statements of the repository that the code does not keep *)

\* A job that comes back with a question has not been executed
\* (architecture.md:16, "A prompted action returns without executing").
AskedBeforeEffect ==
  \A j \in Jobs : jobs[j].state = "asked" => effects[j] = 0
=============================================================================
