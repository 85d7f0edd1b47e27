---------------------------- MODULE BridgeProofs ----------------------------
(***************************************************************************)
(* Theorems about ToolBridge, for any jobs, tools and policy decisions and *)
(* any order of aborts, late handlers and answers.                         *)
(***************************************************************************)
EXTENDS ToolBridge, TLAPS

-----------------------------------------------------------------------------
(* The inductive invariant *)

JobRecords == [state : {"queued", "running", "asked"} \cup JobsDone,
               approved : Summaries \cup {""}, question : Summaries \cup {""}]

Handlers == [at : {"none", "window", "authorize", "operate"}, action : Nat]

AuditRecords == [of : Jobs, under : Jobs \cup {""}, summary : Summaries, outcome : Outcomes]

BridgeTyped ==
  /\ jobs \in [Jobs -> JobRecords]
  /\ active \in Jobs \cup {""}
  /\ requested \in Summaries \cup {""}
  /\ tools \in [Jobs -> Handlers]
  /\ audit \subseteq AuditRecords
  /\ effects \in [Jobs -> 0..MaxEffects]
  /\ accepted \in [Jobs -> SUBSET Summaries]

\* Where a handler may be: it operates after its last check only, and waits for
\* a window only if its tool has one.
InPlace(j) ==
  /\ tools[j].at # "none" => tools[j].action \in 1..Len(Actions[j])
  /\ tools[j].at = "none" => tools[j].action = 0
  /\ tools[j].at = "window" => j \in WindowJobs
  /\ tools[j].at = "operate" => IsLast(j)

\* A handler that nobody awaits has outlived its call; only one that waited for
\* its window when the call was aborted will still ask for permission.
AwaitedOrGivenUp(j) ==
  tools[j].at # "none" /\ active # j =>
    /\ jobs[j].state \in {"aborted", "failed"}
    /\ tools[j].at # "operate" => j \in WindowJobs /\ jobs[j].state = "aborted"

AuditOf(j, n) == [of |-> j, under |-> j, summary |-> Actions[j][n].summary,
                  outcome |-> "completed"]

\* The awaited handler has recorded every action it has behind it.
RecordedSoFar(j) ==
  active = j => \A n \in 1..(tools[j].action - 1) : AuditOf(j, n) \in audit

\* The awaited job is running.
ActiveRuns(j) == active = j => jobs[j].state = "running"

\* What the next lease carries is the user's word.
ApprovalIsAccepted(j) == jobs[j].approved # "" => jobs[j].approved \in accepted[j]

\* Who asks has something to ask.
QuestionNamed(j) == jobs[j].state = "asked" => jobs[j].question # ""

HandlerInv(j) ==
  /\ InPlace(j)
  /\ AwaitedOrGivenUp(j)
  /\ RecordedSoFar(j)
  /\ ActiveRuns(j)
  /\ ApprovalIsAccepted(j)
  /\ QuestionNamed(j)

\* A question is left for the next execution by a stray handler only.
NothingLeftBehind == NoStrayHandler => requested = ""

BridgeInv ==
  /\ BridgeTyped
  /\ \A j \in Jobs : HandlerInv(j)
  /\ NothingLeftBehind
  /\ RunsOnlyIfAccepted
  /\ QuestionIsOwn
  /\ CompletedIsAudited

-----------------------------------------------------------------------------
(* Lemmas *)

LEMMA ActionsFinite ==
  ASSUME NEW j \in Jobs
  PROVE  Len(Actions[j]) \in Nat \ {0}
<1> DEFINE S == [summary : Summaries, decision : {"allow", "prompt", "deny"}]
<1>1. Actions[j] \in Seq(S) /\ Actions[j] # <<>>
  BY ActionsAssumption
<1> HIDE DEF S
<1> QED
  BY <1>1

LEMMA ActionsTyped ==
  ASSUME NEW j \in Jobs, NEW n \in 1..Len(Actions[j])
  PROVE  Actions[j][n] \in [summary : Summaries, decision : {"allow", "prompt", "deny"}]
<1> DEFINE S == [summary : Summaries, decision : {"allow", "prompt", "deny"}]
<1>1. Actions[j] \in Seq(S)
  BY ActionsAssumption
<1> HIDE DEF S
<1>2. Actions[j][n] \in S
  BY <1>1
<1> QED
  BY <1>2 DEF S

LEMMA ActTyped ==
  ASSUME BridgeInv, NEW j \in Jobs, tools[j].at # "none"
  PROVE  /\ tools[j].action \in 1..Len(Actions[j])
         /\ Act(j) = Actions[j][tools[j].action]
         /\ Act(j) \in [summary : Summaries, decision : {"allow", "prompt", "deny"}]
         /\ Act(j).summary \in Summaries /\ Act(j).summary # ""
<1>1. tools[j].action \in 1..Len(Actions[j])
  BY DEF BridgeInv, HandlerInv, InPlace
<1>2. Act(j) \in [summary : Summaries, decision : {"allow", "prompt", "deny"}]
  BY <1>1, ActionsTyped DEF Act
<1> QED
  BY <1>1, <1>2, ActionsAssumption DEF Act

LEMMA RecordTyped ==
  ASSUME BridgeInv, NEW j \in Jobs, NEW o \in Outcomes, tools[j].at # "none", Record(j, o)
  PROVE  audit' \subseteq AuditRecords /\ audit \subseteq audit'
<1> DEFINE r == [of |-> j, under |-> active, summary |-> Act(j).summary, outcome |-> o]
<1>1. audit' = audit \cup {r}
  BY DEF Record
<1>2. r \in AuditRecords
  BY ActTyped DEF BridgeInv, BridgeTyped, AuditRecords
<1> HIDE DEF r
<1> QED
  BY <1>1, <1>2 DEF BridgeInv, BridgeTyped

\* Once a stray handler has been seen the excuse stays.
LEMMA StrayStays ==
  ASSUME \A k \in Jobs : jobs[k].state = "aborted" => jobs'[k].state = "aborted",
         NoStrayHandler'
  PROVE  NoStrayHandler
BY ActionsAssumption DEF NoStrayHandler

\* q is something j's own tool wants to do.
Own(j, q) ==
  \E n \in 1..Len(Actions[j]) : Actions[j][n] = [summary |-> q, decision |-> "prompt"]

LEMMA ActOwn ==
  ASSUME BridgeInv, NEW j \in Jobs, tools[j].at # "none", Act(j).decision = "prompt"
  PROVE  Own(j, Act(j).summary)
<1>1. Act(j) = [summary |-> Act(j).summary, decision |-> "prompt"]
  BY ActTyped
<1> QED
  BY <1>1, ActTyped DEF Own

\* The awaited handler is the only one to ask, if there is no stray one.
LEMMA AskerIsActive ==
  ASSUME BridgeInv, NEW j \in Jobs, tools[j].at \in {"window", "authorize"}, NoStrayHandler
  PROVE  active = j
BY DEF BridgeInv, HandlerInv, AwaitedOrGivenUp, NoStrayHandler

-----------------------------------------------------------------------------
(* The end of a handler *)

\* A question taken down is the active job's own.
AskedIsOwn(j, asked) == NoStrayHandler /\ asked # "" => active = j /\ Own(j, asked)

LEMMA EndToolShape ==
  ASSUME BridgeInv, NEW j \in Jobs, NEW o, NEW a, EndTool(j, o, a)
  PROVE  /\ tools' = [tools EXCEPT ![j] = Stopped]
         /\ tools'[j].at = "none" /\ tools'[j].action = 0
         /\ \A k \in Jobs \ {j} : tools'[k] = tools[k] /\ jobs'[k] = jobs[k]
         /\ jobs'[j].approved = jobs[j].approved
         /\ active # j => jobs' = jobs /\ active' = active /\ requested' = a
         /\ active = j => /\ jobs'[j].state = Result(o, a) /\ jobs'[j].question = a
                          /\ active' = "" /\ requested' = ""
<1>1. /\ jobs \in [Jobs -> JobRecords] /\ tools \in [Jobs -> Handlers]
      /\ jobs[j] \in JobRecords
  BY DEF BridgeInv, BridgeTyped
<1>2. /\ tools' = [tools EXCEPT ![j] = Stopped]
      /\ tools'[j].at = "none" /\ tools'[j].action = 0
  BY <1>1 DEF EndTool, Stopped
<1>3. CASE active # j
  BY <1>1, <1>2, <1>3 DEF EndTool
<1>4. CASE active = j
  <2>1. jobs' = [jobs EXCEPT ![j] = [jobs[j] EXCEPT !.state = Result(o, a), !.question = a]]
    BY <1>4 DEF EndTool
  <2>2. jobs'[j] = [jobs[j] EXCEPT !.state = Result(o, a), !.question = a]
    BY <1>1, <2>1
  <2>3. /\ jobs'[j].state = Result(o, a) /\ jobs'[j].question = a
        /\ jobs'[j].approved = jobs[j].approved
    BY <1>1, <2>2 DEF JobRecords
  <2>4. \A k \in Jobs \ {j} : jobs'[k] = jobs[k]
    BY <1>1, <2>1
  <2> QED
    BY <1>1, <1>2, <1>4, <2>3, <2>4 DEF EndTool
<1> QED
  BY <1>3, <1>4

\* The end of a handler keeps the invariant if what it takes down is its own
\* and what it completes is recorded.
LEMMA EndToolInv ==
  ASSUME BridgeInv, NEW j \in Jobs, NEW o \in {"completed", "failed"},
         NEW a \in Summaries \cup {""}, EndTool(j, o, a), tools[j].at # "none",
         AskedIsOwn(j, a),
         audit \subseteq audit', audit' \subseteq AuditRecords,
         effects' \in [Jobs -> 0..MaxEffects], accepted' = accepted,
         o = "completed" /\ active = j =>
           \A n \in 1..Len(Actions[j]) : AuditOf(j, n) \in audit'
  PROVE  BridgeInv'
<1>0. /\ BridgeTyped /\ \A k \in Jobs : HandlerInv(k)
      /\ NothingLeftBehind /\ RunsOnlyIfAccepted /\ QuestionIsOwn /\ CompletedIsAudited
      /\ "" \notin Jobs
  BY ActionsAssumption DEF BridgeInv
<1>1. /\ tools' = [tools EXCEPT ![j] = Stopped]
      /\ tools'[j].at = "none" /\ tools'[j].action = 0
      /\ \A k \in Jobs \ {j} : tools'[k] = tools[k] /\ jobs'[k] = jobs[k]
      /\ jobs'[j].approved = jobs[j].approved
      /\ active # j => jobs' = jobs /\ active' = active /\ requested' = a
      /\ active = j => /\ jobs'[j].state = Result(o, a) /\ jobs'[j].question = a
                       /\ active' = "" /\ requested' = ""
  BY EndToolShape
<1>2. Result(o, a) \in {"asked", "completed", "failed"}
  BY DEF Result
<1>3. BridgeTyped'
  <2>1. jobs' \in [Jobs -> JobRecords]
    <3>1. [jobs[j] EXCEPT !.state = Result(o, a), !.question = a] \in JobRecords
      <4>1. Result(o, a) \in {"queued", "running", "asked"} \cup JobsDone
        BY <1>2 DEF JobsDone
      <4>2. jobs[j] \in JobRecords
        BY <1>0 DEF BridgeTyped
      <4> QED
        BY <4>1, <4>2 DEF JobRecords
    <3> QED
      BY <1>0, <3>1 DEF EndTool, BridgeTyped
  <2>2. tools' \in [Jobs -> Handlers]
    BY <1>0, <1>1 DEF BridgeTyped, Handlers, Stopped
  <2>3. active' \in Jobs \cup {""} /\ requested' \in Summaries \cup {""}
    BY <1>0, <1>1 DEF BridgeTyped
  <2> QED
    BY <1>0, <2>1, <2>2, <2>3 DEF BridgeTyped
<1>4. NoStrayHandler' => NoStrayHandler
  <2>1. \A k \in Jobs : jobs[k].state = "aborted" => jobs'[k].state = "aborted"
    BY <1>0, <1>1 DEF HandlerInv, ActiveRuns
  <2> QED
    BY <2>1, StrayStays
<1>5. ASSUME NEW k \in Jobs PROVE HandlerInv(k)'
  <2>1. InPlace(k)'
    BY <1>0, <1>1 DEF HandlerInv, InPlace, IsLast
  <2>2. AwaitedOrGivenUp(k)'
    BY <1>0, <1>1 DEF HandlerInv, AwaitedOrGivenUp
  <2>3. RecordedSoFar(k)' /\ ActiveRuns(k)'
    BY <1>0, <1>1 DEF HandlerInv, RecordedSoFar, ActiveRuns, AuditOf
  <2>4. ApprovalIsAccepted(k)' /\ QuestionNamed(k)'
    BY <1>0, <1>1 DEF HandlerInv, ApprovalIsAccepted, QuestionNamed, Result
  <2> QED
    BY <2>1, <2>2, <2>3, <2>4 DEF HandlerInv
<1>6. NothingLeftBehind'
  BY <1>0, <1>1, <1>4 DEF NothingLeftBehind, AskedIsOwn
<1>7. RunsOnlyIfAccepted'
  BY <1>0, <1>1, <1>4 DEF RunsOnlyIfAccepted, Act
<1>8. QuestionIsOwn'
  <2> SUFFICES ASSUME NEW k \in Jobs, NoStrayHandler', jobs'[k].state = "asked"
               PROVE  Own(k, jobs'[k].question)
    BY DEF QuestionIsOwn, Own
  <2>1. CASE jobs'[k] = jobs[k]
    BY <1>0, <1>4, <2>1 DEF QuestionIsOwn, Own
  <2>2. CASE k = j /\ active = j
    <3>1. a # ""
      BY <1>1, <2>2 DEF Result
    <3> QED
      BY <1>1, <1>4, <2>2, <3>1 DEF AskedIsOwn
  <2> QED
    BY <1>1, <2>1, <2>2
<1>9. CompletedIsAudited'
  <2> SUFFICES ASSUME NEW k \in Jobs, jobs'[k].state = "completed",
                      NEW n \in 1..Len(Actions[k])
               PROVE  AuditOf(k, n) \in audit'
    BY DEF CompletedIsAudited, AuditOf
  <2>1. CASE jobs'[k] = jobs[k]
    BY <1>0, <2>1 DEF CompletedIsAudited, AuditOf
  <2>2. CASE k = j /\ active = j
    BY <1>1, <2>2 DEF Result
  <2> QED
    BY <1>1, <2>1, <2>2
<1> QED
  BY <1>3, <1>5, <1>6, <1>7, <1>8, <1>9 DEF BridgeInv

-----------------------------------------------------------------------------
(* Every action keeps the invariant *)

\* What the handlers of other executions have left is not asked again.
LEMMA RequestedIsOwn ==
  ASSUME BridgeInv, NEW j \in Jobs
  PROVE  AskedIsOwn(j, requested) /\ requested \in Summaries \cup {""}
BY DEF BridgeInv, BridgeTyped, NothingLeftBehind, AskedIsOwn

LEMMA PendingIsOwn ==
  ASSUME BridgeInv, NEW j \in Jobs, tools[j].at = "authorize", Act(j).decision = "prompt"
  PROVE  AskedIsOwn(j, Act(j).summary) /\ Act(j).summary \in Summaries
BY AskerIsActive, ActOwn, ActTyped DEF AskedIsOwn

\* A handler that fails, with what is asked taken from `requested` or from it.
LEMMA FailedInv ==
  ASSUME BridgeInv, NEW j \in Jobs, NEW a \in Summaries \cup {""},
         EndTool(j, "failed", a), tools[j].at # "none", AskedIsOwn(j, a),
         audit \subseteq audit', audit' \subseteq AuditRecords,
         effects' \in [Jobs -> 0..MaxEffects], accepted' = accepted
  PROVE  BridgeInv'
BY EndToolInv

LEMMA EffectsTyped ==
  ASSUME BridgeInv
  PROVE  /\ effects \in [Jobs -> 0..MaxEffects]
         /\ audit \subseteq AuditRecords
         /\ \A j \in Jobs : CountEffect(j) => effects' \in [Jobs -> 0..MaxEffects]
<1>1. effects \in [Jobs -> 0..MaxEffects] /\ audit \subseteq AuditRecords
  BY DEF BridgeInv, BridgeTyped
<1>2. ASSUME NEW j \in Jobs, CountEffect(j)
      PROVE  effects' \in [Jobs -> 0..MaxEffects]
  <2>1. effects' = [effects EXCEPT ![j] = IF effects[j] < MaxEffects
                                          THEN effects[j] + 1 ELSE effects[j]]
    BY <1>2 DEF CountEffect
  <2>2. (IF effects[j] < MaxEffects THEN effects[j] + 1 ELSE effects[j]) \in 0..MaxEffects
    BY <1>1, BoundAssumption
  <2> QED
    BY <1>1, <2>1, <2>2
<1> QED
  BY <1>1, <1>2

LEMMA EndsInv ==
  ASSUME BridgeInv, NEW j \in Jobs,
         \/ WindowLost(j) \/ AuthorizeDenied(j) \/ AuthorizePending(j)
         \/ AuthorizeUnsupported(j) \/ AuthorizeUnrecorded(j)
         \/ OperationUnrecorded(j) \/ OperationFails(j)
  PROVE  BridgeInv'
<1> USE EffectsTyped
<1>1. CASE WindowLost(j)
  BY <1>1, RequestedIsOwn, FailedInv DEF WindowLost
<1>2. CASE AuthorizeDenied(j)
  <2>1. audit' \subseteq AuditRecords /\ audit \subseteq audit'
    BY <1>2, RecordTyped DEF AuthorizeDenied, Outcomes
  <2> QED
    BY <1>2, <2>1, RequestedIsOwn, FailedInv DEF AuthorizeDenied
<1>3. CASE AuthorizePending(j)
  <2>1. audit' \subseteq AuditRecords /\ audit \subseteq audit'
    BY <1>3, RecordTyped DEF AuthorizePending, Outcomes
  <2> QED
    BY <1>3, <2>1, PendingIsOwn, FailedInv DEF AuthorizePending, Asks
<1>4. CASE AuthorizeUnsupported(j)
  <2>1. audit' \subseteq AuditRecords /\ audit \subseteq audit'
    BY <1>4, RecordTyped DEF AuthorizeUnsupported, Outcomes
  <2> QED
    BY <1>4, <2>1, FailedInv DEF AuthorizeUnsupported, AskedIsOwn
<1>5. CASE AuthorizeUnrecorded(j) \/ OperationUnrecorded(j)
  <2>1. EndUnrecorded(j) /\ tools[j].at # "none" /\ accepted' = accepted /\ audit' = audit
    BY <1>5 DEF AuthorizeUnrecorded, OperationUnrecorded
  <2>2. effects' \in [Jobs -> 0..MaxEffects]
    BY <1>5 DEF AuthorizeUnrecorded, OperationUnrecorded
  <2>3. CASE tools[j].at = "authorize" /\ Asks(j)
    BY <2>1, <2>2, <2>3, PendingIsOwn, FailedInv DEF EndUnrecorded, Asks
  <2>4. CASE ~(tools[j].at = "authorize" /\ Asks(j))
    BY <2>1, <2>2, <2>4, RequestedIsOwn, FailedInv DEF EndUnrecorded
  <2> QED
    BY <2>3, <2>4
<1>6. CASE OperationFails(j)
  <2>1. audit' \subseteq AuditRecords /\ audit \subseteq audit'
    BY <1>6, RecordTyped DEF OperationFails, Outcomes
  <2> QED
    BY <1>6, <2>1, RequestedIsOwn, FailedInv DEF OperationFails
<1> QED
  BY <1>1, <1>2, <1>3, <1>4, <1>5, <1>6

\* The whole trail of a tool that completes: the checks behind it and, last, the
\* operation itself.
LEMMA OperationSucceedsInv ==
  ASSUME BridgeInv, NEW j \in Jobs, OperationSucceeds(j)
  PROVE  BridgeInv'
<1>1. audit' \subseteq AuditRecords /\ audit \subseteq audit'
  BY RecordTyped DEF OperationSucceeds, Outcomes
<1>2. ASSUME active = j, NEW n \in 1..Len(Actions[j])
      PROVE  AuditOf(j, n) \in audit'
  <2>1. tools[j].action = Len(Actions[j]) /\ tools[j].action \in 1..Len(Actions[j])
    BY ActTyped DEF OperationSucceeds, BridgeInv, HandlerInv, InPlace, IsLast
  <2>2. CASE n = tools[j].action
    BY <1>2, <2>2 DEF OperationSucceeds, Record, AuditOf, Act
  <2>3. CASE n # tools[j].action
    <3>1. Len(Actions[j]) \in Nat
      BY ActionsFinite
    <3>2. n \in 1..(tools[j].action - 1)
      BY <2>1, <2>3, <3>1
    <3> QED
      BY <1>1, <1>2, <3>2 DEF BridgeInv, HandlerInv, RecordedSoFar
  <2> QED
    BY <2>2, <2>3
<1>3. EndTool(j, "completed", requested) /\ tools[j].at # "none" /\ accepted' = accepted
  BY DEF OperationSucceeds
<1>4. effects' \in [Jobs -> 0..MaxEffects]
  BY EffectsTyped DEF OperationSucceeds
<1> QED
  BY <1>1, <1>2, <1>3, <1>4, RequestedIsOwn, EndToolInv

LEMMA ExecuteInv ==
  ASSUME BridgeInv, NEW j \in Jobs, Execute(j)
  PROVE  BridgeInv'
<1>0. /\ BridgeTyped /\ \A k \in Jobs : HandlerInv(k)
      /\ NothingLeftBehind /\ RunsOnlyIfAccepted /\ QuestionIsOwn /\ CompletedIsAudited
      /\ "" \notin Jobs /\ jobs[j] \in JobRecords
  BY ActionsAssumption DEF BridgeInv, BridgeTyped
<1>1. /\ jobs' = [jobs EXCEPT ![j] = [jobs[j] EXCEPT !.state = "running"]]
      /\ tools' = [tools EXCEPT ![j] = FirstStop(j)]
      /\ active = "" /\ active' = j /\ requested' = ""
      /\ jobs[j].state = "queued"
      /\ UNCHANGED <<audit, effects, accepted>>
  BY DEF Execute
<1>2. /\ jobs'[j] = [jobs[j] EXCEPT !.state = "running"]
      /\ \A k \in Jobs \ {j} : jobs'[k] = jobs[k] /\ tools'[k] = tools[k]
      /\ tools'[j] = FirstStop(j)
  BY <1>0, <1>1 DEF BridgeTyped
<1>3. jobs'[j] \in JobRecords /\ jobs'[j].state = "running" /\ jobs'[j].approved = jobs[j].approved
  BY <1>0, <1>2 DEF JobRecords
<1>4. /\ tools'[j].at \in {"window", "authorize"} /\ tools'[j].action = 1
      /\ tools'[j].at = "window" => j \in WindowJobs
      /\ FirstStop(j) \in Handlers
  BY <1>2 DEF FirstStop, Handlers
<1>5. BridgeTyped'
  BY <1>0, <1>1, <1>2, <1>3, <1>4 DEF BridgeTyped
<1>6. NoStrayHandler' => NoStrayHandler
  <2>1. \A k \in Jobs : jobs[k].state = "aborted" => jobs'[k].state = "aborted"
    BY <1>1, <1>2
  <2> QED
    BY <2>1, StrayStays
<1>7. ASSUME NEW k \in Jobs PROVE HandlerInv(k)'
  <2>1. CASE k = j
    <3>1. InPlace(j)'
      BY <1>4, ActionsFinite DEF InPlace
    <3>2. AwaitedOrGivenUp(j)' /\ ActiveRuns(j)'
      BY <1>1, <1>3 DEF AwaitedOrGivenUp, ActiveRuns
    <3>4. RecordedSoFar(j)'
      <4>1. 1..(tools'[j].action - 1) = {}
        BY <1>4
      <4> QED
        BY <4>1 DEF RecordedSoFar
    <3>3. ApprovalIsAccepted(j)' /\ QuestionNamed(j)'
      BY <1>0, <1>1, <1>3 DEF HandlerInv, ApprovalIsAccepted, QuestionNamed
    <3> QED
      BY <2>1, <3>1, <3>2, <3>3, <3>4 DEF HandlerInv
  <2>2. CASE k # j
    BY <1>0, <1>1, <1>2, <2>2 DEF HandlerInv, InPlace, IsLast, AwaitedOrGivenUp,
       RecordedSoFar, ActiveRuns, ApprovalIsAccepted, QuestionNamed
  <2> QED
    BY <2>1, <2>2
<1>8. NothingLeftBehind' /\ QuestionIsOwn' /\ CompletedIsAudited'
  <2>1. NothingLeftBehind'
    BY <1>1 DEF NothingLeftBehind
  <2>2. ASSUME NEW k \in Jobs, jobs'[k].state \in {"asked", "completed"}
        PROVE  jobs'[k] = jobs[k]
    BY <1>1, <1>2, <1>3, <2>2
  <2>3. QuestionIsOwn'
    <3> SUFFICES ASSUME NEW k \in Jobs, NoStrayHandler', jobs'[k].state = "asked"
                 PROVE  Own(k, jobs'[k].question)
      BY DEF QuestionIsOwn, Own
    <3> QED
      BY <1>0, <1>6, <2>2 DEF QuestionIsOwn, Own
  <2>4. CompletedIsAudited'
    <3> SUFFICES ASSUME NEW k \in Jobs, jobs'[k].state = "completed",
                        NEW n \in 1..Len(Actions[k])
                 PROVE  AuditOf(k, n) \in audit
      BY <1>1 DEF CompletedIsAudited, AuditOf
    <3> QED
      BY <1>0, <2>2 DEF CompletedIsAudited, AuditOf
  <2> QED
    BY <2>1, <2>3, <2>4
<1>9. RunsOnlyIfAccepted'
  BY <1>0, <1>1, <1>2, <1>4, <1>6 DEF RunsOnlyIfAccepted, Act
<1> QED
  BY <1>5, <1>7, <1>8, <1>9 DEF BridgeInv

\* A call that is given up leaves its handler behind: at any place when it was
\* aborted, operating when it took too long.
LEMMA GiveUpInv ==
  ASSUME BridgeInv, NEW o \in {"aborted", "failed"}, GiveUp(o),
         o = "failed" => tools[active].at = "operate"
  PROVE  BridgeInv'
<1>0. /\ BridgeTyped /\ \A k \in Jobs : HandlerInv(k)
      /\ NothingLeftBehind /\ RunsOnlyIfAccepted /\ QuestionIsOwn /\ CompletedIsAudited
      /\ "" \notin Jobs /\ active \in Jobs /\ jobs[active] \in JobRecords
  BY ActionsAssumption DEF BridgeInv, BridgeTyped, GiveUp
<1>1. /\ jobs' = [jobs EXCEPT ![active] = [jobs[active] EXCEPT !.state = o]]
      /\ active' = "" /\ requested' = "" /\ UNCHANGED <<tools, audit, effects, accepted>>
  BY DEF GiveUp
<1>2. /\ jobs'[active] = [jobs[active] EXCEPT !.state = o]
      /\ \A k \in Jobs \ {active} : jobs'[k] = jobs[k]
  BY <1>0, <1>1 DEF BridgeTyped
<1>3. /\ jobs'[active] \in JobRecords /\ jobs'[active].state = o
      /\ jobs'[active].approved = jobs[active].approved
  BY <1>0, <1>2 DEF JobRecords, JobsDone
<1>4. BridgeTyped'
  BY <1>0, <1>1, <1>3 DEF BridgeTyped
<1>5. NoStrayHandler' => NoStrayHandler
  <2>1. \A k \in Jobs : jobs[k].state = "aborted" => jobs'[k].state = "aborted"
    BY <1>0, <1>2, <1>3 DEF HandlerInv, ActiveRuns
  <2> QED
    BY <2>1, StrayStays
<1>6. ASSUME NEW k \in Jobs PROVE HandlerInv(k)'
  <2>1. tools[k].at # "authorize" /\ tools[k].at \in {"none", "window", "authorize", "operate"}
    BY <1>0 DEF GiveUp, Settled, BridgeTyped, Handlers
  <2>2. InPlace(k)'
    BY <1>0, <1>1 DEF HandlerInv, InPlace, IsLast
  <2>3. AwaitedOrGivenUp(k)'
    BY <1>0, <1>1, <1>2, <1>3, <2>1 DEF HandlerInv, AwaitedOrGivenUp, InPlace
  <2>4. RecordedSoFar(k)' /\ ActiveRuns(k)' /\ ApprovalIsAccepted(k)' /\ QuestionNamed(k)'
    BY <1>0, <1>1, <1>2, <1>3 DEF HandlerInv, RecordedSoFar, ActiveRuns, ApprovalIsAccepted,
       QuestionNamed
  <2> QED
    BY <2>2, <2>3, <2>4 DEF HandlerInv
<1>7. NothingLeftBehind' /\ QuestionIsOwn' /\ CompletedIsAudited'
  <2>1. NothingLeftBehind'
    BY <1>1 DEF NothingLeftBehind
  <2>2. ASSUME NEW k \in Jobs, jobs'[k].state \in {"asked", "completed"}
        PROVE  jobs'[k] = jobs[k]
    BY <1>1, <1>2, <1>3, <2>2
  <2>3. QuestionIsOwn'
    <3> SUFFICES ASSUME NEW k \in Jobs, NoStrayHandler', jobs'[k].state = "asked"
                 PROVE  Own(k, jobs'[k].question)
      BY DEF QuestionIsOwn, Own
    <3> QED
      BY <1>0, <1>5, <2>2 DEF QuestionIsOwn, Own
  <2>4. CompletedIsAudited'
    <3> SUFFICES ASSUME NEW k \in Jobs, jobs'[k].state = "completed",
                        NEW n \in 1..Len(Actions[k])
                 PROVE  AuditOf(k, n) \in audit
      BY <1>1 DEF CompletedIsAudited, AuditOf
    <3> QED
      BY <1>0, <2>2 DEF CompletedIsAudited, AuditOf
  <2> QED
    BY <2>1, <2>3, <2>4
<1>8. RunsOnlyIfAccepted'
  BY <1>0, <1>1, <1>5 DEF RunsOnlyIfAccepted, Act
<1> QED
  BY <1>4, <1>6, <1>7, <1>8 DEF BridgeInv

LEMMA WindowFoundInv ==
  ASSUME BridgeInv, NEW j \in Jobs, WindowFound(j)
  PROVE  BridgeInv'
<1>0. /\ BridgeTyped /\ \A k \in Jobs : HandlerInv(k)
      /\ NothingLeftBehind /\ RunsOnlyIfAccepted /\ QuestionIsOwn /\ CompletedIsAudited
      /\ tools[j] \in Handlers
  BY DEF BridgeInv, BridgeTyped
<1>1. /\ tools' = [tools EXCEPT ![j] = [tools[j] EXCEPT !.at = "authorize"]]
      /\ tools[j].at = "window"
      /\ UNCHANGED <<jobs, active, requested, audit, effects, accepted>>
  BY DEF WindowFound
<1>2. /\ tools'[j] = [tools[j] EXCEPT !.at = "authorize"]
      /\ \A k \in Jobs \ {j} : tools'[k] = tools[k]
  BY <1>0, <1>1 DEF BridgeTyped
<1>3. tools'[j] \in Handlers /\ tools'[j].at = "authorize" /\ tools'[j].action = tools[j].action
  BY <1>0, <1>2 DEF Handlers
<1>4. BridgeTyped'
  BY <1>0, <1>1, <1>3 DEF BridgeTyped
<1>5. ASSUME NEW k \in Jobs PROVE HandlerInv(k)'
  BY <1>0, <1>1, <1>2, <1>3 DEF HandlerInv, InPlace, IsLast, AwaitedOrGivenUp,
     RecordedSoFar, ActiveRuns, ApprovalIsAccepted, QuestionNamed
<1>6. NothingLeftBehind' /\ QuestionIsOwn' /\ CompletedIsAudited'
  BY <1>0, <1>1 DEF NothingLeftBehind, QuestionIsOwn, CompletedIsAudited, NoStrayHandler
<1>7. RunsOnlyIfAccepted'
  BY <1>0, <1>1, <1>2, <1>3 DEF RunsOnlyIfAccepted, Act, NoStrayHandler
<1> QED
  BY <1>4, <1>5, <1>6, <1>7 DEF BridgeInv

\* A prompt is passed on the word the active execution came with.
LEMMA GrantedByUser ==
  ASSUME BridgeInv, NEW j \in Jobs, tools[j].at = "authorize", MayOperate(j),
         Act(j).decision = "prompt"
  PROVE  \E k \in Jobs : Act(j).summary \in accepted[k] /\ (NoStrayHandler => k = j)
<1>1. active \in Jobs /\ jobs[active].approved = Act(j).summary
  BY DEF MayOperate, ApprovedNow, BridgeInv, BridgeTyped
<1>2. Act(j).summary # ""
  BY ActTyped
<1>3. Act(j).summary \in accepted[active]
  BY <1>1, <1>2 DEF BridgeInv, HandlerInv, ApprovalIsAccepted
<1>4. NoStrayHandler => active = j
  BY AskerIsActive
<1> QED
  BY <1>1, <1>3, <1>4

LEMMA AuthorizeGrantedInv ==
  ASSUME BridgeInv, NEW j \in Jobs, AuthorizeGranted(j)
  PROVE  BridgeInv'
<1>0. /\ BridgeTyped /\ \A k \in Jobs : HandlerInv(k)
      /\ NothingLeftBehind /\ RunsOnlyIfAccepted /\ QuestionIsOwn /\ CompletedIsAudited
      /\ tools[j] \in Handlers /\ tools[j].at = "authorize" /\ "" \notin Jobs
      /\ UNCHANGED <<jobs, active, requested, effects, accepted>>
  BY ActionsAssumption DEF BridgeInv, BridgeTyped, AuthorizeGranted
<1>1. tools[j].action \in 1..Len(Actions[j]) /\ Len(Actions[j]) \in Nat
  BY <1>0, ActTyped, ActionsFinite
<1>2. NothingLeftBehind' /\ QuestionIsOwn'
  BY <1>0 DEF NothingLeftBehind, QuestionIsOwn, NoStrayHandler
<1>3. CASE IsLast(j)
  <2>1. tools' = [tools EXCEPT ![j] = [tools[j] EXCEPT !.at = "operate"]] /\ audit' = audit
    BY <1>3 DEF AuthorizeGranted
  <2>2. /\ tools'[j] = [tools[j] EXCEPT !.at = "operate"]
        /\ \A k \in Jobs \ {j} : tools'[k] = tools[k]
    BY <1>0, <2>1 DEF BridgeTyped
  <2>3. /\ tools'[j] \in Handlers /\ tools'[j].at = "operate"
        /\ tools'[j].action = tools[j].action
    BY <1>0, <2>2 DEF Handlers
  <2>4. BridgeTyped'
    BY <1>0, <2>1, <2>3 DEF BridgeTyped
  <2>5. ASSUME NEW k \in Jobs PROVE HandlerInv(k)'
    BY <1>0, <1>3, <2>1, <2>2, <2>3 DEF HandlerInv, InPlace, IsLast, AwaitedOrGivenUp,
       RecordedSoFar, ActiveRuns, ApprovalIsAccepted, QuestionNamed
  <2>6. RunsOnlyIfAccepted'
    <3>1. \A k \in Jobs : tools'[k].action = tools[k].action
      BY <2>2, <2>3
    <3>2. MayOperate(j)
      BY DEF AuthorizeGranted
    <3>3. NoStrayHandler' <=> NoStrayHandler
      BY <1>0 DEF NoStrayHandler
    <3>4. ASSUME NEW k \in Jobs, tools'[k].at = "operate", Act(k).decision = "prompt"
          PROVE  \E i \in Jobs : /\ Act(k).summary \in accepted[i]
                                 /\ NoStrayHandler => i = k
      <4>1. CASE k = j
        BY <1>0, <3>2, <3>4, <4>1, GrantedByUser
      <4>2. CASE k # j
        BY <1>0, <2>2, <3>4, <4>2 DEF RunsOnlyIfAccepted
      <4> QED
        BY <4>1, <4>2
    <3>5. \A k \in Jobs : Actions[k][tools'[k].action] = Act(k)
      BY <3>1 DEF Act
    <3> SUFFICES ASSUME NEW k \in Jobs, tools'[k].at = "operate",
                        Actions[k][tools'[k].action].decision = "prompt"
                 PROVE  \E i \in Jobs : /\ Actions[k][tools'[k].action].summary \in accepted'[i]
                                        /\ NoStrayHandler' => i = k
      BY DEF RunsOnlyIfAccepted, Act
    <3> QED
      BY <1>0, <3>3, <3>4, <3>5
  <2>7. CompletedIsAudited'
    BY <1>0, <2>1 DEF CompletedIsAudited
  <2> QED
    BY <1>2, <2>4, <2>5, <2>6, <2>7 DEF BridgeInv
<1>4. CASE ~IsLast(j)
  <2>1. /\ tools' = [tools EXCEPT ![j] = [tools[j] EXCEPT !.action = tools[j].action + 1]]
        /\ Record(j, "completed")
    BY <1>4 DEF AuthorizeGranted, NextAction
  <2>2. /\ tools'[j] = [tools[j] EXCEPT !.action = tools[j].action + 1]
        /\ \A k \in Jobs \ {j} : tools'[k] = tools[k]
    BY <1>0, <2>1 DEF BridgeTyped
  <2>3. /\ tools'[j] \in Handlers /\ tools'[j].at = "authorize"
        /\ tools'[j].action = tools[j].action + 1
    <3>1. ASSUME NEW n \in Nat, tools'[j] = [tools[j] EXCEPT !.action = n]
          PROVE  /\ tools'[j] \in Handlers /\ tools'[j].at = "authorize"
                 /\ tools'[j].action = n
      BY <1>0, <3>1 DEF Handlers
    <3>2. tools[j].action + 1 \in Nat
      BY <1>1
    <3> QED
      BY <2>2, <3>1, <3>2
  <2>4. audit' \subseteq AuditRecords /\ audit \subseteq audit'
    BY <1>0, <2>1, RecordTyped DEF Outcomes
  <2>5. BridgeTyped'
    BY <1>0, <2>1, <2>3, <2>4 DEF BridgeTyped
  <2>6. active = j => AuditOf(j, tools[j].action) \in audit'
    BY <2>1 DEF Record, AuditOf, Act
  <2>7. ASSUME NEW k \in Jobs PROVE HandlerInv(k)'
    <3>1. InPlace(k)'
      <4>1. tools'[j].action \in 1..Len(Actions[j])
        BY <1>1, <1>4, <2>3 DEF IsLast
      <4>2. CASE k = j
        BY <2>3, <4>1, <4>2 DEF InPlace
      <4>3. CASE k # j
        BY <1>0, <2>2, <4>3 DEF HandlerInv, InPlace, IsLast
      <4> QED
        BY <4>2, <4>3
    <3>2. /\ AwaitedOrGivenUp(k)' /\ ActiveRuns(k)'
          /\ ApprovalIsAccepted(k)' /\ QuestionNamed(k)'
      BY <1>0, <2>2, <2>3 DEF HandlerInv, AwaitedOrGivenUp, ActiveRuns, ApprovalIsAccepted,
         QuestionNamed
    <3>3. RecordedSoFar(k)'
      <4>1. CASE k = j
        <5> SUFFICES ASSUME active = j, NEW n \in 1..tools[j].action
                     PROVE  AuditOf(j, n) \in audit'
          <6>1. tools'[j].action - 1 = tools[j].action
            BY <1>1, <2>3
          <6> QED
            BY <1>0, <4>1, <6>1 DEF RecordedSoFar, AuditOf
        <5>1. CASE n = tools[j].action
          BY <2>6, <5>1
        <5>2. CASE n # tools[j].action
          <6>1. n \in 1..(tools[j].action - 1)
            BY <1>1, <5>2
          <6> QED
            BY <1>0, <2>4, <6>1 DEF HandlerInv, RecordedSoFar
        <5> QED
          BY <5>1, <5>2
      <4>2. CASE k # j
        BY <1>0, <2>2, <2>4, <4>2 DEF HandlerInv, RecordedSoFar, AuditOf
      <4> QED
        BY <4>1, <4>2
    <3> QED
      BY <3>1, <3>2, <3>3 DEF HandlerInv
  <2>8. RunsOnlyIfAccepted'
    BY <1>0, <2>2, <2>3 DEF RunsOnlyIfAccepted, Act, NoStrayHandler
  <2>9. CompletedIsAudited'
    BY <1>0, <2>4 DEF CompletedIsAudited
  <2> QED
    BY <1>2, <2>5, <2>7, <2>8, <2>9 DEF BridgeInv
<1> QED
  BY <1>3, <1>4

LEMMA AcceptInv ==
  ASSUME BridgeInv, NEW j \in Jobs, Accept(j)
  PROVE  BridgeInv'
<1>0. /\ BridgeTyped /\ \A k \in Jobs : HandlerInv(k)
      /\ NothingLeftBehind /\ RunsOnlyIfAccepted /\ QuestionIsOwn /\ CompletedIsAudited
      /\ jobs[j] \in JobRecords /\ accepted[j] \subseteq Summaries
  BY DEF BridgeInv, BridgeTyped
<1>1. /\ jobs' = [jobs EXCEPT ![j] = [jobs[j] EXCEPT !.state = "queued",
                                                     !.approved = jobs[j].question]]
      /\ accepted' = [accepted EXCEPT ![j] = accepted[j] \cup {jobs[j].question}]
      /\ jobs[j].state = "asked"
      /\ UNCHANGED <<active, requested, tools, audit, effects>>
  BY DEF Accept
<1>2. /\ jobs'[j] = [jobs[j] EXCEPT !.state = "queued", !.approved = jobs[j].question]
      /\ accepted'[j] = accepted[j] \cup {jobs[j].question}
      /\ \A k \in Jobs \ {j} : jobs'[k] = jobs[k] /\ accepted'[k] = accepted[k]
  BY <1>0, <1>1 DEF BridgeTyped
<1>3. /\ jobs'[j] \in JobRecords /\ jobs'[j].state = "queued"
      /\ jobs'[j].approved = jobs[j].question
  BY <1>0, <1>2 DEF JobRecords
<1>4. jobs[j].question \in Summaries
  <2>1. jobs[j].question # ""
    BY <1>0, <1>1 DEF HandlerInv, QuestionNamed
  <2> QED
    BY <1>0, <2>1 DEF JobRecords
<1>5. BridgeTyped'
  BY <1>0, <1>1, <1>3, <1>4 DEF BridgeTyped
<1>6. NoStrayHandler' => NoStrayHandler
  <2>1. \A k \in Jobs : jobs[k].state = "aborted" => jobs'[k].state = "aborted"
    BY <1>1, <1>2
  <2> QED
    BY <2>1, StrayStays
<1>7. ASSUME NEW k \in Jobs PROVE HandlerInv(k)'
  <2>1. CASE k = j
    <3>1. InPlace(j)' /\ RecordedSoFar(j)'
      BY <1>0, <1>1 DEF HandlerInv, InPlace, IsLast, RecordedSoFar, AuditOf
    <3>2. AwaitedOrGivenUp(j)' /\ ActiveRuns(j)'
      BY <1>0, <1>1 DEF HandlerInv, AwaitedOrGivenUp, ActiveRuns
    <3>3. ApprovalIsAccepted(j)' /\ QuestionNamed(j)'
      BY <1>2, <1>3 DEF ApprovalIsAccepted, QuestionNamed
    <3> QED
      BY <2>1, <3>1, <3>2, <3>3 DEF HandlerInv
  <2>2. CASE k # j
    BY <1>0, <1>1, <1>2, <2>2 DEF HandlerInv, InPlace, IsLast, AwaitedOrGivenUp,
       RecordedSoFar, ActiveRuns, ApprovalIsAccepted, QuestionNamed
  <2> QED
    BY <2>1, <2>2
<1>8. RunsOnlyIfAccepted'
  <2> SUFFICES ASSUME NEW k \in Jobs, tools[k].at = "operate", Act(k).decision = "prompt"
               PROVE  \E i \in Jobs : /\ Act(k).summary \in accepted'[i]
                                      /\ NoStrayHandler' => i = k
    BY <1>1 DEF RunsOnlyIfAccepted, Act
  <2>1. PICK i \in Jobs : Act(k).summary \in accepted[i] /\ (NoStrayHandler => i = k)
    BY <1>0 DEF RunsOnlyIfAccepted
  <2>2. accepted[i] \subseteq accepted'[i]
    BY <1>2
  <2> QED
    BY <1>6, <2>1, <2>2
<1>9. ASSUME NEW k \in Jobs, jobs'[k].state \in {"asked", "completed"}
      PROVE  jobs'[k] = jobs[k]
  BY <1>2, <1>3, <1>9
<1>10. NothingLeftBehind' /\ QuestionIsOwn'
  <2>1. NothingLeftBehind'
    BY <1>0, <1>1, <1>6 DEF NothingLeftBehind
  <2>2. QuestionIsOwn'
    <3> SUFFICES ASSUME NEW k \in Jobs, NoStrayHandler', jobs'[k].state = "asked"
                 PROVE  Own(k, jobs'[k].question)
      BY DEF QuestionIsOwn, Own
    <3> QED
      BY <1>0, <1>6, <1>9 DEF QuestionIsOwn, Own
  <2> QED
    BY <2>1, <2>2
<1>11. CompletedIsAudited'
  <2> SUFFICES ASSUME NEW k \in Jobs, jobs'[k].state = "completed",
                      NEW n \in 1..Len(Actions[k])
               PROVE  AuditOf(k, n) \in audit
    BY <1>1 DEF CompletedIsAudited, AuditOf
  <2> QED
    BY <1>0, <1>9 DEF CompletedIsAudited, AuditOf
<1> QED
  BY <1>5, <1>7, <1>8, <1>10, <1>11 DEF BridgeInv

LEMMA DeclineInv ==
  ASSUME BridgeInv, NEW j \in Jobs, Decline(j)
  PROVE  BridgeInv'
<1>0. /\ BridgeTyped /\ \A k \in Jobs : HandlerInv(k)
      /\ NothingLeftBehind /\ RunsOnlyIfAccepted /\ QuestionIsOwn /\ CompletedIsAudited
      /\ jobs[j] \in JobRecords
  BY DEF BridgeInv, BridgeTyped
<1>1. /\ jobs' = [jobs EXCEPT ![j] = [jobs[j] EXCEPT !.state = "failed"]]
      /\ jobs[j].state = "asked"
      /\ UNCHANGED <<active, requested, tools, audit, effects, accepted>>
  BY DEF Decline
<1>2. /\ jobs'[j] = [jobs[j] EXCEPT !.state = "failed"]
      /\ \A k \in Jobs \ {j} : jobs'[k] = jobs[k]
  BY <1>0, <1>1 DEF BridgeTyped
<1>3. /\ jobs'[j] \in JobRecords /\ jobs'[j].state = "failed"
      /\ jobs'[j].approved = jobs[j].approved
  BY <1>0, <1>2 DEF JobRecords, JobsDone
<1>4. BridgeTyped'
  BY <1>0, <1>1, <1>3 DEF BridgeTyped
<1>5. NoStrayHandler' => NoStrayHandler
  <2>1. \A k \in Jobs : jobs[k].state = "aborted" => jobs'[k].state = "aborted"
    BY <1>1, <1>2
  <2> QED
    BY <2>1, StrayStays
<1>6. ASSUME NEW k \in Jobs PROVE HandlerInv(k)'
  BY <1>0, <1>1, <1>2, <1>3 DEF HandlerInv, InPlace, IsLast, AwaitedOrGivenUp,
     RecordedSoFar, ActiveRuns, ApprovalIsAccepted, QuestionNamed, AuditOf
<1>7. NothingLeftBehind' /\ RunsOnlyIfAccepted'
  BY <1>0, <1>1, <1>5 DEF NothingLeftBehind, RunsOnlyIfAccepted, Act
<1>8. ASSUME NEW k \in Jobs, jobs'[k].state \in {"asked", "completed"}
      PROVE  jobs'[k] = jobs[k]
  BY <1>2, <1>3, <1>8
<1>9. QuestionIsOwn'
  <2> SUFFICES ASSUME NEW k \in Jobs, NoStrayHandler', jobs'[k].state = "asked"
               PROVE  Own(k, jobs'[k].question)
    BY DEF QuestionIsOwn, Own
  <2> QED
    BY <1>0, <1>5, <1>8 DEF QuestionIsOwn, Own
<1>10. CompletedIsAudited'
  <2> SUFFICES ASSUME NEW k \in Jobs, jobs'[k].state = "completed",
                      NEW n \in 1..Len(Actions[k])
               PROVE  AuditOf(k, n) \in audit
    BY <1>1 DEF CompletedIsAudited, AuditOf
  <2> QED
    BY <1>0, <1>8 DEF CompletedIsAudited, AuditOf
<1> QED
  BY <1>4, <1>6, <1>7, <1>9, <1>10 DEF BridgeInv

-----------------------------------------------------------------------------
(* The theorems *)

LEMMA BridgeInitInv == Init => BridgeInv
<1> SUFFICES ASSUME Init PROVE BridgeInv
  OBVIOUS
<1>1. [state |-> "queued", approved |-> "", question |-> ""] \in JobRecords
  BY DEF JobRecords
<1>2. Stopped \in Handlers /\ Stopped.at = "none" /\ Stopped.action = 0
  BY DEF Handlers, Stopped
<1>3. \A j \in Jobs : /\ jobs[j].state = "queued" /\ jobs[j].approved = ""
                      /\ tools[j].at = "none" /\ tools[j].action = 0
  BY <1>2 DEF Init
<1>4. BridgeTyped
  <2>1. 0 \in 0..MaxEffects
    BY BoundAssumption
  <2>2. effects \in [Jobs -> 0..MaxEffects] /\ accepted \in [Jobs -> SUBSET Summaries]
    BY <2>1 DEF Init
  <2>3. jobs \in [Jobs -> JobRecords] /\ tools \in [Jobs -> Handlers]
    BY <1>1, <1>2 DEF Init
  <2> QED
    BY <2>2, <2>3 DEF Init, BridgeTyped
<1>5. ASSUME NEW j \in Jobs PROVE HandlerInv(j)
  BY <1>3, ActionsAssumption DEF Init, HandlerInv, InPlace, AwaitedOrGivenUp, RecordedSoFar,
     ActiveRuns, ApprovalIsAccepted, QuestionNamed
<1>6. NothingLeftBehind /\ RunsOnlyIfAccepted /\ QuestionIsOwn /\ CompletedIsAudited
  BY <1>3 DEF Init, NothingLeftBehind, RunsOnlyIfAccepted, QuestionIsOwn, CompletedIsAudited
<1> QED
  BY <1>4, <1>5, <1>6 DEF BridgeInv

LEMMA BridgeStutterInv == ASSUME BridgeInv, UNCHANGED vars PROVE BridgeInv'
<1>1. /\ jobs' = jobs /\ active' = active /\ requested' = requested /\ tools' = tools
      /\ audit' = audit /\ effects' = effects /\ accepted' = accepted
  BY DEF vars
<1> QED
  BY <1>1 DEF BridgeInv, BridgeTyped, HandlerInv, InPlace, IsLast, AwaitedOrGivenUp,
     RecordedSoFar, ActiveRuns, ApprovalIsAccepted, QuestionNamed, NothingLeftBehind,
     RunsOnlyIfAccepted, QuestionIsOwn, CompletedIsAudited, NoStrayHandler, Act, AuditOf

LEMMA BridgeNextInv == BridgeInv /\ [Next]_vars => BridgeInv'
<1> SUFFICES ASSUME BridgeInv, [Next]_vars PROVE BridgeInv'
  OBVIOUS
<1>1. CASE Abort \/ TimeOut
  BY <1>1, GiveUpInv DEF Abort, TimeOut
<1>2. ASSUME NEW j \in Jobs,
             \/ Execute(j) \/ WindowFound(j) \/ AuthorizeGranted(j) \/ OperationSucceeds(j)
             \/ Accept(j) \/ Decline(j)
      PROVE  BridgeInv'
  BY <1>2, ExecuteInv, WindowFoundInv, AuthorizeGrantedInv, OperationSucceedsInv, AcceptInv,
     DeclineInv
<1>3. CASE UNCHANGED vars
  BY <1>3, BridgeStutterInv
<1> QED
  BY <1>1, <1>2, <1>3, EndsInv DEF Next

\* The inductive invariant: where handlers are, who awaits them, what is asked
\* on whose behalf and what has been recorded.
THEOREM BridgeInvariant == Spec => []BridgeInv
<1> QED
  BY BridgeInitInv, BridgeNextInv, PTL DEF Spec

\* Jobs, handlers, questions and audit records stay well typed (bridge.ts,
\* runtime.ts).
THEOREM BridgeTypeCorrect == Spec => []BridgeTypeOK
<1>1. BridgeInv => BridgeTypeOK
  <2> SUFFICES ASSUME BridgeInv, NEW j \in Jobs
               PROVE  /\ tools[j].at \in {"none", "window", "authorize", "operate"}
                      /\ tools[j].action \in 0..Len(Actions[j])
    BY DEF BridgeInv, BridgeTyped, BridgeTypeOK, JobRecords, AuditRecords
  <2>1. tools[j] \in Handlers /\ InPlace(j)
    BY DEF BridgeInv, BridgeTyped, HandlerInv
  <2> QED
    BY <2>1, ActionsFinite DEF Handlers, InPlace
<1> QED
  BY <1>1, BridgeInvariant, PTL

\* A prompted action runs only on the user's word for exactly its summary, and
\* for its own job unless a handler has outlived its call (authorized,
\* approvalHandler).
THEOREM PromptedRunsOnlyIfAccepted == Spec => []RunsOnlyIfAccepted
<1>1. BridgeInv => RunsOnlyIfAccepted
  BY DEF BridgeInv
<1> QED
  BY <1>1, BridgeInvariant, PTL

\* The user is asked about a job only what its tool wants to do (requestedSummary).
THEOREM AskedForItsOwn == Spec => []QuestionIsOwn
<1>1. BridgeInv => QuestionIsOwn
  BY DEF BridgeInv
<1> QED
  BY <1>1, BridgeInvariant, PTL

\* A completed job's actions are all in the audit under its own id (authorized,
\* audit.record).
THEOREM CompletedLeavesItsTrail == Spec => []CompletedIsAudited
<1>1. BridgeInv => CompletedIsAudited
  BY DEF BridgeInv
<1> QED
  BY <1>1, BridgeInvariant, PTL
=============================================================================
