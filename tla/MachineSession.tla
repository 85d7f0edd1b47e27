--------------------------- MODULE MachineSession ---------------------------
(***************************************************************************)
(* A tool call under the policy: a call of the catalog becomes a job, the  *)
(* worker runs its handler, the handler asks the policy that is in force   *)
(* at that moment, the user answers, the worker runs the handler again.    *)
(* Meanwhile the user edits the configuration or switches its profile,     *)
(* files come and go, leases are lost and the worker restarts.             *)
(*                                                                         *)
(* One job at a time, as the worker takes them; how rows and replies       *)
(* travel is the subject of RelaySystem, handlers that outlive their call  *)
(* that of ToolBridge.                                                     *)
(***************************************************************************)
EXTENDS PolicyConfig, DefaultProfiles, ToolActions

CONSTANTS
  Calls,     \* what ChatGPT may call, as [tool, args]
  Apps       \* the executable of each window

VARIABLES
  job,       \* the job the worker has, or had last
  exists     \* whether there is a file under the path a call would create

sessionVars == <<vars, job, exists>>

\* What a handler finds when it is authorised.
Circumstances == [mode : {"strict", "policy-only"}, exists : BOOLEAN]
Found == [mode |-> running.profiles[running.activeProfile].processMode, exists |-> exists]

Args == Parsed(job.call.tool, job.call.args)
ActionsIn(found) == Actions(job.call.tool, Args, found.mode, found.exists, Apps)
Summaries(found) == {action.summary : action \in Range(ActionsIn(found))}

NewJob(call) ==
  [phase |-> "queued", call |-> call,
   question |-> None,      \* the summary last asked, and what the handler found then
   asked |-> [mode |-> "strict", exists |-> FALSE],
   approved |-> None,      \* the summary the user accepted
   spent |-> FALSE,        \* its ticket was consumed, or forgotten in a restart
   found |-> [mode |-> "strict", exists |-> FALSE],   \* at the last authorisation,
   under |-> "",           \* and the profile, "edited" if not as it was shipped
   onWord |-> FALSE,       \* whether it operates on the user's word
   effects |-> 0]          \* history: operations that changed something

SessionInit ==
  /\ Init
  /\ exists \in BOOLEAN
  /\ \E call \in Calls : job = [NewJob(call) EXCEPT !.phase = "ended"]

SessionTypeOK ==
  /\ ConfigTypeOK
  /\ exists \in BOOLEAN
  /\ job.phase \in {"queued", "handling", "operating", "asked", "ended"} /\ job.call \in Calls
  /\ job.question = None \/ job.question \in Summaries(job.asked)
  /\ job.approved = None \/ \E found \in Circumstances : job.approved \in Summaries(found)
  /\ job.spent \in BOOLEAN
  /\ job.asked \in Circumstances /\ job.found \in Circumstances
  /\ job.under \in ProfileNames \cup {"", "edited"}
  /\ job.onWord \in BOOLEAN
  /\ job.effects \in 0..2

-----------------------------------------------------------------------------
(* The relay *)

\* beginCall: only calls that validate become jobs.
BeginCall(call) ==
  /\ job.phase = "ended"
  /\ Validates(call.tool, call.args)
  /\ job' = NewJob(call)
  /\ UNCHANGED <<vars, exists>>

\* Only the first question of a job is shown (relay.ts:78).
Accept ==
  /\ job.phase = "asked" /\ job.approved = None
  /\ job' = [job EXCEPT !.phase = "queued", !.approved = job.question]
  /\ UNCHANGED <<vars, exists>>

\* The user declines, or the job expires.
GiveUp ==
  /\ job.phase \in {"queued", "asked"}
  /\ job' = [job EXCEPT !.phase = "ended"]
  /\ UNCHANGED <<vars, exists>>

\* The sweep: a call that only reads is handed out again.
Requeued(j) == [j EXCEPT !.phase = IF ReadOnly(j.call.tool) THEN "queued" ELSE "ended"]

-----------------------------------------------------------------------------
(* The worker *)

\* handle: a ticket is consumed before the handler starts.
StartHandler ==
  /\ WorkerFree
  /\ job.phase = "queued" /\ (job.approved # None => ~job.spent)
  /\ job' = [job EXCEPT !.phase = "handling", !.spent = job.approved # None]
  /\ UNCHANGED <<vars, exists>>

\* A ticket that is unknown, used or, at some time or other, expired.
RejectTicket ==
  /\ WorkerFree
  /\ job.phase = "queued" /\ job.approved # None
  /\ job' = [job EXCEPT !.phase = "ended"]
  /\ UNCHANGED <<vars, exists>>

OnWord(action) ==
  Decision(action.request) = "prompt" /\ job.approved # None /\ action.summary = job.approved

Verdict(action) == IF OnWord(action) THEN "allow" ELSE Decision(action.request)

ActiveAsShipped ==
  IF running.activeProfile \in DOMAIN DefaultConfig.profiles
       /\ Active = DefaultConfig.profiles[running.activeProfile]
  THEN running.activeProfile ELSE "edited"

\* authorized, action by action, within one turn of the event loop.
Authorize ==
  LET actions == ActionsIn(Found)
      stops == {n \in DOMAIN actions : Verdict(actions[n]) # "allow"}
      first == CHOOSE n \in stops : \A m \in stops : n <= m
      now == [job EXCEPT !.found = Found, !.under = ActiveAsShipped]
  IN
  /\ WorkerFree
  /\ job.phase = "handling"
  /\ \/ /\ stops = {}
        /\ job' = [now EXCEPT !.phase = "operating",
                              !.onWord = actions # <<>> /\ OnWord(actions[Len(actions)])]
     \/ /\ stops # {} /\ Verdict(actions[first]) = "deny"
        /\ job' = [now EXCEPT !.phase = "ended"]
     \/ /\ stops # {} /\ Verdict(actions[first]) = "prompt"
        /\ job' = [now EXCEPT !.phase = "asked", !.question = actions[first].summary,
                              !.asked = Found, !.spent = FALSE]
  /\ UNCHANGED <<vars, exists>>

\* A strict interactive session is refused.
CanOperate ==
  ~(job.call.tool = "process_start" /\ ActualMode(Args.mode, job.found.mode) = "strict")

Operated == IF Changes(ActionsIn(job.found)) THEN job.effects + 1 ELSE job.effects

Operate ==
  /\ WorkerFree
  /\ job.phase = "operating" /\ CanOperate
  /\ job' = [job EXCEPT !.phase = "ended", !.effects = Operated]
  /\ \E e \in BOOLEAN : (e # exists => Changes(ActionsIn(job.found))) /\ exists' = e
  /\ UNCHANGED vars

OperationFails ==
  /\ WorkerFree
  /\ job.phase \in {"handling", "operating"}
  /\ job' = [job EXCEPT !.phase = "ended"]
  /\ UNCHANGED <<vars, exists>>

\* The handler is cut off: whether it operated nobody knows.
CutOff ==
  \/ job.phase \in {"handling", "operating"} /\ job' = Requeued(job)
  \/ /\ job.phase = "operating" /\ CanOperate
     /\ job' = Requeued([job EXCEPT !.effects = Operated])

\* Its lease ends, or its reply is lost.
LoseLease == CutOff /\ UNCHANGED <<vars, exists>>

\* Tickets are forgotten, and so is a handler.
WorkerRestarts ==
  /\ Restart
  /\ \/ CutOff
     \/ job.phase \in {"queued", "asked"} /\ job' = [job EXCEPT !.spent = TRUE]
     \/ job.phase = "ended" /\ UNCHANGED job
  /\ UNCHANGED exists

-----------------------------------------------------------------------------
(* The user and other programs *)

EditConfig ==
  /\ \/ LoadPage
     \/ SavePage
     \/ \E p \in Names : Activate(p) \/ CliProfile(p)
     \/ \E w \in Processes : OpenTemporary(w) \/ FillTemporary(w) \/ Rename(w) \/ WriteThrows(w)
  /\ UNCHANGED <<job, exists>>

OtherProgram == exists' = ~exists /\ UNCHANGED <<vars, job>>

SessionNext ==
  \/ \E call \in Calls : BeginCall(call)
  \/ Accept
  \/ GiveUp
  \/ StartHandler
  \/ RejectTicket
  \/ Authorize
  \/ Operate
  \/ OperationFails
  \/ LoseLease
  \/ WorkerRestarts
  \/ EditConfig
  \/ OtherProgram

SessionSpec == SessionInit /\ [][SessionNext]_sessionVars

-----------------------------------------------------------------------------
(* Correctness *)

\* Arguments a tool does not take pass the catalog, and no handler reads them.
PathArguments(tool) == WorkerToolCatalog[tool].required \cap {"path", "source", "destination"}
WorkspaceOnly(tool, args) == \A k \in PathArguments(tool) : PathContains(Workspace, args[k])

\* What the description of each profile lets a call do unasked
\* (default-config.ts).  Status counts as inspection, with the output of
\* processes that process_poll returns.
Unasked(profile, tool, args, mode) ==
  CASE profile = "confirm-all" ->
         tool \in DOMAIN InspectionTools
                  \cup {"process_poll", "process_list", "desktop_status", "desktop_list_windows"}
    [] profile = "confirm-mutations" ->
         ReadOnly(tool) /\ tool # "file_export" /\ WorkspaceOnly(tool, args)
    [] profile = "mostly-unattended" ->
         /\ tool \notin {"fs_delete", "fs_move"} /\ WorkspaceOnly(tool, args)
         /\ tool \in {"process_run", "process_start"} => ActualMode(args.mode, mode) = "strict"
         /\ tool \notin {"process_stdin", "process_terminate"} \cup DOMAIN ClipboardTools
         /\ tool = "desktop_capture" => "window_id" \in DOMAIN args
         /\ tool \in WindowTools \cup {"desktop_capture"} => Apps[args.window_id] \in Basics
         /\ tool = "desktop_launch" => args.executable \in Basics
    [] profile = "yolo" -> TRUE

\* A profile as it was shipped keeps the word of its description, whatever
\* it was switched from and whichever rules, defaults and order of asking a
\* tool meets: nothing else runs without a question, and "yolo" asks none.
ProfileKeepsItsWord ==
  /\ job.phase = "operating" /\ job.approved = None /\ job.under # "edited" =>
       Unasked(job.under, job.call.tool, Args, job.found.mode)
  /\ job.phase = "asked" => job.under # "yolo"

\* What the relay hands out again, going by the catalog, changed nothing the
\* first time, going by what the worker's tools do.
RerunIsHarmless == job.effects <= 1

\* What runs on the user's word is what the user was asked about, though the
\* profile was switched or the file came into being between question and run:
\* a process runs in that mode, a text replaces a file only if that was said.
AcceptedIsWhatRuns ==
  job.phase = "operating" /\ job.onWord =>
    /\ job.call.tool \in {"process_run", "process_start"} =>
         ActualMode(Args.mode, job.found.mode) = ActualMode(Args.mode, job.asked.mode)
    /\ job.call.tool = "fs_write" => job.found.exists = job.asked.exists
=============================================================================
