# Verification of Mcp-worker

Mcp-worker lets ChatGPT operate one Windows machine. A public *relay* (`src/src/remote`)
offers MCP tools, keeps each tool call as a *job* in SQLite and waits for its outcome. A
*worker* on the machine (`src/src/worker`, with the tools of `src/packages/windows-worker`)
polls the relay over HTTPS, executes one job at a time under a local policy and posts the
outcome back. This directory holds TLA+ models of both, the configurations TLC checks them
with and proofs for TLAPS. `PROJECT.json` maps every definition to the lines it models.

## 1. The system's parts

**Jobs table** (`store.ts`). State: the rows of `jobs`. Operations: `createJob`, `lease`
(which sweeps first), `submitReply`, `resumeApproval`, `cancel` and the timer's `sweep`.
Each runs within one turn of the relay's event loop. Hard: late and repeated replies, leases
that run out while the job runs, expiries that meet answers, several question rounds. Correct
when a mutation runs again only on the user's word and the first answer stays.

**Relay service and MCP handlers** (`relay.ts`, `mcp.ts`, `app.ts`, `server.ts`). State: the
waits of open calls, in memory. `beginCall` and `resumeCall` write a row and poll it every
100 ms until it ends, asks or the request is aborted. Hard: an abort between two waits, a
second question, a restart with open waits. Correct when what a caller is told agrees with
the row, and with what happened on the machine.

**Worker loop** (`client.ts`, `worker/policy.ts`). State: the current job, tickets of asked
questions (in memory), the time of the next heartbeat, failures in a row. Beat, poll, execute,
upload, post; a watcher asks for the job's state and aborts it. Hard: requests and responses get
lost separately, the process dies at any point, and one loop does everything, so that nothing
beats while it handles a job or waits after an error.

**Relay database** (`migrations.ts`, `server.ts`). State: the tables, `schema_migrations`. A relay
that starts reads which migrations were applied and applies the others, each in a transaction.
Hard: two relays start at once, of different releases, and die between two statements. Correct
when the database is at exactly one version.

**Tool bridge and approval** (`bridge.ts`, `runtime.ts`, `audit.ts`). `execute` calls a tool
over an in-process MCP connection; `authorized` asks the policy, perhaps the user, performs
the operation and records it. `approvalHandler` and `correlationId` are fields of the one
`Runtime`. Hard: the call of an aborted job returns at once while its handler runs on and
meets those fields as the next job left them.

**Transfers** (`file_export`, `uploadExports`, the chunk endpoint, `appendTransferChunk`,
`sweepTransfers`). State: the worker's copy and row, the relay's files and rows. Hard: file
and row are written one after the other and the relay may die between; replies get lost; the
exported file changes while it is measured and copied.

**File tools** (`file-tools.ts`, `transfer.ts`). Handlers give up the event loop where they
hash or download. Hard: handlers of aborted calls and other programs change the file between a
check and its use; a call throws or the worker dies half way.

**Process tools and native helper** (`process-tools.ts`, `native-client.ts`, the C# helper).
State: sessions with output chunks, promises with timers and signals. Hard: output, exit,
timer, signal and polls come in any order; the limit cuts characters.

**Policy and configuration** (`policy.ts`, `path-policy.ts`, `config.ts`, `admin.ts`,
`cli.ts`). `evaluatePolicy` is a pure function; its rules come from a file that a local page
and a command rewrite. Hard: the order of rules by specificity; deaths while writing.

**Tools, profiles and jobs** (`tool-catalog.ts`, `default-config.ts`, and the calls of
`authorized` in `server.ts`, `file-tools.ts`, `process-tools.ts`, `desktop-tools.ts`). The catalog
says which arguments a tool has and whether it only reads, which decides if the relay hands a
lost call out again; each handler says which permissions it asks for, with which subject and
summary; a shipped profile says what is allowed. No state, but four places that must agree, and a
handler that runs twice, before and after the question, on a machine and a policy that change in
between. Correct when a profile lets through what its description says, a call handed out again
has changed nothing, and what runs on the user's word is what the user was asked about.

Other parts, not modelled, are listed in section 7.

They interact as follows: an MCP request becomes a row; the worker's poll leases it and its
reply answers it; the executor of the worker calls a tool through the bridge; the tool asks
the policy and, where that prompts, comes back with a question, which the relay shows to the
user; the user's answer returns through the row and the next lease. Exports travel as
transfers beside the rows.

## 2. Modules

| Module | Models | Extends |
|---|---|---|
| `JobContract` | what the relay promises of one job (abstract) | |
| `RelayStore` | the jobs table under any caller | |
| `RelaySystem` | calls, table, worker, network, crashes | `RelayStore` |
| `ToolBridge` | execute, authorized, the audit, handlers that outlive their call | |
| `Transfers` | an export from file to resource | |
| `FileTools` | the tools that change files, step by step | |
| `NativeCall` | a request to the native helper | |
| `ProcessTools` | processes, sessions, polls | `NativeCall` |
| `Policy` | evaluatePolicy and the matching of paths | |
| `PolicyConfig` | the configuration file, the page, the command, the worker's copy | `Policy` |
| `ToolCatalog` | the 32 tools: hints, required arguments, defaults | |
| `ToolActions` | what each handler asks permission for, in order | `ToolCatalog` |
| `DefaultProfiles` | the four shipped profiles | |
| `MachineSession` | a call as a job under policy, profiles, handlers and a changing machine | `PolicyConfig`, `DefaultProfiles`, `ToolActions` |
| `Migrations` | relays of any release that open, migrate and serve one database | |
| `WorkerPresence` | heartbeats, polls, jobs, errors and restarts in time | `Migrations` |
| `RelayStoreProofs` | theorems about the table | `RelayStore` |
| `SystemProofs` | theorems about relay, worker and network | `RelaySystem`, `RelayStoreProofs` |
| `BridgeProofs` | theorems about the bridge | `ToolBridge` |
| `TransferProofs` | theorems about exports | `Transfers` |
| `FileProofs` | theorems about the file tools | `FileTools` |
| `SessionProofs` | theorems about configuration, policy and the jobs under them | `MachineSession` |
| `ProcessProofs` | theorems about processes, their sessions and the helper | `ProcessTools` |
| `PresenceProofs` | theorems about migrations and presence | `WorkerPresence` |

`MC*.tla` define the constants of the runs. Definitions marked "Slip" are mistakes the code
could plausibly have in place of the definition that follows; each property was seen to fail
with one of them.

**RelayStore.** `jobs[j]` is a row. Each method of the store is one action or, where a loop
or a caller surrounds it, an operator on rows (`Swept`, `Leased`, `Cancelled`). Tokens and tickets
are numbered by the attempt that drew them: they are unique random values in the code. A request
is reduced to its hash, a result to a body. The caller is anybody: a reply may carry the token
of any lease the job ever had, any hash, and come any number of times; the clock only moves
forward. `granted` remembers which tickets were accepted.

**RelaySystem** adds `calls` (the wait of each MCP request), `worker` (the phase of `handle`),
`tickets` and `net`, the posted replies that may still arrive. Lost responses are `Deliver`
with a worker that does not learn of it, lost requests are `Lose`, a response lost after
the poll leased a row is a `Poll` the worker does not start. `SubmitThrows` is the catch of
the try around the submission. `effects` counts what happened on the machine.
Whether the worker is online is left open (`BeginOffline` may happen at any time). A call that is
aborted, or that lasts longer than the MCP client's 60 s, ends before its handler (`AbortExecution`,
`ExecutionTimesOut`): the handler becomes one of `strays`, which awaits its window or operates while the
worker goes on to the next job. A stray that finds its window asks the approval handler it then meets
(`Approves`): the next job's acceptance may permit it (`StrayPermitted`), or its question comes back as
the next job's, whatever that job has done (`StrayAsks`, `ExecutionCrossed`). `asked` remembers what a
ticket was about and whose handler had asked.

**ToolBridge.** A tool is a sequence of authorised actions, as `fs_move` (two) or `process_run`
(network, then the process); a desktop tool first waits for the helper. Between two waits of a
handler nothing else happens (`Settled`). `active` stands for both fields of the Runtime.
A call ends before its handler when its signal aborts (`Abort`) or at the client's own limit (`TimeOut`).
A record of the audit that cannot be written makes `authorized` throw. `Accept` is the way over
the relay and back; a job's second question is not shown to the user (`relay.ts:78`).

**Transfers.** A file is the sequence of its blocks and is its own hash. The relay's operations
are sequences of disk writes of which a death keeps a prefix.

**FileTools.** A file is the sequence of the texts that went into it. An action is one turn of
the event loop or one synchronous call in it; `Turn` keeps handlers from interrupting each other
within a turn, `Edit` (another program) and `Die` are always possible, and every synchronous
call may throw. `overtaken` holds the calls whose file another program changed between their last look
and their rename. After it, `fs_write` and `fs_replace` hash the result, which may fail (`Rehash`).

**ProcessTools, NativeCall.** Every event of a child (data, exit), of a timer or a signal is an
action. Bytes are letters, "h" and "t" together one character; decoding a half gives three bytes.
Events that nobody listens to end the worker (`up`). Strict calls go to the helper,
which performs them, writes one line and exits, or is killed.

**Policy, PolicyConfig.** Paths are sequences of names with their lengths; tool patterns are the
set of tools they match and their number of literal characters. `writeConfigAtomic` is three steps,
each of which may be the last.

**ToolCatalog, ToolActions, DefaultProfiles.** Tables and functions translated tool by tool and
rule by rule. A tool's arguments are those that a permission, a summary or the relay depends on; of
a schema the model keeps what is required and what is filled in. An action is a capability with a
subject, and the summary, which is all that `bridge.ts:57` compares. `Changes` says whether the
operation under the last permission changes anything, by the capability and not by the catalog's
hint, so that the two can be compared.

**MachineSession.** One job passes through relay, worker and policy (`BeginCall`, `StartHandler`,
`Authorize`, `Operate`, `Accept`) while `EditConfig`, `OtherProgram`, `LoseLease` and
`WorkerRestarts` are always possible. `Authorize` evaluates the configuration in force and the
machine as found at that moment; a question is answered by running the handler again. It composes
what the other modules have apart: the rows and replies are `RelaySystem`'s, handlers that outlive
their call `ToolBridge`'s, the configuration `PolicyConfig`'s (every step of the session is a step
of that module or leaves it alone, which is proved).

**Migrations.** Every statement is a step, every process may die or throw between two (`Dies`), a
release is the number of migrations it knows. `draft` is what the open write transaction sees. SQLite
is taken at its word: one writer at a time, uncommitted changes vanish.

**WorkerPresence.** Discrete time, measured backwards from now. `Longest` is how long the loop can
stay where it is; `Tick` waits for it. `excuse` is history: for how much of the silence the worker
had a job, a failing request, a wait after an error or no process. The relay serves exactly while
one of `Migrations` does, and everything asked of another one fails.

## 3. Runs

| Run | States | What it shows |
|---|---|---|
| `store_table` | 102,000 | Rows stay coherent (`RowsCoherent`); a mutation is handed out again only after an accepted question (`RerunAuthorised`); the approval a lease carries was given for that job (`ApprovalSentGranted`); an ended row never changes (`AnswerKept`); the table implements `JobContract` (`Contract`). |
| `system_pair` | 630,000 | A mutation, and a capture of a window whose handler may outlive its call and ask in the mutation's name, with a worker that crashes: a mutation takes effect again only in answer to another job's stray question (`AppliedAtMostOnce`), its row tells its effect (`RowTellsEffect`), and its caller is answered or asked (`MutationCallReturns`). |
| `shared_answer` | 1,930,000 | Two equal desktop mutations whose handlers outlive their calls, both processes crashing: none takes effect without the user's word on its summary, and on a word given for the other job only when it was itself given up as indeterminate (`AppliedOnlyIfConfirmed`); the question shown is the row's latest (`PromptIsCurrent`). |
| `bridge` | 279,000 | Nothing prompted runs unless its summary was accepted, and for its own job until a desktop call is aborted (`RunsOnlyIfAccepted`); until then questions belong to their job as well (`QuestionIsOwn`); a completed job is in the audit under its own id (`CompletedIsAudited`). |
| `transfers` | 85,000 | What is served is the export (`ServedIsTheExport`); finished uploads can be read, and files and rows belong together unless the relay died (`RowsMatchFiles`); uploads end and expired ones go (`UploadEnds`, `ExpiredGo`). |
| `files` | 294,000 | No file but the target of a copy is ever half written (`NeverTorn`); `fs_replace` adds to what other handlers made of the file since it was hashed, and `fs_write` has found the expected content before it writes (`BuildsOnTheFile`); imports are what was asked for (`ImportsTheExpected`). |
| `processes` | 101,000 | Polling loses and repeats nothing of what a session keeps (`PolledOnce`); calls given up have ended what they started, signals are heard, and the helper did what it said (`EndsAsReported`); every call ends (`RunEnds`). |
| `session` | 62,000 | The configuration can always be loaded (`FileCanBeLoaded`); a matching denial decides (`DenialDecides`); a shipped profile lets through what its description says (`ProfileKeepsItsWord`); what the relay hands out again changed nothing (`RerunIsHarmless`); what runs on the user's word is what the user was asked about (`AcceptedIsWhatRuns`). |
| `relay_life` | 1,090,000 | The database is at exactly one version whatever dies (`SchemaIsPrefix`); a serving relay has every table it knows (`ServesComplete`); the relay counts no silence the worker had no reason for (`SilenceIsAccounted`); when faults end and a relay serves for good, the worker is online for good (`ComesBack`). |

Each of them but `system_pair`, whose module `shared_answer` covers, also checks a type invariant.

Three runs refute a statement of the repository; TLC's counterexample is the finding.

| Run | Statement | What the code does |
|---|---|---|
| `lost_contact` | never a definite verdict where contact was lost (cloud-agent-handoff.md:51) | The catch around `submit` reports `failed` for a mutation that took effect. |
| `stuck_read` | every call is answered, with a timeout if need be (cloud-agent-handoff.md:37) | A read whose lease ends after its job stays leased for ever. |
| `asked_after_effect` | "A prompted action returns without executing" (architecture.md:16) | The handler of an aborted desktop call leaves its question with the next job, which has taken effect. |

The third has consequences in the whole system, which `AppliedAtMostOnce`, `AppliedOnlyIfConfirmed` and
`RowTellsEffect` name as their exceptions. TLC reaches each of them where the exception is taken away: a
mutation that took effect comes back with a stray's question, is accepted and takes effect a second
time, or ends as cancelled or expired all the same; and a job that was given up as indeterminate takes
effect on what the user accepted for another job that asked the same. The theorems say that nothing
else leads there.

Other disagreements are visible in the models but claimed by no run:

- A request aborted while the user is being asked is told CANCELLED, and its row, once accepted, runs
  all the same (`relay.ts:103`; `PROJECT.json` lists it as a hazard).
- `file-tools.ts:170` says "expected_sha256 prevents overwriting a changed file", and `:203` promises
  "optional SHA-256 concurrency protection". Neither holds for a change between the hash (`:187`, `:215`) and
  the rename (`:196`, `:228`). `fs_write` then overwrites what another handler or program wrote; `fs_replace`
  edits a text other than the one whose hash was compared, and overwrites what another program writes after
  its read (`:217`). `BuildsOnTheFile` claims only what is left.
- A write whose last hash (`:197`, `:229`) fails has taken effect and is reported as failed.
- The limit of a session's output is told by `truncated` in the reply of `process_run` alone
  (`process-tools.ts:202`), as of the exit. `process_poll` (`:241-248`) has no such field: a client that polls
  is not told that output was dropped, so `PolledOnce` speaks of what the session keeps.

## 4. Bounds, and why they are enough

- *Two jobs* in the system runs: one to be disturbed and one to disturb it, with the same
  request hash so that a mix-up of rows would show; a read that outlives its call beside a mutation that
  asks nothing, or two mutations that ask the same. The table's rows never depend on each other, but jobs
  meet in the worker; every safety property of these runs is proved for any number of jobs.
- *Attempts* 2 (`MaxAttempts`): a first run and a rerun after a question. A tool that asks a second
  question in a resumed wait is left to the proofs of the safety properties: `MutationCallReturns` was
  not checked with one. *Times*: a job lasts two ticks and a lease one, so a lease can end
  before, with and after its job; `CreateUntil` stops the creation of jobs. The clock runs to the
  last expiry and then stands still, which changes no state that is still open.
- *Bridge*: a tool for each shape of `authorized` (one question; a permission then a question; two
  questions; a denial) and one that waits for a window. `MaxEffects` counts to two, which is one
  too many. Longer tools and more jobs are covered by the proofs.
- *Transfers*: two exports of a few blocks, of different contents before and after the copy; a
  last chunk that is short; lifetimes within a clock of two ticks. The proofs take any number of
  exports of any contents, chunks of any size and any lifetime.
- *Files*: any three of nine calls (`MaxCalls`): one that is awaited and two that outlived
  theirs, on two paths with one change by another program (`MaxEdits`). All pairs of tools meet, but
  there is one import; any number of calls, paths and changes is the matter of the proofs.
- *Processes*: one session with four bytes of output against a limit of three that cuts a
  character, and one native call. They share nothing but the life of the worker; two of each
  only multiply the states. The proofs take any number of both, any output and any limit.
- *Session*: thirteen calls, at least one for each way a tool asks (a path inside and outside the
  workspace, two paths, a window of a basic and of another program, a process with and without
  network, a session, two calls that lack an argument, and defaults to fill in); one rule added or one
  switch of profile (`MaxWrites`), by the page or by the command, so that a job meets two
  configurations; a profile without the sandbox that prompts; a denial and a prompt that are more and
  less specific than the shipped rules. That more writes, rules and calls break none of the properties is
  proved.
- *Relay's life*: two relays, two migrations and two starts, so that an older and a newer release
  meet at every statement; two faults among failing requests, jobs and deaths. The times are small
  numbers in the order of the code's: a poll (25 s) is longer than the interval of heartbeats (15 s) and
  shorter than the time of a request, and the budget just fits the offline window. In the code it fits
  45 s only while the relay answers within about 1.6 s, and with `POLL_SECONDS=30` never: an idle worker
  then counts as offline for moments. `ComesBack` is checked where it fits; `SilenceIsAccounted` needs no
  such relation, but a silence beyond the budget is counted as one step, so that the run sees only
  an excess without an excuse. The proofs hold for any times (`IdleWorkerIsOnline` where the budget fits).

`CHECK_DEADLOCK FALSE` stands everywhere because finished systems stop: all jobs ended, the clock
at its bound.

## 5. Fairness

Assumed only of timers and loops the processes run by themselves: the clock and the sweep (every
minute, `server.ts:18`), the poll of a waiting call (`relay.ts:119`, every 100 ms, also on
a relay that restarted: then its waits are lost), timers of `process_run` and of native calls, and,
in `Transfers`, that the upload loop goes on and that a chunk request is answered or times out
(35 s). Nothing is assumed there of the user, the network, the worker's polling, processes or the
helper, so the liveness properties hold with all of them silent.

`ComesBack` needs more: that the worker's loop goes on and its requests end (every one has a
timeout, `client.ts`), that jobs end (`RunEnds` for processes and native calls; the rest is local
work), that a relay which serves handles a heartbeat it received, and that Windows starts a dead
worker again (`install-worker-task.ps1:19` has it restarted after a minute, 20 times, and the model
lets it die `MaxFaults` times). Nobody owes the start of a relay: the property
says what follows if one serves for good.

## 6. Proofs

`RelayStoreProofs` proves for any sets of jobs, hashes and bodies and any times (assumptions:
`JobsAssumption`, `HashAssumption`, `TimesAssumption`, `BodiesAssumption`, which say what kind of
values the constants are):

- `TypeCorrect`, `Coherence`, `NoUnauthorisedRerun`, `SentApprovalIsGranted`: the four invariants
  of `store_table`;
- `FirstAnswerStays`: the action property `AnswerKept`;
- `TableImplementsContract`: `Spec => Contract`, the refinement of `JobContract`
  (`INSTANCE JobContract WITH contract <- JobViews`): one verdict per job, a running
  mutation is never given up with a definite verdict nor handed out again without the user's word, and
  no question is accepted twice.

The invariant is stated row by row: `Good(j, r, g)` joins type, coherence and authorisation of one
row. That is needed because none is inductive alone: that a rerun is authorised rests on a
queued, approved row being covered by an accepted ticket, and that on the coherence of tickets and
attempts. A lemma per operation (`SweptGood`, `LeasedGood`, `AskedGood`, ...) shows that it keeps a
row good; `OneRow` lifts it to the table; `NextIInv` collects the actions. The refinement takes the
same way: a lemma per operation that the row's view makes a step of the contract or none
(`SweptFollows`, ...), and then that any number of rows may do so in one step.

`SystemProofs` proves of `RelaySystem`, for any number of jobs and attempts and any loss, delay,
repetition, abort, time-out, handler that runs on and crash (assumptions `SystemAssumption` and
`QuestionsAssumption`, besides those of the table: the bodies a worker sends are bodies, the lifetime of
an approval is a number, and what tools ask are sequences of summaries):

- `SystemImplementsTable`: `SystemSpec => Spec` of `RelayStore`. Whatever worker and callers do, each
  step is one of the table's operations or leaves the table alone; `SystemKeepsContract` follows from
  the refinement proved of the table;
- `MutationAppliedAtMostOnce`, `MutationAppliedIfConfirmed`, `RowTellsTheEffect`: the invariants that
  relate the rows to what happened on the machine;
- `ShownPromptIsCurrent`, `SystemTypeCorrect`.

Their inductive invariant, `SystemInv`, adds to the table's what is known of processes that cannot see
each other. While the worker holds a mutation, the row is leased under its token or given up as
indeterminate, no reply with that token is under way and no stray of it runs (`HeldAlone`): so nobody can
put the row back to the queue. A stray of a mutation is the only one, and its row never returns to
the queue (`StrayAlone`): so what runs on does not run beside a second attempt. A mutation takes effect
at most once for each time it was handed out (`EffectsCounted`); unless another job's stray asked in its
name (`AskedByAnother`), it took effect under its last attempt, which has no question under way
(`AppliedFinally`): so it is not handed out again. That a question which is left with an execution came
from another job (`LeftByStray`) is what makes this the only exception. What an execution approves was
accepted for its job (`TicketsAsked`, `ApprovedAccepted`), so that an effect, or a stray that will have one,
was confirmed (`EffectsConfirmed`). `DoneIsDone` follows the verdict from the worker
through the network to the row. The proof goes by what
a step may do to a row (`StepShape`: onward, leased, answered, resumed or not at all), so that the
worker's and the callers' parts of the invariant are each shown once for all operations of the relay.

`BridgeProofs` proves of `ToolBridge`, for any jobs, tools of any number of actions and any decisions
(assumptions `ActionsAssumption`, `BoundAssumption`): `BridgeTypeCorrect`, `PromptedRunsOnlyIfAccepted`,
`AskedForItsOwn` and `CompletedLeavesItsTrail`. `BridgeInv` says of each handler that either the bridge
awaits it or its job was given up, and that only one that waited for its window asks for anything after
that (`AwaitedOrGivenUp`); that the awaited one has recorded all it has behind it under its own id
(`RecordedSoFar`), which makes `CompletedIsAudited` inductive; that what a lease carries was accepted
for that job; and that a question is left in the Runtime by outlived desktop handlers only
(`NothingLeftBehind`), which is what `QuestionIsOwn` and the own-job half of `RunsOnlyIfAccepted` need.

`TransferProofs` proves of `Transfers`, for any exports, contents, chunk size and lifetime (assumption
`TransfersAssumption`): `TransferTypeCorrect`, `OnlyTheExportIsServed` and `FinishedUploadsAreKept`.
`TransferInv` says that a row says what its export says and where its file is (`RowSound`); that a file
under the final name is the export (`FileSound`), which is what makes `ServedIsTheExport` inductive, as
the hash is compared before the rename and never after; that an upload has one request under way, for
its own offset unless it was given up (`Awaited`, `OneRequest`); and that the last chunk accepted either
made the file whole or is not the last (`LastAccepted`). Soundness of the disk is shown write by write
(`PutFileSound`, `PutRowSound`, `DropPartSound`), so that it holds after every prefix of an operation,
which is where a death leaves it; that files and rows belong together is shown of whole operations, as
it does not hold between their writes.

`FileProofs` proves of `FileTools`, for any calls, paths, texts and changes by other programs
(assumption `FileToolsAssumption`, which says that names of temporary and trash files differ from the
user's and that no text is the mark of a torn file): `FilesTypeCorrect`, `OnlyCopiesTear` and the action
properties `WritesBuildOnTheFile` and `ImportsAreTheExpected`. `FileInv` says that one handler at a
time is within a turn (`OneInside`); that a temporary file that is checked or renamed is whole and what
was asked for; that the text `fs_replace` edits is still the file's unless the call is `overtaken` (`StillThere`); that
only the expected content gets past the check of `fs_write` (`ExpectedSeen`); and
that half a file is at the destination of the copy under way. Each action advances one call and puts or
drops one name (`PutStep`, `DropStep`), and what that leaves of the other calls' parts is shown once
(`OthersKeep`). The proof is also why the model has `cpSync` of a file onto itself throw (`SourceElsewhere`) and a rename
of a file onto itself keep it: without that the invariant is false.

`SessionProofs` proves first of `PolicyConfig` `ConfigTypeCorrect`, `FileLoads` and `DenialAlwaysDecides`. `FileCanBeLoaded` is
not inductive: what a rename puts in place must have been complete and checked, so `IInv` adds that
a process about to rename holds exactly the value it validated. `DenialAlwaysDecides` rests on
`FirstUpTo`, that a non-empty set of matching rules has a first one: proved by the least
counterexample, since the induction theorems of the library are out of the provers' reach. The
specificity of the rules is assumed to be a number (`PolicyConfigAssumption`) rather than proved from
the lengths of names, over which it is a recursion; TLC evaluates that assumption.

It then proves of `MachineSession`, for any calls, arguments, rules, paths and windows:

- `SessionKeepsConfig`: `SessionSpec => Spec` of `PolicyConfig`, so that `SessionFileLoads` and
  `SessionDenialDecides` follow from the theorems above while jobs run;
- `SessionTypeCorrect`;
- `RerunsAreHarmless`: `RerunIsHarmless`. The core is `ReadOnlyChangesNothing`, that a tool whose
  entry in the catalog says it only reads asks, for its last permission, for one under which nothing
  changes: tool by tool, through the families of the catalog and what each handler asks for;
- `AcceptedAlwaysRuns`: `AcceptedIsWhatRuns`. The core are `RunTellsMode` and `WriteTellsChange`: a
  summary that is the same in two circumstances was made in the same mode, or with the same finding
  about the file;
- `ProfilesKeepTheirWord`: `ProfileKeepsItsWord`. What a shipped profile allows is read off its rules
  (`ConfirmMutationsAllows`, `MostlyUnattendedAllows`, ...): none of them overlap in a way in which the order
  of specificity matters, so that it is enough that a matching rule is selected (`AllowedBy`). What each
  of the 32 tools asks for is read off its handler (`PathToolsAsk`, `ProgramToolsAsk`), and which paths
  it takes off the catalog (`PathsTouched`); `OnlyInspects`, `OnlyReads` and `OnlyUnattended` bring them
  together. The attempt showed that the property had been too strict and too lax: it counted arguments
  a tool does not take, which the catalog lets pass, and let the capture of the whole desktop count
  as unattended.

`RerunIsHarmless` and `AcceptedIsWhatRuns` are not inductive: `JobInv` adds that nothing has happened
before a job ends, and that what the user accepted is still one of the questions of the circumstances
the job asked in while it waits, runs or operates (a second question changes the circumstances, but is
only met where the job stops). `ProfileKeepsItsWord` is, as it speaks of what the last authorisation found.

`ProcessProofs` proves of `ProcessTools` and `NativeCall`, for any processes, helper calls, output and
limit (assumptions `ProcessToolsAssumption`, `NativeCallAssumption`): `ProcessTypeCorrect`,
`PollsGetAllOnce` and `CallsEndAsReported`. `ProcessInv` says of a helper call that its line says "ok" only
if the operation was performed, and that a helper whose call was given up does not run
(`NativeCallInv`); of a process, how it goes with its session and its call (`LifeInv`), and that its
text is at most three times what was read, as a cut byte decodes to one that is three long
(`ReadInv`). `PolledOnce` says that what the client has is the text up to its offset, which does not exclude that
the offset lies within a chunk; it becomes inductive with what the client *would* be sent (`TextInv`):
that and what it has are the whole text. A new chunk is appended to both sides; a poll moves text from one side to
the other. This needs what joining a sequence of chunks does with one more (`FlattenAppend`,
`FlattenLength`, `FlattenWithin`), an induction on their number: the induction theorems of the library take
operators, so `Climbs` states it for a set of numbers and is proved from their being well-founded.

`PresenceProofs` proves, for any relays, releases, times, delays and faults (assumptions
`MigrationsAssumption`, `PresenceAssumption`):

- `SchemaWhole`: `SchemaIsPrefix` and `ServesComplete`, by an invariant that ties the draft of the
  one writer to the place it is at;
- `SilenceAlwaysAccounted`: `SilenceIsAccounted`, by an invariant that bounds the silence for each
  place of the loop by what is spent of the budget there; `IdleWorkerIsOnline`: where the budget
  fits the offline window, a worker that nothing kept busy is online; `PresenceOnWholeSchema`,
  `PresenceTypeCorrect`.

TLC checked every inductive invariant on the constants of the runs before it was proved: `SystemInv`
in all states of `system_pair` and of `shared_answer`, `BridgeInv`, `TransferInv`, `FileInv` and `ProcessInv` in all states of theirs.

Every safety invariant the runs check, and every action property but those that name liveness, is
the statement of a theorem. Only model-checked: the liveness properties. Liveness under fairness and
`ENABLED` are beyond the prover, and so are recursive definitions in general: of `FlattenSeq` what is
needed is proved by the induction above, the length of a path is only assumed to be a number.

## 7. Not modelled

- *Other parts*: the HTTP endpoint of the worker (a development mode; its two tools are in
  `ToolActions`), authentication (stateless checks), environment variables and the fields of the
  configuration that are no policy, the upgrade of the worker's own database, installation scripts.
- *Outside the repository's code*: what Win32 does with windows, frames and coordinates; the
  comparison of a click with its captured frame therefore stays a hazard without a property.
- *Within the modelled parts*: directories, trees and the readers of the file tools; resolving links
  and spellings of paths; standard error apart from standard output; the text of results; a disk that
  fails on the relay; foreign uploads; the backup copy of the configuration, which nobody reads.
- *Handlers that outlive their call* in `MachineSession`: there the handler ends with its call, and
  `RerunIsHarmless` and `AcceptedIsWhatRuns` speak of such handlers only. `AcceptedIsWhatRuns` compares what
  authorisation found before and after the question, not the machine at the moment of the operation,
  and for `fs_copy` and `fs_move` the summary says nothing of it.
- *Of processes*: what a killed helper has itself started; that a performed operation is never reported
  as failed (the exit may be read before the line, `native-client.ts:74`).
- *Judgements*: `Unasked` counts `process_poll` as inspection, as its capability does; it returns
  output of processes, and `confirm-all` lets it pass unasked.
- *Left as hazards without a property*, in `PROJECT.json` with the reason: states the models reach but
  about which the repository promises nothing, such as orphaned files in the trash, and a page and a
  command that undo each other's changes.
- `RowsMatchFiles` makes an exception for relay deaths: the promise of architecture.md:34 that expired
  files are removed does not hold for a file that a death left without a row.

## 8. Plan

1. Theorems: the refinements of the abstract specifications below; that a path's length is a number
   (by `Climbs`), which would discharge a part of `PolicyConfigAssumption`.
2. Abstract specifications: what an export promises (served whole or not at all, until it expires),
   implemented by `Transfers`; an atomic replacement, implemented by the write path of `FileTools`.
3. Models: presence within `RelaySystem` in place of `BeginOffline`, handlers that outlive their call
   within `MachineSession`, directories in `FileTools`.
