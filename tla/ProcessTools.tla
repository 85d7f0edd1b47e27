---------------------------- MODULE ProcessTools ----------------------------
(***************************************************************************)
(* process_run, process_start and the tools on their sessions              *)
(* (process-tools.ts).  A strict process_run is a NativeCall and has no    *)
(* session; every other one spawns a child whose output, exit and timer    *)
(* reach the worker as events in any order.                                *)
(*                                                                         *)
(* Output is a sequence of bytes; "h" followed by "t" is one character.    *)
(* Standard output and standard error share the chunks of a session and    *)
(* are one stream here; what a process is given to read does not matter.   *)
(***************************************************************************)
EXTENDS NativeCall, SequencesExt

CONSTANTS
  Processes,   \* tool calls that start a process outside the sandbox
  Output,      \* what each process writes if it is left alone
  MaxOutput    \* maxProcessOutputBytes

ASSUME ProcessToolsAssumption ==
  /\ Output \in [Processes -> Seq({"a", "h", "t"})]
  /\ MaxOutput \in Nat \ {0}

VARIABLES
  up,        \* the worker lives
  child,     \* each process: how much it has written, and how much was read
  sessions,  \* ProcessManager.sessions
  runs,      \* the promise of process_run, and its signal
  reader     \* a client of process_poll: the offset it goes on from, what it got

processVars == <<child, sessions, runs, reader>>
vars == <<nativeVars, up, processVars>>

NoSession == [known |-> FALSE, chunks |-> <<>>, nextOffset |-> 0, exited |-> FALSE]

Init ==
  /\ NativeInit
  /\ up = TRUE
  /\ child = [p \in Processes |-> [state |-> "none", written |-> 0, read |-> 0]]
  /\ sessions = [p \in Processes |-> NoSession]
  /\ runs = [p \in Processes |-> [state |-> "none", aborted |-> FALSE]]
  /\ reader = [p \in Processes |-> [after |-> 0, seen |-> <<>>]]

ProcessTypeOK ==
  /\ NativeTypeOK
  /\ \A p \in Processes :
       /\ child[p].state \in {"none", "running", "exited", "reported"}
       /\ child[p].written \in 0..Len(Output[p])
       /\ child[p].read \in 0..child[p].written
       /\ sessions[p].nextOffset \in 0..(3 * Len(Output[p]))
       /\ sessions[p].exited => child[p].state = "reported"
       /\ child[p].state # "none" => sessions[p].known
       /\ runs[p].state \in {"none", "waiting", "returned", "rejected", "started"} \cup GivenUp
       /\ reader[p].after \in 0..sessions[p].nextOffset

Waits(p) == runs[p].state = "waiting"
RunIs(p, state) == runs' = [runs EXCEPT ![p].state = state]

-----------------------------------------------------------------------------
(* Output *)

\* Bytes that are no character become the three bytes of U+FFFD.
Decoded(bytes) ==
  LET whole(i) ==
        \/ bytes[i] = "a"
        \/ bytes[i] = "h" /\ i < Len(bytes) /\ bytes[i + 1] = "t"
        \/ bytes[i] = "t" /\ i > 1 /\ bytes[i - 1] = "h"
  IN FlattenSeq([i \in DOMAIN bytes |-> IF whole(i) THEN <<bytes[i]>> ELSE <<"?", "?", "?">>])

\* Slip: the offset is that of the last chunk alone.
AppendedAlone(s, data) ==
  LET text == Decoded(SubSeq(data, 1, IF MaxOutput < Len(data) THEN MaxOutput ELSE Len(data)))
  IN [s EXCEPT !.chunks = Append(@, [offset |-> s.nextOffset, text |-> text]),
               !.nextOffset = Len(text)]

\* append: each chunk is decoded by itself, what exceeds the limit is dropped
\* (only the reply of process_run has a field that can tell so, :202).
Appended(s, data) ==
  IF s.nextOffset >= MaxOutput
  THEN s
  ELSE LET room == MaxOutput - s.nextOffset
           text == Decoded(SubSeq(data, 1, IF room < Len(data) THEN room ELSE Len(data)))
       IN [s EXCEPT !.chunks = Append(@, [offset |-> s.nextOffset, text |-> text]),
                    !.nextOffset = @ + Len(text)]

Write(p) ==
  /\ child[p].state = "running"
  /\ child[p].written < Len(Output[p])
  /\ child' = [child EXCEPT ![p].written = @ + 1]
  /\ UNCHANGED <<nativeVars, up, sessions, runs, reader>>

\* A "data" event, also after the exit was reported.
ReadOutput(p) ==
  /\ up
  /\ \E upTo \in (child[p].read + 1)..child[p].written :
       LET data == SubSeq(Output[p], child[p].read + 1, upTo)
       IN /\ sessions' = [sessions EXCEPT ![p] = Appended(@, data)]
          /\ child' = [child EXCEPT ![p].read = upTo]
  /\ UNCHANGED <<nativeVars, up, runs, reader>>

-----------------------------------------------------------------------------
(* process_run and process_start *)

\* Slip: a signal that has aborted before the wait is not looked at.
BeginsDeaf(p) == "waiting"

Begins(p) == IF runs[p].aborted THEN "cancelled" ELSE "waiting"

Spawned(p, state) ==
  /\ child' = [child EXCEPT ![p].state = state]
  /\ sessions' = [sessions EXCEPT ![p].known = TRUE]

ProcessRun(p) ==
  /\ up /\ runs[p].state = "none"
  /\ RunIs(p, Begins(p))
  /\ Spawned(p, IF Begins(p) = "cancelled" THEN "exited" ELSE "running")
  /\ UNCHANGED <<nativeVars, up, reader>>

\* No such executable: the session stays in the map.  Where the signal has
\* aborted, nobody listens to the "error" event: it ends the worker.
ProcessRunFails(p) ==
  /\ up /\ runs[p].state = "none"
  /\ up' = ~runs[p].aborted
  /\ RunIs(p, IF runs[p].aborted THEN "cancelled" ELSE "rejected")
  /\ Spawned(p, "none")
  /\ UNCHANGED <<nativeVars, reader>>

ProcessStart(p) ==
  /\ up /\ runs[p].state = "none"
  /\ RunIs(p, "started")
  /\ Spawned(p, "running")
  /\ UNCHANGED <<nativeVars, up, reader>>

\* A strict session is refused, and nothing is started instead.
ProcessStartStrict(p) ==
  /\ up /\ runs[p].state = "none"
  /\ RunIs(p, "rejected")
  /\ UNCHANGED <<nativeVars, up, child, sessions, reader>>

\* Nor does anybody listen to that of a child of process_start.
ProcessStartFails(p) ==
  /\ up /\ runs[p].state = "none"
  /\ up' = FALSE
  /\ UNCHANGED <<nativeVars, processVars>>

ChildEnds(p) ==
  /\ child[p].state = "running"
  /\ child' = [child EXCEPT ![p].state = "exited"]
  /\ UNCHANGED <<nativeVars, up, sessions, runs, reader>>

ChildExit(p) ==
  /\ up /\ child[p].state = "exited"
  /\ child' = [child EXCEPT ![p].state = "reported"]
  /\ sessions' = [sessions EXCEPT ![p].exited = TRUE]
  /\ IF Waits(p) THEN RunIs(p, "returned") ELSE UNCHANGED runs
  /\ UNCHANGED <<nativeVars, up, reader>>

KillChild(p) ==
  child' = [child EXCEPT ![p].state = IF @ = "running" THEN "exited" ELSE @]

\* Slip: the first output stops the timer.
RunTimeoutIdle(p) ==
  /\ up /\ Waits(p) /\ child[p].read = 0
  /\ RunIs(p, "timedout")
  /\ KillChild(p)
  /\ UNCHANGED <<nativeVars, up, sessions, reader>>

RunTimeout(p) ==
  /\ up /\ Waits(p)
  /\ RunIs(p, "timedout")
  /\ KillChild(p)
  /\ UNCHANGED <<nativeVars, up, sessions, reader>>

RunAbort(p) ==
  /\ up /\ ~runs[p].aborted /\ runs[p].state \in {"none", "waiting"}
  /\ IF Waits(p)
     THEN /\ runs' = [runs EXCEPT ![p] = [state |-> "cancelled", aborted |-> TRUE]]
          /\ KillChild(p)
     ELSE /\ runs' = [runs EXCEPT ![p].aborted = TRUE]
          /\ UNCHANGED child
  /\ UNCHANGED <<nativeVars, up, sessions, reader>>

\* A strict process_run waits for the native helper and for nothing else.
RunStrict == up /\ NativeNext /\ UNCHANGED <<up, processVars>>

-----------------------------------------------------------------------------
(* The tools on sessions *)

Terminate(p) ==
  /\ up /\ sessions[p].known
  /\ KillChild(p)
  /\ UNCHANGED <<nativeVars, up, sessions, runs, reader>>

\* process_run or process_stdin has written to a process that has closed its
\* input or has ended, or after the input was closed.  Nobody listens to the
\* "error" event of stdin: it ends the worker.
InputBreaks(p) ==
  /\ up /\ child[p].state \in {"running", "exited"}
  /\ up' = FALSE
  /\ UNCHANGED <<nativeVars, processVars>>

\* Slip: a chunk that ends at the offset is sent again.
UnreadFrom(chunk, after) == chunk.offset + Len(chunk.text) >= after

Unread(chunk, after) == chunk.offset + Len(chunk.text) > after

\* What a client that read up to an offset is sent: the chunks it has not read.
TextAfter(chunks, after) ==
  FlattenSeq([i \in DOMAIN chunks |-> IF Unread(chunks[i], after) THEN chunks[i].text ELSE <<>>])

\* The client goes on from the next_offset it was given.
Poll(p) ==
  /\ up /\ sessions[p].known
  /\ reader' = [reader EXCEPT ![p] =
       [after |-> sessions[p].nextOffset,
        seen |-> @.seen \o TextAfter(sessions[p].chunks, @.after)]]
  /\ UNCHANGED <<nativeVars, up, child, sessions, runs>>

-----------------------------------------------------------------------------
Next ==
  \/ RunStrict
  \/ \E p \in Processes :
       \/ Write(p)
       \/ ReadOutput(p)
       \/ ProcessRun(p)
       \/ ProcessRunFails(p)
       \/ ProcessStart(p)
       \/ ProcessStartStrict(p)
       \/ ProcessStartFails(p)
       \/ ChildEnds(p)
       \/ ChildExit(p)
       \/ RunTimeout(p)
       \/ RunAbort(p)
       \/ Terminate(p)
       \/ InputBreaks(p)
       \/ Poll(p)

Spec == Init /\ [][Next]_vars

\* Timers fire; nothing is assumed of the processes.
FairSpec ==
  /\ Spec
  /\ \A p \in Processes : WF_vars(RunTimeout(p))
  /\ \A c \in NativeCalls : WF_vars(up /\ NativeTimeout(c) /\ UNCHANGED <<up, processVars>>)

-----------------------------------------------------------------------------
(* Correctness *)

\* Whoever polls with the offset of the last answer gets each byte that the
\* session keeps once and in order, wherever the chunks begin and characters are
\* cut, although a cut character grows when it is decoded (process_poll,
\* process-tools.ts:247; append, :82).
PolledOnce ==
  \A p \in Processes :
    LET chunks == sessions[p].chunks
        all == FlattenSeq([i \in DOMAIN chunks |-> chunks[i].text])
    IN reader[p].seen = SubSeq(all, 1, reader[p].after)

\* A call given up on a signal or on time has ended its process, and a signal
\* is heard whenever it comes ("Long-running process execution terminates its
\* child process or native helper when that signal arrives", architecture.md:28);
\* and what the helper is said to have done it has done.
EndsAsReported ==
  /\ \A p \in Processes :
       /\ runs[p].aborted => ~Waits(p)
       /\ runs[p].state \in GivenUp => child[p].state # "running"
  /\ \A c \in NativeCalls :
       /\ aborted[c] => ~Pending(c)
       /\ native[c].state \in GivenUp => helper[c].state # "running"
       /\ native[c].state = "resolved" => c \in performed

\* Every call comes to an end, with processes that never do.
RunEnds ==
  /\ \A p \in Processes : Waits(p) ~> ~Waits(p) \/ ~up
  /\ \A c \in NativeCalls : Pending(c) ~> ~Pending(c) \/ ~up
=============================================================================
