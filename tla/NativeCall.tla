----------------------------- MODULE NativeCall -----------------------------
(***************************************************************************)
(* NativeClient.call (native-client.ts): each call starts the native       *)
(* helper (Program.cs), which answers one request with one line and exits. *)
(* For process.run the helper starts the command in a sandbox, a process   *)
(* of its own (SandboxRunner.cs).                                          *)
(*                                                                         *)
(* The helper's exit, the line it wrote, the timer and the signal of the   *)
(* call reach the client as events in any order; an exit may be reported   *)
(* before the last output has been read.                                   *)
(***************************************************************************)
EXTENDS Naturals, Sequences

CONSTANTS
  NativeCalls,   \* calls of the helper
  SandboxCalls   \* those of process.run

ASSUME NativeCallAssumption == SandboxCalls \subseteq NativeCalls

VARIABLES
  native,     \* the promise of each call, with the standard output read so far
  helper,     \* the helper process of each call, with the line it has written
  sandboxed,  \* the command the helper runs
  performed,  \* history: calls whose operation took effect
  aborted     \* the signal of each call

nativeVars == <<native, helper, sandboxed, performed, aborted>>

NativeInit ==
  /\ native = [c \in NativeCalls |-> [state |-> "none", stdout |-> ""]]
  /\ helper = [c \in NativeCalls |-> [state |-> "none", line |-> ""]]
  /\ sandboxed = [c \in NativeCalls |-> "none"]
  /\ performed = {}
  /\ aborted = [c \in NativeCalls |-> FALSE]

Lines == {"", "ok", "error"}
GivenUp == {"cancelled", "timedout"}
Settled == {"resolved", "rejected"} \cup GivenUp

NativeTypeOK ==
  /\ native \in [NativeCalls -> [state : {"none", "pending"} \cup Settled, stdout : Lines]]
  /\ helper \in [NativeCalls -> [state : {"none", "running", "exited", "reported"}, line : Lines]]
  /\ sandboxed \in [NativeCalls -> {"none", "running", "ended"}]
  /\ performed \subseteq NativeCalls
  /\ DOMAIN aborted = NativeCalls

Pending(c) == native[c].state = "pending"
Settle(c, state) == native' = [native EXCEPT ![c].state = state]

\* child.kill(): nothing happens to a helper that has exited, nor to the
\* command a helper has started.
Kill(c) ==
  helper' = [helper EXCEPT ![c].state = IF @ = "running" THEN "exited" ELSE @]

\* A signal that has aborted starts nothing; the helper may be missing.
CallNative(c) ==
  /\ native[c].state = "none"
  /\ \/ /\ aborted[c]
        /\ Settle(c, "cancelled")
        /\ UNCHANGED helper
     \/ /\ ~aborted[c]
        /\ Settle(c, "rejected")
        /\ UNCHANGED helper
     \/ /\ ~aborted[c]
        /\ Settle(c, "pending")
        /\ helper' = [helper EXCEPT ![c].state = "running"]
  /\ UNCHANGED <<sandboxed, performed, aborted>>

StartSandboxed(c) ==
  /\ c \in SandboxCalls
  /\ helper[c].state = "running" /\ sandboxed[c] = "none"
  /\ sandboxed' = [sandboxed EXCEPT ![c] = "running"]
  /\ performed' = performed \cup {c}
  /\ UNCHANGED <<native, helper, aborted>>

\* By itself, or terminated by the helper when its time is over.
SandboxedEnds(c) ==
  /\ sandboxed[c] = "running"
  /\ sandboxed' = [sandboxed EXCEPT ![c] = "ended"]
  /\ UNCHANGED <<native, helper, performed, aborted>>


Answer(c, line) ==
  /\ helper[c].state = "running"
  /\ helper' = [helper EXCEPT ![c] = [state |-> "exited", line |-> line]]
  /\ UNCHANGED <<native, aborted>>

\* Any other operation takes effect in the helper itself.
HelperSucceeds(c) ==
  /\ c \in SandboxCalls => sandboxed[c] = "ended"
  /\ Answer(c, "ok")
  /\ performed' = performed \cup {c}
  /\ UNCHANGED sandboxed

\* Program.cs writes every exception as an answer.
HelperFails(c) ==
  /\ sandboxed[c] # "running"
  /\ Answer(c, "error")
  /\ UNCHANGED <<sandboxed, performed>>

ReadStdout(c) ==
  /\ helper[c].line # ""
  /\ native' = [native EXCEPT ![c].stdout = helper[c].line]
  /\ helper' = [helper EXCEPT ![c].line = ""]
  /\ UNCHANGED <<sandboxed, performed, aborted>>

Verdict(c) == IF native[c].stdout = "ok" THEN "resolved" ELSE "rejected"

HelperExit(c) ==
  /\ helper[c].state = "exited"
  /\ helper' = [helper EXCEPT ![c].state = "reported"]
  /\ IF Pending(c) THEN Settle(c, Verdict(c)) ELSE UNCHANGED native
  /\ UNCHANGED <<sandboxed, performed, aborted>>

\* Slip: the timer only rejects the promise.
NativeTimeoutKeepsHelper(c) ==
  /\ Pending(c)
  /\ Settle(c, "timedout")
  /\ UNCHANGED <<helper, sandboxed, performed, aborted>>

NativeTimeout(c) ==
  /\ Pending(c)
  /\ Settle(c, "timedout")
  /\ Kill(c)
  /\ UNCHANGED <<sandboxed, performed, aborted>>

NativeAbort(c) ==
  /\ ~aborted[c]
  /\ aborted' = [aborted EXCEPT ![c] = TRUE]
  /\ IF Pending(c)
     THEN Settle(c, "cancelled") /\ Kill(c)
     ELSE UNCHANGED <<native, helper>>
  /\ UNCHANGED <<sandboxed, performed>>

NativeNext ==
  \E c \in NativeCalls :
    \/ CallNative(c)
    \/ StartSandboxed(c)
    \/ SandboxedEnds(c)
    \/ HelperSucceeds(c)
    \/ HelperFails(c)
    \/ ReadStdout(c)
    \/ HelperExit(c)
    \/ NativeTimeout(c)
    \/ NativeAbort(c)
=============================================================================
