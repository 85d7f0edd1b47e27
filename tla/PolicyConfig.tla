---------------------------- MODULE PolicyConfig ----------------------------
(***************************************************************************)
(* The configuration the policy is read from: the file (config.ts), the    *)
(* copy the worker runs on (runtime.ts), the local page that edits it      *)
(* (admin.ts) and the command that switches the profile (cli.ts), a        *)
(* process of its own.  Both write the file through writeConfigAtomic; the *)
(* worker may die, and a call may throw, between any two of its steps.     *)
(* The copy it keeps of the last file (.bak) is read by nobody and left    *)
(* out.                                                                    *)
(***************************************************************************)
EXTENDS Policy, Functions, TLC

CONSTANTS
  Initial,     \* the configuration at the start
  Rules,       \* rules a user may add
  Names,       \* names of profiles a user may ask for
  Requests,    \* what tools ask permission for
  MaxWrites    \* bound: writes of the file

Valid(config) == config.activeProfile \in DOMAIN config.profiles

\* The rules there can ever be, and the configurations made of them.
KnownRules ==
  Rules \cup UNION {Range(Initial.profiles[p].rules) : p \in DOMAIN Initial.profiles}
Profile == [defaultDecision : Decisions, processMode : {"strict", "policy-only"},
            rules : Seq(KnownRules)]
ProfileNames == DOMAIN Initial.profiles
Config == [activeProfile : ProfileNames, profiles : [ProfileNames -> Profile]]

ASSUME PolicyConfigAssumption ==
  /\ Initial \in Config
  /\ \A r \in KnownRules : r.decision \in Decisions /\ Specificity(r) \in Nat
  /\ MaxWrites \in Nat

VARIABLES
  file,       \* config.json
  temporary,  \* the temporary file of each process
  writing,    \* where each process is in writeConfigAtomic, and what it writes
  running,    \* runtime.config of the worker
  page,       \* the text in the user's browser
  writes      \* writes begun

vars == <<file, temporary, writing, running, page, writes>>

Processes == {"worker", "cli"}
Torn == [activeProfile |-> "", profiles |-> <<>>]
Idle(config) == [at |-> "idle", value |-> config]

Init ==
  /\ file = Initial
  /\ temporary = [w \in Processes |-> Torn]
  /\ writing = [w \in Processes |-> Idle(Initial)]
  /\ running = Initial
  /\ page = Initial
  /\ writes = 0

ConfigTypeOK ==
  /\ writing \in [Processes -> [at : {"idle", "open", "fill", "rename"}, value : Config]]
  /\ temporary \in [Processes -> Config \cup {Torn}]
  /\ file \in Config \cup {Torn}
  /\ running \in Config
  /\ page \in Config
  /\ writes \in 0..MaxWrites

\* The server answers nobody while it writes.
WorkerFree == writing["worker"].at = "idle"

-----------------------------------------------------------------------------
(* Who writes what *)

Begin(w, config) ==
  /\ writes < MaxWrites
  /\ writing' = [writing EXCEPT ![w] = [at |-> "open", value |-> config]]
  /\ writes' = writes + 1
  /\ UNCHANGED <<file, temporary, running, page>>

LoadPage ==
  /\ WorkerFree
  /\ page' = running
  /\ UNCHANGED <<file, temporary, writing, running, writes>>

\* What a user makes of the text: a rule more, or another profile.
Edited(config) ==
  {[config EXCEPT !.profiles[config.activeProfile].rules = Append(@, r)] : r \in Rules}
    \cup {[config EXCEPT !.activeProfile = p] : p \in Names}

\* Slip: the active profile is not looked up.
AcceptableAsIs(config) == config # Torn

Acceptable(config) == Valid(config)

\* PUT /api/config; an invalid text is refused.
SavePage ==
  /\ WorkerFree
  /\ \E config \in Edited(page) : Acceptable(config) /\ Begin("worker", config)

\* PUT /api/profile
Activate(p) ==
  /\ WorkerFree
  /\ p \in DOMAIN running.profiles
  /\ Begin("worker", [running EXCEPT !.activeProfile = p])

\* The command reads the file and writes what it read.
CliProfile(p) ==
  /\ writing["cli"].at = "idle"
  /\ p \in DOMAIN file.profiles
  /\ Begin("cli", [file EXCEPT !.activeProfile = p])

-----------------------------------------------------------------------------
(* writeConfigAtomic *)

\* Slip: the file is written in place.
InPlace(w, content) == file' = content /\ UNCHANGED temporary

Put(w, content) == temporary' = [temporary EXCEPT ![w] = content] /\ UNCHANGED file

OpenTemporary(w) ==
  /\ writing[w].at = "open"
  /\ Put(w, Torn)
  /\ writing' = [writing EXCEPT ![w].at = "fill"]
  /\ UNCHANGED <<running, page, writes>>

FillTemporary(w) ==
  /\ writing[w].at = "fill"
  /\ Put(w, writing[w].value)
  /\ writing' = [writing EXCEPT ![w].at = "rename"]
  /\ UNCHANGED <<running, page, writes>>

\* The worker runs on the new configuration in the same turn.
Rename(w) ==
  /\ writing[w].at = "rename"
  /\ file' = temporary[w]
  /\ running' = IF w = "worker" THEN temporary[w] ELSE running
  /\ writing' = [writing EXCEPT ![w].at = "idle"]
  /\ UNCHANGED <<temporary, page, writes>>

WriteThrows(w) ==
  /\ writing[w].at # "idle"
  /\ writing' = [writing EXCEPT ![w].at = "idle"]
  /\ UNCHANGED <<file, temporary, running, page, writes>>

\* The worker dies and starts again.
Restart ==
  /\ Valid(file)
  /\ writing' = [writing EXCEPT !["worker"].at = "idle"]
  /\ running' = file
  /\ UNCHANGED <<file, temporary, page, writes>>

Next ==
  \/ LoadPage
  \/ SavePage
  \/ \E p \in Names : Activate(p) \/ CliProfile(p)
  \/ \E w \in Processes : OpenTemporary(w) \/ FillTemporary(w) \/ Rename(w) \/ WriteThrows(w)
  \/ Restart

Spec == Init /\ [][Next]_vars

-----------------------------------------------------------------------------
(* Correctness *)

Active == running.profiles[running.activeProfile]
Decision(request) == EvaluatePolicy(Active, request)

\* There is always a configuration to start from, whatever died half way.
FileCanBeLoaded == Valid(file)

\* Whatever else the rules say, a matching denial decides.
DenialDecides ==
  \A request \in Requests :
    Denials(Active.rules, request) # {} => Decision(request) = "deny"
=============================================================================
