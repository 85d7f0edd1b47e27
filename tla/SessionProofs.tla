---------------------------- MODULE SessionProofs ----------------------------
(***************************************************************************)
(* Theorems about the configuration and the policy read from it, and about *)
(* MachineSession, whose jobs run under them: for any calls, rules,        *)
(* requests, profiles, paths and windows.                                  *)
(***************************************************************************)
EXTENDS MachineSession, WellFoundedInduction, SequenceTheorems, TLAPS

-----------------------------------------------------------------------------
(* The first of the sorted rules *)

First(rules, S, i) ==
  /\ i \in S
  /\ \A j \in S :
       \/ Specificity(rules[i]) > Specificity(rules[j])
       \/ Specificity(rules[i]) = Specificity(rules[j]) /\ i <= j

\* By induction on n: there is a first rule among those up to n.
LEMMA FirstUpTo ==
  ASSUME NEW rules, NEW S \in SUBSET Nat,
         \A i \in S : Specificity(rules[i]) \in Nat
  PROVE  \A n \in Nat : S \cap 0..n # {} => \E i \in S \cap 0..n : First(rules, S \cap 0..n, i)
<1> DEFINE Upto(n) == S \cap 0..n
           Has(n) == Upto(n) # {} => \E i \in Upto(n) : First(rules, Upto(n), i)
           Bad == {n \in Nat : ~Has(n)}
<1> SUFFICES ASSUME Bad # {} PROVE FALSE
  OBVIOUS
<1>1. PICK n \in Bad : \A m \in Bad : ~(<<m, n>> \in OpToRel(<, Nat))
  <2> HIDE DEF Has
  <2> QED
    BY WFMin, NatLessThanWellFounded
<1>2. \A m \in Nat : m < n => Has(m)
  <2> HIDE DEF Has
  <2> QED
    BY <1>1 DEF OpToRel
<1>3. n \in S
  <2> SUFFICES ASSUME n \notin S PROVE Has(n)
    BY <1>1
  <2>1. CASE n = 0
    BY <2>1
  <2>2. CASE n # 0
    <3>1. Upto(n) = Upto(n - 1)
      BY <2>2
    <3>2. Has(n - 1)
      <4>1. n - 1 \in Nat /\ n - 1 < n
        BY <2>2
      <4> HIDE DEF Has
      <4> QED
        BY <1>2, <4>1
    <3> QED
      BY <3>1, <3>2
  <2> QED
    BY <2>1, <2>2
<1>4. CASE Upto(n) = {n}
  <2>1. First(rules, Upto(n), n)
    BY <1>3, <1>4 DEF First
  <2>2. Has(n)
    BY <1>4, <2>1
  <2> QED
    BY <1>1, <2>2
<1>5. CASE Upto(n) # {n}
  <2>1. n # 0 /\ Upto(n - 1) # {} /\ Upto(n) = Upto(n - 1) \cup {n}
    <3>1. n \in Nat /\ Upto(n) = Upto(n - 1) \cup {n}
      BY <1>3
    <3>2. Upto(0 - 1) = {}
      OBVIOUS
    <3> QED
      BY <1>5, <3>1, <3>2
  <2>0. Has(n - 1)
    <3>1. n - 1 \in Nat /\ n - 1 < n
      BY <2>1
    <3> HIDE DEF Has
    <3> QED
      BY <1>2, <3>1
  <2>2. PICK b \in Upto(n - 1) : First(rules, Upto(n - 1), b)
    BY <2>0, <2>1
  <2>3. CASE Specificity(rules[n]) > Specificity(rules[b])
    <3>1. First(rules, Upto(n), n)
      BY <1>3, <2>1, <2>2, <2>3 DEF First
    <3>2. Has(n)
      BY <1>3, <3>1
    <3> QED
      BY <1>1, <3>2
  <2>4. CASE ~(Specificity(rules[n]) > Specificity(rules[b]))
    <3>1. First(rules, Upto(n), b)
      <4>1. /\ n \in S /\ b \in Upto(n) /\ b <= n
            /\ Specificity(rules[b]) \in Nat /\ Specificity(rules[n]) \in Nat
        BY <1>3, <2>1, <2>2
      <4>2. \A j \in Upto(n - 1) :
              \/ Specificity(rules[b]) > Specificity(rules[j])
              \/ Specificity(rules[b]) = Specificity(rules[j]) /\ b <= j
        BY <2>2 DEF First
      <4>3. \/ Specificity(rules[b]) > Specificity(rules[n])
            \/ Specificity(rules[b]) = Specificity(rules[n]) /\ b <= n
        BY <2>4, <4>1
      <4>4. Upto(n) = Upto(n - 1) \cup {n}
        BY <2>1
      <4> HIDE DEF Upto
      <4> QED
        BY <4>1, <4>2, <4>3, <4>4 DEF First
    <3>2. Has(n)
      BY <2>1, <2>2, <3>1
    <3> QED
      BY <1>1, <3>2
  <2> QED
    BY <2>3, <2>4
<1> QED
  BY <1>4, <1>5

\* FirstOf selects one of the rules it is given.
LEMMA FirstOfIn ==
  ASSUME NEW rules \in Seq(KnownRules), NEW S \in SUBSET DOMAIN rules, S # {}
  PROVE  FirstOf(rules, S) \in S
<1>1. \A i \in S : Specificity(rules[i]) \in Nat
  BY PolicyConfigAssumption
<1>2. S \in SUBSET Nat /\ S \cap 0..Len(rules) = S
  OBVIOUS
<1>3. PICK i \in S : First(rules, S, i)
  <2>1. Len(rules) \in Nat
    OBVIOUS
  <2>2. \E i \in S \cap 0..Len(rules) : First(rules, S \cap 0..Len(rules), i)
    BY <1>1, <1>2, <2>1, FirstUpTo, Zenon
  <2> QED
    BY <1>2, <2>2
<1> QED
  BY <1>3 DEF First, FirstOf

\* A matching denial decides, whatever the other rules say and wherever it
\* stands among them (evaluatePolicy, policy.ts:26).
LEMMA DenialWins ==
  ASSUME NEW profile \in Profile, NEW request, Denials(profile.rules, request) # {}
  PROVE  EvaluatePolicy(profile, request) = "deny"
<1>1. profile.rules \in Seq(KnownRules)
  BY DEF Profile
<1>2. Denials(profile.rules, request) \in SUBSET DOMAIN profile.rules
  BY DEF Denials, Matches
<1>3. FirstOf(profile.rules, Denials(profile.rules, request)) \in Denials(profile.rules, request)
  BY <1>1, <1>2, FirstOfIn
<1> QED
  BY <1>3 DEF EvaluatePolicy, Selected, Denials

-----------------------------------------------------------------------------
(* The configuration *)

\* What is renamed into place is what was checked before it was written.
IInv ==
  /\ ConfigTypeOK
  /\ file \in Config
  /\ \A w \in Processes : writing[w].at = "rename" => temporary[w] = writing[w].value

LEMMA InitIInv == Init => IInv
<1> SUFFICES ASSUME Init PROVE IInv
  OBVIOUS
<1>1. Initial \in Config /\ MaxWrites \in Nat
  BY PolicyConfigAssumption
<1> QED
  BY <1>1 DEF Init, IInv, ConfigTypeOK, Idle

\* A text a user edits and the schema accepts is a configuration.
LEMMA EditedConfig ==
  ASSUME NEW c \in Config, NEW d \in Edited(c), Acceptable(d)
  PROVE  d \in Config
<1>1. CASE \E r \in Rules :
           d = [c EXCEPT !.profiles[c.activeProfile].rules = Append(@, r)]
  <2>1. PICK r \in Rules : d = [c EXCEPT !.profiles[c.activeProfile].rules = Append(@, r)]
    BY <1>1
  <2>2. r \in KnownRules
    BY DEF KnownRules
  <2>3. c.profiles \in [ProfileNames -> Profile] /\ c.activeProfile \in ProfileNames
    BY DEF Config
  <2>4. c.profiles[c.activeProfile] \in Profile
    BY <2>3
  <2>5. Append(c.profiles[c.activeProfile].rules, r) \in Seq(KnownRules)
    BY <2>2, <2>4 DEF Profile
  <2> DEFINE new == [c.profiles[c.activeProfile] EXCEPT !.rules = Append(@, r)]
  <2>6. new \in Profile
    BY <2>4, <2>5 DEF Profile
  <2> HIDE DEF new
  <2>7. [c.profiles EXCEPT ![c.activeProfile] = new] \in [ProfileNames -> Profile]
    BY <2>3, <2>6
  <2>8. d = [c EXCEPT !.profiles = [c.profiles EXCEPT ![c.activeProfile] = new]]
    BY <2>1, <2>3, <2>4 DEF new, Config
  <2> QED
    BY <2>7, <2>8 DEF Config
<1>2. CASE \E p \in Names : d = [c EXCEPT !.activeProfile = p]
  BY <1>2 DEF Config, Acceptable, Valid
<1> QED
  BY <1>1, <1>2 DEF Edited

LEMMA BeginKeeps ==
  ASSUME IInv, NEW w \in Processes, NEW c \in Config, Begin(w, c)
  PROVE  IInv'
<1>1. writing' \in [Processes -> [at : {"idle", "open", "fill", "rename"}, value : Config]]
  BY DEF IInv, ConfigTypeOK, Begin
<1>2. writing'[w].at = "open" /\ \A v \in Processes \ {w} : writing'[v] = writing[v]
  BY DEF IInv, ConfigTypeOK, Begin
<1>3. writes' \in 0..MaxWrites
  BY PolicyConfigAssumption DEF IInv, ConfigTypeOK, Begin
<1> QED
  BY <1>1, <1>2, <1>3 DEF IInv, ConfigTypeOK, Begin

LEMMA NextIInv == IInv /\ [Next]_vars => IInv'
<1> SUFFICES ASSUME IInv, [Next]_vars PROVE IInv'
  OBVIOUS
<1> USE DEF IInv, ConfigTypeOK
<1>1. CASE LoadPage
  BY <1>1 DEF LoadPage
<1>2. CASE SavePage
  <2>1. PICK c \in Edited(page) : Acceptable(c) /\ Begin("worker", c)
    BY <1>2 DEF SavePage
  <2> QED
    BY <2>1, EditedConfig, BeginKeeps DEF Processes
<1>3. ASSUME NEW p \in Names, Activate(p) PROVE IInv'
  <2>1. [running EXCEPT !.activeProfile = p] \in Config
    BY <1>3 DEF Activate, Config
  <2> QED
    BY <1>3, <2>1, BeginKeeps DEF Activate, Processes
<1>4. ASSUME NEW p \in Names, CliProfile(p) PROVE IInv'
  <2>1. [file EXCEPT !.activeProfile = p] \in Config
    BY <1>4 DEF CliProfile, Config
  <2> QED
    BY <1>4, <2>1, BeginKeeps DEF CliProfile, Processes
<1>5. ASSUME NEW w \in Processes, OpenTemporary(w) PROVE IInv'
  <2>1. /\ writing' \in [Processes -> [at : {"idle", "open", "fill", "rename"}, value : Config]]
        /\ writing'[w].at = "fill" /\ \A v \in Processes \ {w} : writing'[v] = writing[v]
    BY <1>5 DEF OpenTemporary
  <2>2. /\ temporary' \in [Processes -> Config \cup {Torn}]
        /\ \A v \in Processes \ {w} : temporary'[v] = temporary[v]
    BY <1>5 DEF OpenTemporary, Put
  <2> QED
    BY <1>5, <2>1, <2>2 DEF OpenTemporary, Put
<1>6. ASSUME NEW w \in Processes, FillTemporary(w) PROVE IInv'
  <2>1. /\ writing' \in [Processes -> [at : {"idle", "open", "fill", "rename"}, value : Config]]
        /\ writing'[w].value = writing[w].value
        /\ \A v \in Processes \ {w} : writing'[v] = writing[v]
    BY <1>6 DEF FillTemporary
  <2>2. /\ temporary' \in [Processes -> Config \cup {Torn}]
        /\ temporary'[w] = writing[w].value
        /\ \A v \in Processes \ {w} : temporary'[v] = temporary[v]
    BY <1>6 DEF FillTemporary, Put
  <2> QED
    BY <1>6, <2>1, <2>2 DEF FillTemporary, Put
<1>7. ASSUME NEW w \in Processes, Rename(w) PROVE IInv'
  <2>1. /\ writing' \in [Processes -> [at : {"idle", "open", "fill", "rename"}, value : Config]]
        /\ writing'[w].at = "idle" /\ \A v \in Processes \ {w} : writing'[v] = writing[v]
    BY <1>7 DEF Rename
  <2>2. temporary[w] \in Config
    BY <1>7 DEF Rename
  <2> QED
    BY <1>7, <2>1, <2>2 DEF Rename
<1>8. ASSUME NEW w \in Processes, WriteThrows(w) PROVE IInv'
  <2>1. /\ writing' \in [Processes -> [at : {"idle", "open", "fill", "rename"}, value : Config]]
        /\ writing'[w].at = "idle" /\ \A v \in Processes \ {w} : writing'[v] = writing[v]
    BY <1>8 DEF WriteThrows
  <2> QED
    BY <1>8, <2>1 DEF WriteThrows
<1>9. CASE Restart
  <2>1. /\ writing' \in [Processes -> [at : {"idle", "open", "fill", "rename"}, value : Config]]
        /\ writing'["worker"].at = "idle"
        /\ \A v \in Processes \ {"worker"} : writing'[v] = writing[v]
    BY <1>9 DEF Restart, Processes
  <2> QED
    BY <1>9, <2>1 DEF Restart
<1>10. CASE UNCHANGED vars
  BY <1>10 DEF vars
<1> QED
  BY <1>1, <1>2, <1>3, <1>4, <1>5, <1>6, <1>7, <1>8, <1>9, <1>10 DEF Next

LEMMA Invariant == Spec => []IInv
  BY InitIInv, NextIInv, PTL DEF Spec

-----------------------------------------------------------------------------
(* The theorems *)

\* The configurations keep their types.
THEOREM ConfigTypeCorrect == Spec => []ConfigTypeOK
<1>1. IInv => ConfigTypeOK
  BY DEF IInv
<1> QED
  BY <1>1, Invariant, PTL

\* writeConfigAtomic leaves a configuration that loadConfig accepts, whichever
\* process dies or fails between any two of its steps.
THEOREM FileLoads == Spec => []FileCanBeLoaded
<1>1. IInv => FileCanBeLoaded
  BY DEF IInv, FileCanBeLoaded, Valid, Config
<1> QED
  BY <1>1, Invariant, PTL

\* In every configuration the worker ever runs on, a matching denial decides.
THEOREM DenialAlwaysDecides == Spec => []DenialDecides
<1>1. IInv => DenialDecides
  <2> SUFFICES ASSUME IInv, NEW request \in Requests, Denials(Active.rules, request) # {}
               PROVE  Decision(request) = "deny"
    BY DEF DenialDecides
  <2>1. Active \in Profile
    BY DEF IInv, ConfigTypeOK, Active, Config
  <2> QED
    BY <2>1, DenialWins DEF Decision
<1> QED
  BY <1>1, Invariant, PTL

-----------------------------------------------------------------------------
(* The catalog's hint agrees with what the tools ask for. *)

Readers ==
  DOMAIN InspectionTools \cup DOMAIN FileReaders \cup DOMAIN DesktopReaders
    \cup {"file_export", "process_poll", "process_list", "clipboard_read"}

Hinted(family) == \A tool \in DOMAIN family : family[tool].readOnly => tool \in Readers

LEMMA FamiliesHinted == \A family \in Families : Hinted(family)
<1> USE DEF Hinted, Readers, Tool
<1>1. Hinted(InspectionTools) BY DEF InspectionTools
<1>2. Hinted(FileReaders) BY DEF FileReaders
<1>3. Hinted(TextWriters) BY DEF TextWriters
<1>4. Hinted(TreeTools) BY DEF TreeTools
<1>5. Hinted(TransferTools) BY DEF TransferTools
<1>6. Hinted(ProcessRun) /\ Hinted(ProcessStart) BY DEF ProcessRun, ProcessStart
<1>7. Hinted(SessionTools)
  <2>1. ~SessionTools["process_stdin"].readOnly /\ ~SessionTools["process_terminate"].readOnly
    BY DEF SessionTools
  <2>2. DOMAIN SessionTools = {"process_poll", "process_stdin", "process_terminate", "process_list"}
    BY DEF SessionTools
  <2> QED
    BY <2>1, <2>2
<1>8. Hinted(DesktopReaders) BY DEF DesktopReaders
<1>9. Hinted(ClickTools) /\ Hinted(DragTools) BY DEF ClickTools, DragTools
<1>10. Hinted(KeyboardTools) BY DEF KeyboardTools
<1>11. Hinted(ClipboardTools) BY DEF ClipboardTools
<1>12. Hinted(LaunchTools) BY DEF LaunchTools
<1> HIDE DEF Hinted
<1> QED
  BY <1>1, <1>2, <1>3, <1>4, <1>5, <1>6, <1>7, <1>8, <1>9, <1>10, <1>11, <1>12 DEF Families

LEMMA HintedReaders ==
  ASSUME NEW tool \in DOMAIN WorkerToolCatalog, ReadOnly(tool)
  PROVE  tool \in Readers
<1> DEFINE family == CHOOSE family \in Families : tool \in DOMAIN family
<1>1. \E f \in Families : tool \in DOMAIN f
  BY DEF WorkerToolCatalog
<1>2. family \in Families /\ tool \in DOMAIN family
  BY <1>1
<1>3. family[tool].readOnly
  BY DEF WorkerToolCatalog, ReadOnly
<1> QED
  BY <1>2, <1>3, FamiliesHinted DEF Hinted

\* Under what a reader asks for last, nothing is changed.
LEMMA OneObserves ==
  ASSUME NEW tool, NEW capability \in Observing, NEW kind, NEW value, NEW summary
  PROVE  ~Changes(<<Action(tool, capability, kind, value, summary)>>)
BY DEF Changes, Action

LEMMA NoneObserves == ~Changes(<<>>)
BY DEF Changes

LEMMA Domains ==
  /\ DOMAIN InspectionTools = {"machine_status", "policy_explain"}
  /\ DOMAIN FileReaders = {"fs_list", "fs_stat", "fs_read", "fs_search"}
  /\ DOMAIN SessionTools = {"process_poll", "process_stdin", "process_terminate", "process_list"}
  /\ DOMAIN DesktopReaders = {"desktop_status", "desktop_list_windows", "desktop_capture"}
  /\ DOMAIN ClipboardTools = {"clipboard_read", "clipboard_write"}
BY DEF InspectionTools, FileReaders, SessionTools, DesktopReaders, ClipboardTools

LEMMA ReadersObserve ==
  ASSUME NEW tool \in Readers, NEW args, NEW mode, NEW found, NEW apps
  PROVE  ~Changes(Actions(tool, args, mode, found, apps))
<1> DEFINE actions == Actions(tool, args, mode, found, apps)
<1>1. CASE tool \in DOMAIN InspectionTools
  <2>1. actions = InspectionActions(tool)
    BY <1>1, Domains DEF Actions, WindowTools
  <2>2. tool = "machine_status" \/ tool = "policy_explain"
    BY <1>1, Domains
  <2> QED
    BY <2>1, <2>2, OneObserves DEF InspectionActions, OnSpecial, Observing
<1>2. CASE tool \in DOMAIN FileReaders
  <2>1. actions = ReadActions(tool, args)
    BY <1>2, Domains DEF Actions, WindowTools
  <2> QED
    BY <2>1, OneObserves DEF ReadActions, OnPath, Observing
<1>3. CASE tool = "file_export"
  <2>1. actions = ExportActions(tool, args)
    BY <1>3, Domains DEF Actions, WindowTools
  <2> QED
    BY <2>1, OneObserves DEF ExportActions, OnPath, Observing
<1>4. CASE tool \in {"process_poll", "process_list"}
  <2>1. actions = SessionActions(tool, args)
    BY <1>4, Domains DEF Actions, WindowTools
  <2> QED
    BY <1>4, <2>1, OneObserves DEF SessionActions, OnSpecial, Observing
<1>5. CASE tool \in DOMAIN DesktopReaders
  <2>1. tool \in {"desktop_status", "desktop_list_windows", "desktop_capture"}
    BY <1>5, Domains
  <2>2. actions = DesktopActions(tool, args, apps)
    BY <1>5, <2>1, Domains DEF Actions, WindowTools
  <2> QED
    BY <2>1, <2>2, OneObserves, NoneObserves DEF DesktopActions, OnSpecial, Observing
<1>6. CASE tool = "clipboard_read"
  <2>1. actions = ClipboardActions(tool)
    BY <1>6, Domains DEF Actions, WindowTools
  <2> QED
    BY <1>6, <2>1, OneObserves DEF ClipboardActions, OnSpecial, Observing
<1> QED
  BY <1>1, <1>2, <1>3, <1>4, <1>5, <1>6 DEF Readers

LEMMA ReadOnlyChangesNothing ==
  ASSUME NEW tool \in DOMAIN WorkerToolCatalog, ReadOnly(tool),
         NEW args, NEW mode, NEW found, NEW apps
  PROVE  ~Changes(Actions(tool, args, mode, found, apps))
BY HintedReaders, ReadersObserve

-----------------------------------------------------------------------------
(* A summary tells the circumstances it was made in. *)

ActionsOf(call, found) ==
  Actions(call.tool, Parsed(call.tool, call.args), found.mode, found.exists, Apps)
SummariesOf(call, found) == {action.summary : action \in Range(ActionsOf(call, found))}
Last(actions) == actions[Len(actions)]

Execution(call, found) == ActualMode(Parsed(call.tool, call.args).mode, found.mode)

LEMMA LastOf ==
  ASSUME NEW a, NEW b
  PROVE  Last(<<a>>) = a /\ Last(<<a, b>>) = b
BY DEF Last

LEMMA AsksToRun ==
  ASSUME NEW tool \in {"process_run", "process_start"}, NEW args, NEW mode, NEW found, NEW apps
  PROVE  Actions(tool, args, mode, found, apps) = RunActions(tool, args, mode)
BY Domains DEF Actions, WindowTools

LEMMA AsksToWrite ==
  ASSUME NEW args, NEW mode, NEW found, NEW apps
  PROVE  Actions("fs_write", args, mode, found, apps) = WriteActions("fs_write", args, found)
BY Domains DEF Actions, WindowTools

LEMMA RunTellsMode ==
  ASSUME NEW call, NEW asked, NEW found, call.tool \in {"process_run", "process_start"},
         Last(ActionsOf(call, found)).summary \in SummariesOf(call, asked)
  PROVE  Execution(call, found) = Execution(call, asked)
<1> DEFINE tool == call.tool
           args == Parsed(tool, call.args)
           network == OnSpecial(tool, "process.network", "network://outbound", <<"Allow network", args.spec>>)
           Run(c) == Action(tool, Capability(ActualMode(args.mode, c.mode)), "executable", args.spec,
                            RunSummary(args, c.mode))
<1>1. \A c : ActionsOf(call, c) = IF args.network THEN <<network, Run(c)>> ELSE <<Run(c)>>
  <2>1. \A c : ActionsOf(call, c) = RunActions(tool, args, c.mode)
    BY AsksToRun DEF ActionsOf
  <2> QED
    BY <2>1 DEF RunActions
<1>2. Last(ActionsOf(call, found)).summary = RunSummary(args, found.mode)
  <2>1. Last(ActionsOf(call, found)) = Run(found)
    <3>1. \/ ActionsOf(call, found) = <<network, Run(found)>>
          \/ ActionsOf(call, found) = <<Run(found)>>
      <4> HIDE DEF network, Run, args
      <4> QED
        BY <1>1
    <3> HIDE DEF network, Run
    <3> QED
      BY <3>1, LastOf
  <2> QED
    BY <2>1 DEF Action
<1>3. SummariesOf(call, asked) \subseteq {<<"Allow network", args.spec>>, RunSummary(args, asked.mode)}
  <2>1. Range(ActionsOf(call, asked)) \subseteq {network, Run(asked)}
    <3> HIDE DEF network, Run, args
    <3> QED
      BY <1>1 DEF Range
  <2>2. network.summary = <<"Allow network", args.spec>> /\ Run(asked).summary = RunSummary(args, asked.mode)
    BY DEF Action, OnSpecial
  <2> HIDE DEF network, Run, args
  <2> QED
    BY <2>1, <2>2 DEF SummariesOf
<1>4. RunSummary(args, found.mode) # <<"Allow network", args.spec>>
  BY DEF RunSummary
<1>5. RunSummary(args, found.mode) = RunSummary(args, asked.mode)
  BY <1>2, <1>3, <1>4
<1> QED
  BY <1>5 DEF RunSummary, Execution

LEMMA WriteTellsChange ==
  ASSUME NEW call, NEW asked \in Circumstances, NEW found \in Circumstances, call.tool = "fs_write",
         Last(ActionsOf(call, found)).summary \in SummariesOf(call, asked)
  PROVE  found.exists = asked.exists
<1> DEFINE args == Parsed(call.tool, call.args)
           said(c) == <<IF c.exists THEN "Replace" ELSE "Create", args.path>>
           write(c) == OnPath("fs_write", ChangeOf(c.exists), args.path, said(c))
<1>1. \A c : ActionsOf(call, c) = <<write(c)>>
  <2>1. \A c : ActionsOf(call, c) = WriteActions("fs_write", args, c.exists)
    BY AsksToWrite DEF ActionsOf
  <2> QED
    BY <2>1 DEF WriteActions
<1>2. \A c : write(c).summary = said(c)
  BY DEF OnPath, Action
<1>3. said(found) = said(asked)
  <2> HIDE DEF write, said, args
  <2>1. Last(ActionsOf(call, found)).summary = said(found)
    BY <1>1, <1>2, LastOf
  <2>2. Range(ActionsOf(call, asked)) = {write(asked)}
    BY <1>1 DEF Range
  <2>3. SummariesOf(call, asked) = {said(asked)}
    BY <1>2, <2>2 DEF SummariesOf
  <2> QED
    BY <2>1, <2>3
<1> QED
  BY <1>3 DEF Circumstances

-----------------------------------------------------------------------------
(* The configuration lives on as PolicyConfig says. *)

LEMMA SessionStepsConfig == [SessionNext]_sessionVars => [Next]_vars
BY DEF SessionNext, sessionVars, BeginCall, Accept, GiveUp, StartHandler, RejectTicket, Authorize,
       Operate, OperationFails, LoseLease, WorkerRestarts, EditConfig, OtherProgram, Next

\* Whatever the jobs do, file, page and running configuration behave as
\* PolicyConfig allows.
THEOREM SessionKeepsConfig == SessionSpec => Spec
<1>1. SessionInit => Init
  BY DEF SessionInit
<1> QED
  BY <1>1, SessionStepsConfig, PTL DEF SessionSpec, Spec

\* The configuration file can be loaded while jobs run and the worker dies.
THEOREM SessionFileLoads == SessionSpec => []FileCanBeLoaded
BY SessionKeepsConfig, FileLoads, PTL

\* A matching denial decides, whenever a handler asks.
THEOREM SessionDenialDecides == SessionSpec => []DenialDecides
BY SessionKeepsConfig, DenialAlwaysDecides, PTL

-----------------------------------------------------------------------------
(* The job *)

Live == {"queued", "handling", "operating"}
JobPhases == Live \cup {"asked", "ended"}

Askable == UNION {SummariesOf(call, found) : call \in Calls, found \in Circumstances}
Questions == {None} \cup Askable

JobRecord ==
  [phase : JobPhases, call : Calls, question : Questions, asked : Circumstances,
   approved : Questions, spent : BOOLEAN, found : Circumstances,
   under : ProfileNames \cup {"", "edited"}, onWord : BOOLEAN, effects : 0..1]

\* The user is asked for one of the actions the handler met, and once accepted
\* the question stays until the handler has run.
JobAsks(j) ==
  /\ j.question = None \/ j.question \in SummariesOf(j.call, j.asked)
  /\ j.approved = None \/ \E found \in Circumstances : j.approved \in SummariesOf(j.call, found)
  /\ j.phase \in Live => j.approved = None \/ j.approved \in SummariesOf(j.call, j.asked)

\* Nothing has happened before a job ends.
JobActs(j) ==
  j.phase # "ended" => Validates(j.call.tool, j.call.args) /\ j.effects = 0

JobRunsAsAsked(j) ==
  j.phase = "operating" /\ j.onWord =>
    /\ j.call.tool \in {"process_run", "process_start"} =>
         Execution(j.call, j.found) = Execution(j.call, j.asked)
    /\ j.call.tool = "fs_write" => j.found.exists = j.asked.exists

JobOK(j) == j \in JobRecord /\ JobAsks(j) /\ JobActs(j) /\ JobRunsAsAsked(j)

JobInv == exists \in BOOLEAN /\ JobOK(job)

LEMMA AskedIsQuestion ==
  ASSUME NEW call \in Calls, NEW found \in Circumstances, NEW question \in SummariesOf(call, found)
  PROVE  question \in Questions
<1>1. SummariesOf(call, found) \in {SummariesOf(c, f) : c \in Calls, f \in Circumstances}
  OBVIOUS
<1>2. question \in Askable
  BY <1>1 DEF Askable
<1> QED
  BY <1>2 DEF Questions

LEMMA NewJobFields ==
  ASSUME NEW call \in Calls
  PROVE  /\ NewJob(call) \in JobRecord
         /\ NewJob(call).phase = "queued" /\ NewJob(call).call = call
         /\ NewJob(call).question = None /\ NewJob(call).approved = None
         /\ NewJob(call).effects = 0
<1>1. None \in Questions /\ [mode |-> "strict", exists |-> FALSE] \in Circumstances
  BY DEF Questions, Circumstances
<1>2. "queued" \in JobPhases
  BY DEF JobPhases, Live
<1> HIDE DEF Questions, Circumstances, JobPhases
<1> QED
  BY <1>1, <1>2 DEF NewJob, JobRecord

LEMMA NewJobOK ==
  ASSUME NEW call \in Calls, Validates(call.tool, call.args)
  PROVE  JobOK(NewJob(call))
BY NewJobFields DEF JobOK, JobAsks, JobActs, JobRunsAsAsked

LEMMA NoJobOK ==
  ASSUME NEW call \in Calls
  PROVE  JobOK([NewJob(call) EXCEPT !.phase = "ended"])
<1> DEFINE new == NewJob(call)
           j == [new EXCEPT !.phase = "ended"]
<1>1. j \in JobRecord /\ j.phase = "ended" /\ j.question = None /\ j.approved = None
  <2>1. new \in JobRecord /\ new.question = None /\ new.approved = None /\ "ended" \in JobPhases
    BY NewJobFields DEF JobPhases
  <2> HIDE DEF new
  <2> QED
    BY <2>1 DEF JobRecord
<1> HIDE DEF j
<1>2. JobAsks(j) /\ JobActs(j) /\ JobRunsAsAsked(j)
  BY <1>1 DEF JobAsks, JobActs, JobRunsAsAsked, Live
<1>3. JobOK(j)
  BY <1>1, <1>2 DEF JobOK
<1> QED
  BY <1>3 DEF j

\* A job may go to another phase, if it was live or will not be, and does not
\* come to operate that way.
LEMMA PhaseOK ==
  ASSUME NEW j, JobOK(j), NEW phase \in JobPhases \ {"operating"},
         phase = "ended" \/ (j.phase \in Live /\ phase \in Live) \/ phase = j.phase
  PROVE  JobOK([j EXCEPT !.phase = phase])
<1> DEFINE k == [j EXCEPT !.phase = phase]
<1>1. j \in JobRecord
  BY DEF JobOK
<1>2. k \in JobRecord
  BY <1>1 DEF JobRecord
<1>3. /\ k.phase = phase /\ k.call = j.call /\ k.question = j.question /\ k.asked = j.asked
      /\ k.approved = j.approved /\ k.effects = j.effects
  BY <1>1 DEF JobRecord
<1> HIDE DEF k
<1>4. JobAsks(k)
  BY <1>3 DEF JobOK, JobAsks, Live
<1>5. JobActs(k)
  BY <1>3 DEF JobOK, JobActs, Live
<1>6. JobRunsAsAsked(k)
  BY <1>3 DEF JobRunsAsAsked
<1> QED
  BY <1>2, <1>4, <1>5, <1>6 DEF JobOK, k

LEMMA AcceptOK ==
  ASSUME JobOK(job), Accept
  PROVE  JobOK(job')
<1>1. job \in JobRecord /\ job' = [job EXCEPT !.phase = "queued", !.approved = job.question]
  BY DEF JobOK, Accept
<1>2. job' \in JobRecord
  BY <1>1 DEF JobRecord, JobPhases, Live
<1>3. /\ job'.phase = "queued" /\ job'.call = job.call /\ job'.question = job.question
      /\ job'.asked = job.asked /\ job'.approved = job.question /\ job'.effects = job.effects
  BY <1>1 DEF JobRecord
<1>4. job.asked \in Circumstances
  BY <1>1 DEF JobRecord
<1>5. JobAsks(job')
  BY <1>3, <1>4 DEF JobOK, JobAsks
<1>6. JobActs(job') /\ JobRunsAsAsked(job')
  BY <1>3 DEF JobOK, JobActs, JobRunsAsAsked, Accept
<1> QED
  BY <1>2, <1>5, <1>6 DEF JobOK

LEMMA StartHandlerOK ==
  ASSUME JobOK(job), StartHandler
  PROVE  JobOK(job')
<1>1. job \in JobRecord /\ job' = [job EXCEPT !.phase = "handling", !.spent = job.approved # None]
  BY DEF JobOK, StartHandler
<1>2. job' \in JobRecord
  BY <1>1 DEF JobRecord, JobPhases, Live
<1>3. /\ job'.phase = "handling" /\ job'.call = job.call /\ job'.question = job.question
      /\ job'.asked = job.asked /\ job'.approved = job.approved /\ job'.effects = job.effects
  BY <1>1 DEF JobRecord
<1>4. JobAsks(job') /\ JobActs(job') /\ JobRunsAsAsked(job')
  BY <1>3 DEF JobOK, JobAsks, JobActs, JobRunsAsAsked, Live, StartHandler
<1> QED
  BY <1>2, <1>4 DEF JobOK

\* A job whose handler is cut off after it operated is handed out again only
\* if nothing was changed.
LEMMA OperatedOK ==
  ASSUME JobOK(job), job.phase = "operating"
  PROVE  /\ Operated \in 0..1
         /\ ReadOnly(job.call.tool) => Operated = 0
<1>1. job.effects = 0 /\ job.call.tool \in DOMAIN WorkerToolCatalog
  BY DEF JobOK, JobActs, Validates
<1>2. ReadOnly(job.call.tool) => ~Changes(ActionsIn(job.found))
  BY <1>1, ReadOnlyChangesNothing DEF ActionsIn
<1> QED
  BY <1>1, <1>2 DEF Operated

LEMMA CutOffOK ==
  ASSUME JobOK(job), CutOff
  PROVE  JobOK(job')
<1> DEFINE phase == IF ReadOnly(job.call.tool) THEN "queued" ELSE "ended"
<1>1. job \in JobRecord
  BY DEF JobOK
<1>2. CASE job.phase \in {"handling", "operating"} /\ job' = Requeued(job)
  <2>1. job' = [job EXCEPT !.phase = phase]
    BY <1>2 DEF Requeued
  <2> QED
    BY <1>2, <2>1, PhaseOK DEF JobPhases, Live
<1>3. CASE job.phase = "operating" /\ job' = Requeued([job EXCEPT !.effects = Operated])
  <2> DEFINE done == [job EXCEPT !.effects = Operated]
  <2>1. done \in JobRecord /\ done.call = job.call
    BY <1>1, <1>3, OperatedOK DEF JobRecord
  <2>2. job' = [done EXCEPT !.phase = phase]
    BY <1>3, <2>1 DEF Requeued
  <2>3. job' \in JobRecord
    BY <2>1, <2>2 DEF JobRecord, JobPhases, Live
  <2>4. /\ job'.phase = phase /\ job'.call = job.call /\ job'.question = job.question
        /\ job'.asked = job.asked /\ job'.approved = job.approved /\ job'.effects = Operated
    BY <1>1, <2>1, <2>2 DEF JobRecord
  <2>5. JobAsks(job') /\ JobRunsAsAsked(job')
    BY <1>3, <2>4 DEF JobOK, JobAsks, JobRunsAsAsked, Live
  <2>6. JobActs(job')
    BY <1>3, <2>4, OperatedOK DEF JobOK, JobActs
  <2> QED
    BY <2>3, <2>5, <2>6 DEF JobOK
<1> QED
  BY <1>2, <1>3 DEF CutOff

-----------------------------------------------------------------------------
(* Authorization *)

Short(actions) == DOMAIN actions \in {{}, {1}, {1, 2}}

LEMMA ShortLists ==
  ASSUME NEW a, NEW b
  PROVE  Short(<<>>) /\ Short(<<a>>) /\ Short(<<a, b>>)
BY DEF Short

\* No handler asks for more than two permissions.
LEMMA ActionsAreShort ==
  ASSUME NEW tool, NEW args, NEW mode, NEW found, NEW apps
  PROVE  Short(Actions(tool, args, mode, found, apps))
<1> DEFINE actions == Actions(tool, args, mode, found, apps)
<1>1. CASE tool \in DOMAIN InspectionTools
  <2>1. actions = InspectionActions(tool)
    BY <1>1, Domains DEF Actions, WindowTools
  <2> QED
    BY <2>1, ShortLists DEF InspectionActions
<1>2. CASE tool \in DOMAIN FileReaders
  <2>1. actions = ReadActions(tool, args)
    BY <1>2, Domains DEF Actions, WindowTools
  <2> QED
    BY <2>1, ShortLists DEF ReadActions
<1>3. CASE tool \in {"fs_write", "fs_replace", "fs_mkdir"}
  <2>1. actions = WriteActions(tool, args, found)
    BY <1>3, Domains DEF Actions, WindowTools
  <2> QED
    BY <1>3, <2>1, ShortLists DEF WriteActions
<1>4. CASE tool \in {"fs_copy", "fs_move"}
  <2>1. actions = TwoPathActions(tool, args, found)
    BY <1>4, Domains DEF Actions, WindowTools
  <2> QED
    BY <2>1, ShortLists DEF TwoPathActions
<1>5. CASE tool \in {"fs_delete", "file_import", "file_export"}
  <2>1. actions \in {DeleteActions(tool, args), ImportActions(tool, args), ExportActions(tool, args)}
    BY <1>5, Domains DEF Actions, WindowTools
  <2> QED
    BY <2>1, ShortLists DEF DeleteActions, ImportActions, ExportActions
<1>6. CASE tool \in {"process_run", "process_start"}
  <2>1. actions = RunActions(tool, args, mode)
    BY <1>6, AsksToRun
  <2> QED
    BY <2>1, ShortLists DEF RunActions
<1>7. CASE tool \in DOMAIN SessionTools
  <2>1. actions = SessionActions(tool, args)
    BY <1>7, Domains DEF Actions, WindowTools
  <2> QED
    BY <2>1, ShortLists DEF SessionActions
<1>8. CASE tool \in DOMAIN DesktopReaders
  <2>1. actions = DesktopActions(tool, args, apps)
    BY <1>8, Domains DEF Actions, WindowTools
  <2>2. tool \in {"desktop_status", "desktop_list_windows", "desktop_capture"}
    BY <1>8, Domains
  <2> QED
    BY <2>1, <2>2, ShortLists DEF DesktopActions
<1>9. CASE tool \in WindowTools
  <2>1. actions = WindowActions(tool, args, apps)
    BY <1>9, Domains DEF Actions, WindowTools
  <2> QED
    BY <2>1, ShortLists DEF WindowActions
<1>10. CASE tool \in DOMAIN ClipboardTools
  <2>1. actions = ClipboardActions(tool)
    BY <1>10, Domains DEF Actions, WindowTools
  <2> QED
    BY <2>1, ShortLists DEF ClipboardActions
<1>11. CASE tool \notin DOMAIN InspectionTools \cup DOMAIN FileReaders \cup DOMAIN SessionTools
                         \cup DOMAIN DesktopReaders \cup DOMAIN ClipboardTools \cup WindowTools
                         \cup {"fs_write", "fs_replace", "fs_mkdir", "fs_copy", "fs_move", "fs_delete",
                               "file_import", "file_export", "process_run", "process_start"}
  <2>1. actions = LaunchActions(tool, args)
    BY <1>11 DEF Actions
  <2> QED
    BY <2>1, ShortLists DEF LaunchActions
<1> QED
  BY <1>1, <1>2, <1>3, <1>4, <1>5, <1>6, <1>7, <1>8, <1>9, <1>10, <1>11

LEMMA FoundInCircumstances ==
  ASSUME ConfigTypeOK, exists \in BOOLEAN
  PROVE  Found \in Circumstances /\ ActiveAsShipped \in ProfileNames \cup {"", "edited"}
<1>1. running.activeProfile \in ProfileNames /\ running.profiles \in [ProfileNames -> Profile]
  BY DEF ConfigTypeOK, Config
<1>2. running.profiles[running.activeProfile].processMode \in {"strict", "policy-only"}
  BY <1>1 DEF Profile
<1> QED
  BY <1>1, <1>2 DEF Found, Circumstances, ActiveAsShipped

\* What the handler may do on the user's word is what the user was asked.
LEMMA OnWordTells ==
  ASSUME JobOK(job), job.phase \in Live, NEW found \in Circumstances,
         OnWord(Last(ActionsOf(job.call, found)))
  PROVE  /\ job.call.tool \in {"process_run", "process_start"} =>
              Execution(job.call, found) = Execution(job.call, job.asked)
         /\ job.call.tool = "fs_write" => found.exists = job.asked.exists
<1>1. job.approved \in SummariesOf(job.call, job.asked)
  BY DEF JobOK, JobAsks, OnWord
<1>2. Last(ActionsOf(job.call, found)).summary \in SummariesOf(job.call, job.asked)
  BY <1>1 DEF OnWord
<1>3. job.asked \in Circumstances
  BY DEF JobOK, JobRecord
<1> QED
  BY <1>2, <1>3, RunTellsMode, WriteTellsChange

LEMMA LeastOfTwo ==
  ASSUME NEW S \in SUBSET {1, 2}, S # {}
  PROVE  (CHOOSE n \in S : \A m \in S : n <= m) \in S
<1>1. \E n \in S : \A m \in S : n <= m
  <2>1. CASE 1 \in S
    BY <2>1
  <2>2. CASE 1 \notin S
    <3>1. S = {2}
      BY <2>2
    <3> QED
      BY <3>1
  <2> QED
    BY <2>1, <2>2
<1> QED
  BY <1>1

LEMMA AuthorizeOK ==
  ASSUME ConfigTypeOK, exists \in BOOLEAN, JobOK(job), Authorize
  PROVE  JobOK(job')
<1> DEFINE actions == ActionsIn(Found)
           stops == {n \in DOMAIN actions : Verdict(actions[n]) # "allow"}
           first == CHOOSE n \in stops : \A m \in stops : n <= m
           now == [job EXCEPT !.found = Found, !.under = ActiveAsShipped]
           word == actions # <<>> /\ OnWord(actions[Len(actions)])
<1>1. /\ job \in JobRecord /\ job.phase = "handling" /\ job.effects = 0
      /\ Validates(job.call.tool, job.call.args)
  BY DEF JobOK, JobActs, Authorize
<1>2. Found \in Circumstances /\ ActiveAsShipped \in ProfileNames \cup {"", "edited"}
  BY FoundInCircumstances
<1>3. /\ now \in JobRecord /\ now.found = Found
      /\ now.call = job.call /\ now.question = job.question /\ now.asked = job.asked
      /\ now.approved = job.approved /\ now.effects = 0
  <2> HIDE DEF actions
  <2> QED
    BY <1>1, <1>2 DEF JobRecord
<1>4. actions = ActionsOf(job.call, Found)
  BY DEF ActionsIn, Args, ActionsOf
<1>5. \/ job' = [now EXCEPT !.phase = "operating", !.onWord = word]
      \/ job' = [now EXCEPT !.phase = "ended"]
      \/ /\ stops # {}
         /\ job' = [now EXCEPT !.phase = "asked", !.question = actions[first].summary,
                               !.asked = Found, !.spent = FALSE]
  BY DEF Authorize
<1>6. stops # {} => first \in DOMAIN actions
  <2>1. Short(actions)
    BY <1>4, ActionsAreShort DEF ActionsOf
  <2> SUFFICES ASSUME stops # {} PROVE first \in stops
    OBVIOUS
  <2>2. stops \in SUBSET {1, 2}
    BY <2>1 DEF Short
  <2> HIDE DEF stops
  <2> QED
    BY <2>2, LeastOfTwo
<1> HIDE DEF now
<1>7. JobAsks(job)
  BY DEF JobOK
<1>8. CASE job' = [now EXCEPT !.phase = "operating", !.onWord = word]
  <2>1. word => OnWord(Last(ActionsOf(job.call, Found)))
    BY <1>4 DEF Last
  <2>2. word \in BOOLEAN
    OBVIOUS
  <2> HIDE DEF word, actions, stops, first
  <2>3. job' \in JobRecord
    BY <1>3, <1>8, <2>2 DEF JobRecord, JobPhases, Live
  <2>4. /\ job'.phase = "operating" /\ job'.onWord = word /\ job'.call = job.call
        /\ job'.question = job.question /\ job'.asked = job.asked
        /\ job'.approved = job.approved /\ job'.effects = 0 /\ job'.found = Found
    BY <1>3, <1>8 DEF JobRecord
  <2>5. JobAsks(job')
    BY <1>1, <1>7, <2>4 DEF JobAsks, Live
  <2>6. JobActs(job')
    BY <1>1, <2>4 DEF JobActs
  <2>7. JobRunsAsAsked(job')
    BY <1>1, <1>2, <2>1, <2>4, OnWordTells DEF JobRunsAsAsked, Live
  <2> QED
    BY <2>3, <2>5, <2>6, <2>7 DEF JobOK
<1>9. CASE job' = [now EXCEPT !.phase = "ended"]
  <2> HIDE DEF word, actions, stops, first
  <2>1. job' \in JobRecord
    BY <1>3, <1>9 DEF JobRecord, JobPhases
  <2>2. /\ job'.phase = "ended" /\ job'.call = job.call /\ job'.question = job.question
        /\ job'.asked = job.asked /\ job'.approved = job.approved
    BY <1>3, <1>9 DEF JobRecord
  <2>3. JobAsks(job') /\ JobActs(job') /\ JobRunsAsAsked(job')
    BY <1>7, <2>2 DEF JobAsks, JobActs, JobRunsAsAsked, Live
  <2> QED
    BY <2>1, <2>3 DEF JobOK
<1>10. CASE /\ stops # {}
            /\ job' = [now EXCEPT !.phase = "asked", !.question = actions[first].summary,
                                  !.asked = Found, !.spent = FALSE]
  <2> DEFINE question == actions[first].summary
  <2>1. question \in SummariesOf(job.call, Found)
    <3>1. actions[first] \in Range(ActionsOf(job.call, Found))
      BY <1>4, <1>6, <1>10 DEF Range
    <3> HIDE DEF actions, first
    <3> QED
      BY <3>1 DEF SummariesOf
  <2>2. question \in Questions
    <3>1. job.call \in Calls
      BY <1>1 DEF JobRecord
    <3> HIDE DEF question
    <3> QED
      BY <1>2, <2>1, <3>1, AskedIsQuestion
  <2>3. job' = [now EXCEPT !.phase = "asked", !.question = question, !.asked = Found, !.spent = FALSE]
    BY <1>10
  <2> HIDE DEF word, actions, stops, first, question
  <2>4. job' \in JobRecord
    BY <1>2, <1>3, <2>2, <2>3 DEF JobRecord, JobPhases
  <2>5. /\ job'.phase = "asked" /\ job'.call = job.call /\ job'.question = question
        /\ job'.asked = Found /\ job'.approved = job.approved /\ job'.effects = 0
    BY <1>3, <2>3 DEF JobRecord
  <2>6. JobAsks(job')
    BY <1>7, <2>1, <2>5 DEF JobAsks, Live
  <2>7. JobActs(job') /\ JobRunsAsAsked(job')
    BY <1>1, <2>5 DEF JobActs, JobRunsAsAsked
  <2> QED
    BY <2>4, <2>6, <2>7 DEF JobOK
<1> QED
  BY <1>5, <1>8, <1>9, <1>10

LEMMA OperateOK ==
  ASSUME JobOK(job), Operate
  PROVE  JobOK(job')
<1>1. /\ job \in JobRecord /\ job.phase = "operating"
      /\ job' = [job EXCEPT !.phase = "ended", !.effects = Operated]
  BY DEF JobOK, Operate
<1>2. job' \in JobRecord
  BY <1>1, OperatedOK DEF JobRecord, JobPhases
<1>3. /\ job'.phase = "ended" /\ job'.call = job.call /\ job'.question = job.question
      /\ job'.asked = job.asked /\ job'.approved = job.approved
  BY <1>1 DEF JobRecord
<1>4. JobAsks(job') /\ JobActs(job') /\ JobRunsAsAsked(job')
  BY <1>3 DEF JobOK, JobAsks, JobActs, JobRunsAsAsked, Live
<1> QED
  BY <1>2, <1>4 DEF JobOK

LEMMA SpentOK ==
  ASSUME JobOK(job), job' = [job EXCEPT !.spent = TRUE]
  PROVE  JobOK(job')
<1>1. job' \in JobRecord
  BY DEF JobOK, JobRecord
<1>2. /\ job'.phase = job.phase /\ job'.call = job.call /\ job'.question = job.question
      /\ job'.asked = job.asked /\ job'.approved = job.approved /\ job'.effects = job.effects
      /\ job'.found = job.found /\ job'.onWord = job.onWord
  BY DEF JobOK, JobRecord
<1>3. JobAsks(job') /\ JobActs(job') /\ JobRunsAsAsked(job')
  BY <1>2 DEF JobOK, JobAsks, JobActs, JobRunsAsAsked
<1> QED
  BY <1>1, <1>3 DEF JobOK

-----------------------------------------------------------------------------
(* The session *)

LEMMA SessionInitInv == SessionInit => JobInv
BY NoJobOK DEF SessionInit, JobInv

LEMMA SessionNextInv ==
  ASSUME ConfigTypeOK, JobInv, [SessionNext]_sessionVars
  PROVE  JobInv'
<1>1. JobOK(job) /\ exists \in BOOLEAN
  BY DEF JobInv
<1>2. exists' \in BOOLEAN
  BY <1>1 DEF SessionNext, sessionVars, BeginCall, Accept, GiveUp, StartHandler, RejectTicket,
       Authorize, Operate, OperationFails, LoseLease, WorkerRestarts, EditConfig, OtherProgram
<1>3. JobOK(job')
  <2>1. ASSUME NEW call \in Calls, BeginCall(call) PROVE JobOK(job')
    BY <2>1, NewJobOK DEF BeginCall
  <2>2. CASE Accept
    BY <1>1, <2>2, AcceptOK
  <2>3. CASE GiveUp \/ RejectTicket \/ OperationFails
    BY <1>1, <2>3, PhaseOK DEF GiveUp, RejectTicket, OperationFails, JobPhases
  <2>4. CASE StartHandler
    BY <1>1, <2>4, StartHandlerOK
  <2>5. CASE Authorize
    BY <1>1, <2>5, AuthorizeOK
  <2>6. CASE Operate
    BY <1>1, <2>6, OperateOK
  <2>7. CASE LoseLease
    BY <1>1, <2>7, CutOffOK DEF LoseLease
  <2>8. CASE WorkerRestarts
    BY <1>1, <2>8, CutOffOK, SpentOK DEF WorkerRestarts
  <2>9. CASE EditConfig \/ OtherProgram \/ UNCHANGED sessionVars
    BY <1>1, <2>9 DEF EditConfig, OtherProgram, sessionVars
  <2> QED
    BY <2>1, <2>2, <2>3, <2>4, <2>5, <2>6, <2>7, <2>8, <2>9 DEF SessionNext
<1> QED
  BY <1>2, <1>3 DEF JobInv

LEMMA SessionInvariant == SessionSpec => [](ConfigTypeOK /\ JobInv)
<1>1. SessionSpec => []ConfigTypeOK
  BY SessionKeepsConfig, ConfigTypeCorrect, PTL
<1>2. ConfigTypeOK /\ JobInv /\ [SessionNext]_sessionVars => JobInv'
  BY SessionNextInv
<1> QED
  BY <1>1, <1>2, SessionInitInv, PTL DEF SessionSpec

\* The type of the session's state, whatever is called and configured.
THEOREM SessionTypeCorrect == SessionSpec => []SessionTypeOK
<1>1. ConfigTypeOK /\ JobInv => SessionTypeOK
  <2> SUFFICES ASSUME ConfigTypeOK, JobInv PROVE SessionTypeOK
    OBVIOUS
  <2>1. job \in JobRecord /\ JobAsks(job) /\ exists \in BOOLEAN
    BY DEF JobInv, JobOK
  <2>2. \A found : Summaries(found) = SummariesOf(job.call, found)
    BY DEF Summaries, SummariesOf, ActionsIn, ActionsOf, Args
  <2>3. /\ job.question = None \/ job.question \in Summaries(job.asked)
        /\ job.approved = None \/ \E found \in Circumstances : job.approved \in Summaries(found)
    BY <2>1, <2>2 DEF JobAsks
  <2>4. /\ job.phase \in {"queued", "handling", "operating", "asked", "ended"} /\ job.call \in Calls
        /\ job.spent \in BOOLEAN /\ job.onWord \in BOOLEAN
        /\ job.asked \in Circumstances /\ job.found \in Circumstances
        /\ job.under \in ProfileNames \cup {"", "edited"}
        /\ job.effects \in 0..1
    BY <2>1 DEF JobRecord, JobPhases, Live
  <2>5. job.effects \in 0..2
    <3>1. \A n \in 0..1 : n \in 0..2
      OBVIOUS
    <3> QED
      BY <2>4, <3>1
  <2> QED
    BY <2>1, <2>3, <2>4, <2>5 DEF SessionTypeOK
<1> QED
  BY <1>1, SessionInvariant, PTL

\* Handing a cut off call out again by the catalog's hint never changes
\* anything twice, for any tool, call and configuration.
THEOREM RerunsAreHarmless == SessionSpec => []RerunIsHarmless
<1>1. JobInv => RerunIsHarmless
  <2>1. JobInv => job.effects \in 0..1
    BY DEF JobInv, JobOK, JobRecord
  <2> QED
    BY <2>1 DEF RerunIsHarmless
<1> QED
  BY <1>1, SessionInvariant, PTL

\* The mode of a process and the replacing of a file are as the user was told,
\* for any tool, call and configuration.
THEOREM AcceptedAlwaysRuns == SessionSpec => []AcceptedIsWhatRuns
<1>1. JobInv => AcceptedIsWhatRuns
  BY DEF JobInv, JobOK, JobRunsAsAsked, AcceptedIsWhatRuns, Execution, Args
<1> QED
  BY <1>1, SessionInvariant, PTL

-----------------------------------------------------------------------------
(* What the shipped profiles allow. *)

\* Only a rule that matches, or the default, allows anything.
LEMMA AllowedBy ==
  ASSUME NEW profile \in Profile, NEW request, EvaluatePolicy(profile, request) = "allow"
  PROVE  \/ profile.defaultDecision = "allow"
         \/ \E i \in DOMAIN profile.rules :
              MatchRule(profile.rules[i], request) /\ profile.rules[i].decision = "allow"
<1> DEFINE rules == profile.rules
<1>1. rules \in Seq(KnownRules)
  BY DEF Profile
<1>2. Matches(rules, request) \in SUBSET DOMAIN rules /\ Denials(rules, request) \in SUBSET DOMAIN rules
  BY DEF Matches, Denials
<1>3. CASE Matches(rules, request) = {}
  BY <1>3 DEF EvaluatePolicy
<1>4. CASE Matches(rules, request) # {}
  <2>1. Selected(rules, request) \in Matches(rules, request)
    BY <1>1, <1>2, <1>4, FirstOfIn DEF Selected, Denials
  <2>2. rules[Selected(rules, request)].decision = "allow"
    BY <1>4 DEF EvaluatePolicy
  <2> QED
    BY <2>1, <2>2 DEF Matches
<1> QED
  BY <1>3, <1>4

\* Where every rule says what the default says, nothing else is decided.
LEMMA AlwaysAllowed ==
  ASSUME NEW profile \in Profile, NEW request, profile.defaultDecision = "allow",
         \A i \in DOMAIN profile.rules : profile.rules[i].decision = "allow"
  PROVE  EvaluatePolicy(profile, request) = "allow"
<1> DEFINE rules == profile.rules
<1>1. rules \in Seq(KnownRules)
  BY DEF Profile
<1>2. Matches(rules, request) \in SUBSET DOMAIN rules /\ Denials(rules, request) \in SUBSET DOMAIN rules
  BY DEF Matches, Denials
<1>3. Matches(rules, request) # {} => Selected(rules, request) \in DOMAIN rules
  BY <1>1, <1>2, FirstOfIn DEF Selected, Denials
<1> QED
  BY <1>3 DEF EvaluatePolicy

\* Lists of rules put together.
LEMMA Joined ==
  ASSUME NEW S, NEW s \in Seq(S), NEW t \in Seq(S)
  PROVE  /\ s \o t \in Seq(S) /\ Len(s \o t) = Len(s) + Len(t)
         /\ \A i \in 1..Len(s) : (s \o t)[i] = s[i]
         /\ \A i \in 1..Len(t) : (s \o t)[Len(s) + i] = t[i]
OBVIOUS

LEMMA OneAndTwo ==
  ASSUME NEW a, NEW b, NEW c
  PROVE  <<a>> \o <<b, c>> = <<a, b, c>>
<1> DEFINE S == {a, b, c}
           q == <<a>> \o <<b, c>>
<1>1. <<a>> \in Seq(S) /\ <<b, c>> \in Seq(S) /\ Len(<<a>>) = 1 /\ Len(<<b, c>>) = 2
  OBVIOUS
<1>2. q \in Seq(S) /\ Len(q) = 3 /\ q[1] = a /\ q[2] = b /\ q[3] = c
  <2>1. 1 \in 1..1 /\ 1 \in 1..2 /\ 2 \in 1..2 /\ 1 + 1 = 2 /\ 1 + 2 = 3
    OBVIOUS
  <2>2. <<a>>[1] = a /\ <<b, c>>[1] = b /\ <<b, c>>[2] = c
    OBVIOUS
  <2> HIDE DEF S
  <2> QED
    BY <1>1, <2>1, <2>2, Joined
<1> DEFINE t == <<a, b, c>>
<1>3. t \in Seq(S) /\ Len(t) = 3 /\ t[1] = a /\ t[2] = b /\ t[3] = c
  OBVIOUS
<1>4. \A i \in 1..3 : i = 1 \/ i = 2 \/ i = 3
  OBVIOUS
<1> HIDE DEF q, S, t
<1>5. q = t
  BY <1>2, <1>3, <1>4, SeqEqual
<1> QED
  BY <1>5 DEF q, t

LEMMA ThreeAndThree ==
  ASSUME NEW a, NEW b, NEW c, NEW d, NEW e, NEW f
  PROVE  <<a, b, c>> \o <<d, e, f>> = <<a, b, c, d, e, f>>
<1> DEFINE S == {a, b, c, d, e, f}
           q == <<a, b, c>> \o <<d, e, f>>
<1>1. /\ <<a, b, c>> \in Seq(S) /\ <<d, e, f>> \in Seq(S)
      /\ Len(<<a, b, c>>) = 3 /\ Len(<<d, e, f>>) = 3
  OBVIOUS
<1>2. /\ q \in Seq(S) /\ Len(q) = 6 /\ q[1] = a /\ q[2] = b /\ q[3] = c
      /\ q[3 + 1] = d /\ q[3 + 2] = e /\ q[3 + 3] = f
  <2>1. 1 \in 1..3 /\ 2 \in 1..3 /\ 3 \in 1..3 /\ 3 + 3 = 6
    OBVIOUS
  <2>2. /\ <<a, b, c>>[1] = a /\ <<a, b, c>>[2] = b /\ <<a, b, c>>[3] = c
        /\ <<d, e, f>>[1] = d /\ <<d, e, f>>[2] = e /\ <<d, e, f>>[3] = f
    OBVIOUS
  <2> HIDE DEF S
  <2> QED
    BY <1>1, <2>1, <2>2, Joined
<1> DEFINE t == <<a, b, c, d, e, f>>
<1>3. /\ t \in Seq(S) /\ Len(t) = 6
      /\ t[1] = a /\ t[2] = b /\ t[3] = c /\ t[4] = d /\ t[5] = e /\ t[6] = f
  OBVIOUS
<1>4. \A i \in 1..6 : i \in {1, 2, 3, 3 + 1, 3 + 2, 3 + 3}
  OBVIOUS
<1> HIDE DEF q, S, t
<1>5. \A i \in 1..6 : q[i] = t[i]
  BY <1>2, <1>3, <1>4
<1>6. q = t
  BY <1>2, <1>3, <1>5, SeqEqual
<1> QED
  BY <1>6 DEF q, t

Inspecting(request) == request.capability \in {"machine.status", "policy.inspect"}
InWork(request) ==
  \E s \in request.subject : s.kind = "path" /\ PathContains(Workspace, s.value)
OfBasics(request) == \E s \in request.subject : s.kind = "executable" /\ s.value \in Basics

LEMMA RuleFields ==
  ASSUME NEW capabilities, NEW subjects, NEW decision, NEW request
  PROVE  /\ Rule(capabilities, subjects, decision).decision = decision
         /\ MatchRule(Rule(capabilities, subjects, decision), request) =>
              /\ request.capability \in capabilities
              /\ \A group \in subjects :
                   \E subject \in group : \E s \in request.subject : SubjectsMatch(subject, s)
BY DEF Rule, MatchRule

LEMMA RuleInWork ==
  ASSUME NEW capabilities, NEW decision, NEW request,
         MatchRule(Rule(capabilities, InWorkspace, decision), request)
  PROVE  InWork(request)
<1> DEFINE work == [kind |-> "path", value |-> Workspace]
<1>1. \A group \in {{work}} :
        \E subject \in group : \E s \in request.subject : SubjectsMatch(subject, s)
  <2>1. InWorkspace = {{work}}
    BY DEF InWorkspace
  <2> HIDE DEF work
  <2> QED
    BY <2>1, RuleFields
<1>2. \E s \in request.subject : SubjectsMatch(work, s)
  <2> HIDE DEF work
  <2> QED
    BY <1>1
<1> QED
  BY <1>2 DEF SubjectsMatch, InWork

LEMMA InspectionRule ==
  /\ DOMAIN InspectionRules = {1} /\ InspectionRules[1].decision = "allow"
  /\ \A request : MatchRule(InspectionRules[1], request) => Inspecting(request)
<1> DEFINE rule == Rule({"machine.status", "policy.inspect"}, Anything, "allow")
<1>1. rule.decision = "allow" /\ \A request : MatchRule(rule, request) => Inspecting(request)
  BY RuleFields DEF Inspecting
<1>2. InspectionRules = <<rule>>
  BY DEF InspectionRules
<1> HIDE DEF rule
<1> QED
  BY <1>1, <1>2

LEMMA ConfirmAllAllows ==
  ASSUME ConfirmAll \in Profile, NEW request, EvaluatePolicy(ConfirmAll, request) = "allow"
  PROVE  Inspecting(request)
<1>1. ConfirmAll.defaultDecision = "prompt" /\ ConfirmAll.rules = InspectionRules
  BY DEF ConfirmAll, ProfileOf
<1> QED
  BY <1>1, AllowedBy, InspectionRule

LEMMA ConfirmMutationsAllows ==
  ASSUME ConfirmMutations \in Profile, NEW request,
         EvaluatePolicy(ConfirmMutations, request) = "allow"
  PROVE  Inspecting(request) \/ (request.capability = "fs.read" /\ InWork(request))
<1> DEFINE rules == ConfirmMutations.rules
           read == Rule({"fs.read"}, InWorkspace, "allow")
           rest == Rule({"fs.create", "fs.write", "fs.delete", "process.execute.sandboxed",
            "process.execute.unsandboxed", "process.network", "desktop.observe",
            "desktop.control", "clipboard.read", "clipboard.write",
            "transfer.import", "transfer.export"}, Anything, "prompt")
<1>1. ConfirmMutations.defaultDecision = "deny" /\ rules = InspectionRules \o <<read, rest>>
  BY DEF ConfirmMutations, ProfileOf
<1>2. rules = <<InspectionRules[1], read, rest>>
  <2> DEFINE inspect == InspectionRules[1]
  <2>1. InspectionRules = <<inspect>>
    BY DEF InspectionRules
  <2> HIDE DEF read, rest, rules, inspect
  <2>2. rules = <<inspect, read, rest>>
    BY <1>1, <2>1, OneAndTwo
  <2> QED
    BY <2>2 DEF inspect
<1>3. rest.decision = "prompt"
  BY DEF Rule
<1>4. MatchRule(read, request) => request.capability = "fs.read" /\ InWork(request)
  BY RuleFields, RuleInWork
<1>5. \E i \in DOMAIN rules : MatchRule(rules[i], request) /\ rules[i].decision = "allow"
  BY <1>1, AllowedBy
<1> HIDE DEF read, rest, rules
<1>6. DOMAIN rules = 1..3 /\ rules[1] = InspectionRules[1] /\ rules[2] = read /\ rules[3] = rest
  BY <1>2
<1>7. MatchRule(InspectionRules[1], request) \/ MatchRule(read, request)
  <2>1. PICK i \in 1..3 : MatchRule(rules[i], request) /\ rules[i].decision = "allow"
    BY <1>5, <1>6
  <2>2. i = 1 \/ i = 2 \/ i = 3
    OBVIOUS
  <2> QED
    BY <1>3, <1>6, <2>1, <2>2
<1>8. MatchRule(InspectionRules[1], request) => Inspecting(request)
  BY InspectionRule
<1> QED
  BY <1>4, <1>7, <1>8

MostlyRules == <<InspectionRules[1], WorkspaceRules[1], WorkspaceRules[2],
  Rule({"process.execute.sandboxed", "process.network"}, Anything, "allow"),
  Rule({"process.execute.unsandboxed"}, Anything, "prompt"),
  Rule({"desktop.observe", "desktop.control"},
       {{[kind |-> "executable", value |-> app] : app \in Basics}}, "allow")>>

MostlyAllowed(request) ==
  \/ Inspecting(request)
  \/ /\ request.capability \in {"fs.read", "fs.create", "fs.write", "transfer.import", "transfer.export"}
     /\ InWork(request)
  \/ request.capability \in {"process.execute.sandboxed", "process.network"}
  \/ request.capability \in {"desktop.observe", "desktop.control"} /\ OfBasics(request)

LEMMA MostlyUnattendedAllows ==
  ASSUME MostlyUnattended \in Profile, NEW request,
         EvaluatePolicy(MostlyUnattended, request) = "allow"
  PROVE  MostlyAllowed(request)
<1> DEFINE process == Rule({"process.execute.sandboxed", "process.network"}, Anything, "allow")
           unsandboxed == Rule({"process.execute.unsandboxed"}, Anything, "prompt")
           apps == Rule({"desktop.observe", "desktop.control"},
                        {{[kind |-> "executable", value |-> app] : app \in Basics}}, "allow")
<1>1. MostlyUnattended.defaultDecision = "deny"
  BY DEF MostlyUnattended, ProfileOf
<1>2. MostlyUnattended.rules = MostlyRules
  <2>1. MostlyUnattended.rules
          = InspectionRules \o WorkspaceRules \o <<process, unsandboxed, apps>>
    BY DEF MostlyUnattended, ProfileOf
  <2>2. InspectionRules = <<InspectionRules[1]>> /\ WorkspaceRules = <<WorkspaceRules[1], WorkspaceRules[2]>>
    BY DEF InspectionRules, WorkspaceRules
  <2>3. MostlyRules = <<InspectionRules[1], WorkspaceRules[1], WorkspaceRules[2], process, unsandboxed, apps>>
    BY DEF MostlyRules
  <2> HIDE DEF process, unsandboxed, apps
  <2>6. InspectionRules \o WorkspaceRules = <<InspectionRules[1], WorkspaceRules[1], WorkspaceRules[2]>>
    BY <2>2, OneAndTwo
  <2> QED
    BY <2>1, <2>3, <2>6, ThreeAndThree
<1>3. PICK i \in DOMAIN MostlyRules :
        MatchRule(MostlyRules[i], request) /\ MostlyRules[i].decision = "allow"
  BY <1>1, <1>2, AllowedBy
<1>4. /\ MostlyRules[1] = InspectionRules[1] /\ MostlyRules[2] = WorkspaceRules[1]
      /\ MostlyRules[3] = WorkspaceRules[2] /\ MostlyRules[4] = process
      /\ MostlyRules[5] = unsandboxed /\ MostlyRules[6] = apps
      /\ DOMAIN MostlyRules = 1..6
  BY DEF MostlyRules
<1>5. WorkspaceRules[2].decision = "prompt" /\ unsandboxed.decision = "prompt"
  <2>1. WorkspaceRules[2] = Rule({"fs.delete"}, InWorkspace, "prompt")
    BY DEF WorkspaceRules
  <2>2. WorkspaceRules[2].decision = "prompt"
    BY <2>1 DEF Rule
  <2>3. unsandboxed.decision = "prompt"
    BY DEF Rule
  <2> QED
    BY <2>2, <2>3
<1>6. i \in {1, 2, 4, 6}
  BY <1>3, <1>4, <1>5
<1>7. CASE i = 1
  BY <1>3, <1>4, <1>7, InspectionRule DEF MostlyAllowed
<1>8. CASE i = 2
  <2>1. WorkspaceRules[1] = Rule({"fs.read", "fs.create", "fs.write", "transfer.import", "transfer.export"},
                                 InWorkspace, "allow")
    BY DEF WorkspaceRules
  <2> QED
    BY <1>3, <1>4, <1>8, <2>1, RuleFields, RuleInWork DEF MostlyAllowed
<1>9. CASE i = 4
  BY <1>3, <1>4, <1>9, RuleFields DEF MostlyAllowed
<1>10. CASE i = 6
  <2>1. MatchRule(apps, request)
    BY <1>3, <1>4, <1>10
  <2>2. request.capability \in {"desktop.observe", "desktop.control"}
    BY <2>1, RuleFields
  <2>3. \E subject \in {[kind |-> "executable", value |-> app] : app \in Basics} :
           \E s \in request.subject : SubjectsMatch(subject, s)
    BY <2>1, RuleFields
  <2>4. OfBasics(request)
    BY <2>3 DEF SubjectsMatch, OfBasics
  <2> QED
    BY <2>2, <2>4 DEF MostlyAllowed
<1> QED
  BY <1>6, <1>7, <1>8, <1>9, <1>10

LEMMA YoloAllows ==
  ASSUME Yolo \in Profile, NEW request
  PROVE  EvaluatePolicy(Yolo, request) = "allow"
<1>1. Yolo.defaultDecision = "allow" /\ Yolo.rules = InspectionRules
  BY DEF Yolo, ProfileOf
<1> QED
  BY <1>1, AlwaysAllowed, InspectionRule

-----------------------------------------------------------------------------
(* The words of the profiles, tool by tool. *)

\* The paths each tool of the catalog takes.
Touched(tool) ==
  CASE tool \in DOMAIN FileReaders \cup {"fs_write", "fs_replace", "fs_mkdir", "fs_delete", "file_export"} ->
         {"path"}
    [] tool \in {"fs_copy", "fs_move"} -> {"source", "destination"}
    [] tool = "file_import" -> {"destination"}
    [] OTHER -> {}

Inspectors ==
  DOMAIN InspectionTools \cup {"process_poll", "process_list", "desktop_status", "desktop_list_windows"}

Catalogued(family) ==
  \A tool \in DOMAIN family :
    /\ family[tool].required \cap {"path", "source", "destination"} \subseteq Touched(tool)
    /\ tool \in Inspectors \cup DOMAIN FileReaders => family[tool].readOnly

LEMMA FamiliesCatalogued == \A family \in Families : Catalogued(family)
<1> USE Domains DEF Catalogued, Touched, Inspectors, Tool
<1>1. Catalogued(InspectionTools) BY DEF InspectionTools
<1>2. Catalogued(FileReaders) BY DEF FileReaders
<1>3. Catalogued(TextWriters) BY DEF TextWriters
<1>4. Catalogued(TreeTools) BY DEF TreeTools
<1>5. Catalogued(TransferTools) BY DEF TransferTools
<1>6. Catalogued(ProcessRun) BY DEF ProcessRun
<1>13. Catalogued(ProcessStart) BY DEF ProcessStart
<1>7. Catalogued(SessionTools)
  <2>1. \A tool \in DOMAIN SessionTools : SessionTools[tool].required \subseteq {"session_id"}
    <3>1. SessionTools["process_poll"].required = {"session_id"} /\ SessionTools["process_list"].required = {}
      BY DEF SessionTools
    <3>2. /\ SessionTools["process_stdin"].required = {"session_id"}
          /\ SessionTools["process_terminate"].required = {"session_id"}
      BY DEF SessionTools
    <3> QED
      BY <3>1, <3>2
  <2>2. SessionTools["process_poll"].readOnly /\ SessionTools["process_list"].readOnly
    BY DEF SessionTools
  <2> QED
    BY <2>1, <2>2
<1>8. Catalogued(DesktopReaders) BY DEF DesktopReaders
<1>9. Catalogued(ClickTools) /\ Catalogued(DragTools) BY DEF ClickTools, DragTools, Aim
<1>10. Catalogued(KeyboardTools) BY DEF KeyboardTools
<1>11. Catalogued(ClipboardTools) BY DEF ClipboardTools
<1>12. Catalogued(LaunchTools) BY DEF LaunchTools
<1> HIDE DEF Catalogued
<1> QED
  BY <1>1, <1>2, <1>3, <1>4, <1>5, <1>6, <1>7, <1>8, <1>9, <1>10, <1>11, <1>12, <1>13 DEF Families

LEMMA PathsTouched ==
  ASSUME NEW tool \in DOMAIN WorkerToolCatalog
  PROVE  /\ PathArguments(tool) \subseteq Touched(tool)
         /\ tool \in Inspectors \cup DOMAIN FileReaders => ReadOnly(tool)
<1> DEFINE family == CHOOSE family \in Families : tool \in DOMAIN family
<1>1. \E f \in Families : tool \in DOMAIN f
  BY DEF WorkerToolCatalog
<1>2. family \in Families /\ tool \in DOMAIN family
  BY <1>1
<1>3. WorkerToolCatalog[tool] = family[tool]
  BY DEF WorkerToolCatalog
<1>4. Catalogued(family)
  BY <1>2, FamiliesCatalogued
<1> HIDE DEF family
<1> QED
  BY <1>2, <1>3, <1>4 DEF Catalogued, PathArguments, ReadOnly

\* A handler asks for this, whatever else it asks for.
Asks(actions, capability, kind, value) ==
  \E n \in DOMAIN actions :
    /\ actions[n].request.capability = capability
    /\ actions[n].request.subject = {[kind |-> kind, value |-> value]}

LEMMA AskedAlone ==
  ASSUME NEW tool, NEW capability, NEW kind, NEW value, NEW summary
  PROVE  Asks(<<Action(tool, capability, kind, value, summary)>>, capability, kind, value)
<1> DEFINE a == Action(tool, capability, kind, value, summary)
<1>1. a.request.capability = capability /\ a.request.subject = {[kind |-> kind, value |-> value]}
  BY DEF Action
<1> HIDE DEF a
<1>2. 1 \in DOMAIN <<a>> /\ <<a>>[1] = a
  OBVIOUS
<1>3. Asks(<<a>>, capability, kind, value)
  BY <1>1, <1>2 DEF Asks
<1> QED
  BY <1>3 DEF a

LEMMA AskedBoth ==
  ASSUME NEW a, NEW b, NEW capability, NEW kind, NEW value,
         Asks(<<a>>, capability, kind, value) \/ Asks(<<b>>, capability, kind, value)
  PROVE  Asks(<<a, b>>, capability, kind, value)
<1>1. /\ DOMAIN <<a>> = {1} /\ <<a>>[1] = a /\ DOMAIN <<b>> = {1} /\ <<b>>[1] = b
      /\ DOMAIN <<a, b>> = {1, 2} /\ <<a, b>>[1] = a /\ <<a, b>>[2] = b
  OBVIOUS
<1> QED
  BY <1>1 DEF Asks

\* What each tool asks for, path by path and program by program.
LEMMA PathToolsAsk ==
  ASSUME NEW tool, NEW args, NEW mode, NEW found, NEW apps
  PROVE  LET actions == Actions(tool, args, mode, found, apps)
         IN /\ tool \in DOMAIN FileReaders => Asks(actions, "fs.read", "path", args.path)
            /\ tool \in {"fs_write", "fs_replace", "fs_mkdir"} =>
                 \E c \in {"fs.write", "fs.create"} : Asks(actions, c, "path", args.path)
            /\ tool \in {"fs_copy", "fs_move"} =>
                 /\ Asks(actions, IF tool = "fs_copy" THEN "fs.read" ELSE "fs.delete", "path", args.source)
                 /\ \E c \in {"fs.write", "fs.create"} : Asks(actions, c, "path", args.destination)
            /\ tool = "fs_delete" => Asks(actions, "fs.delete", "path", args.path)
            /\ tool = "file_import" => Asks(actions, "transfer.import", "path", args.destination)
            /\ tool = "file_export" => Asks(actions, "transfer.export", "path", args.path)
<1> DEFINE actions == Actions(tool, args, mode, found, apps)
<1> USE DEF OnPath
<1>1. ASSUME tool \in DOMAIN FileReaders PROVE Asks(actions, "fs.read", "path", args.path)
  <2>1. actions = ReadActions(tool, args)
    BY <1>1, Domains DEF Actions, WindowTools
  <2> QED
    BY <2>1, AskedAlone DEF ReadActions
<1>2. ASSUME tool \in {"fs_write", "fs_replace", "fs_mkdir"}
      PROVE  \E c \in {"fs.write", "fs.create"} : Asks(actions, c, "path", args.path)
  <2>1. actions = WriteActions(tool, args, found)
    BY <1>2, Domains DEF Actions, WindowTools
  <2>2. \E c \in {"fs.write", "fs.create"} : \E summary :
          WriteActions(tool, args, found) = <<Action(tool, c, "path", args.path, summary)>>
    <3>1. CASE tool = "fs_write"
      BY <3>1 DEF WriteActions, ChangeOf
    <3>2. CASE tool = "fs_replace"
      BY <3>2 DEF WriteActions
    <3>3. CASE tool = "fs_mkdir"
      BY <3>3 DEF WriteActions
    <3> QED
      BY <1>2, <3>1, <3>2, <3>3
  <2> QED
    BY <2>1, <2>2, AskedAlone
<1>3. ASSUME tool \in {"fs_copy", "fs_move"}
      PROVE  /\ Asks(actions, IF tool = "fs_copy" THEN "fs.read" ELSE "fs.delete", "path", args.source)
             /\ \E c \in {"fs.write", "fs.create"} : Asks(actions, c, "path", args.destination)
  <2> DEFINE c == IF tool = "fs_copy" THEN "fs.read" ELSE "fs.delete"
             source == OnPath(tool, c, args.source, <<"Source", args.source>>)
             destination == OnPath(tool, ChangeOf(found), args.destination,
                                   <<"Destination", args.source, args.destination>>)
  <2>1. actions = <<source, destination>>
    <3>1. actions = TwoPathActions(tool, args, found)
      BY <1>3, Domains DEF Actions, WindowTools
    <3> QED
      BY <3>1 DEF TwoPathActions
  <2>2. Asks(<<source>>, c, "path", args.source)
    BY AskedAlone
  <2>3. Asks(<<destination>>, ChangeOf(found), "path", args.destination)
    BY AskedAlone
  <2>4. ChangeOf(found) \in {"fs.write", "fs.create"}
    BY DEF ChangeOf
  <2> HIDE DEF source, destination, actions, c
  <2>5. Asks(actions, c, "path", args.source) /\ Asks(actions, ChangeOf(found), "path", args.destination)
    BY <2>1, <2>2, <2>3, AskedBoth
  <2> QED
    BY <2>4, <2>5 DEF c
<1>4. ASSUME tool = "fs_delete" PROVE Asks(actions, "fs.delete", "path", args.path)
  <2>1. actions = DeleteActions(tool, args)
    BY <1>4, Domains DEF Actions, WindowTools
  <2> QED
    BY <2>1, AskedAlone DEF DeleteActions
<1>5. ASSUME tool = "file_import" PROVE Asks(actions, "transfer.import", "path", args.destination)
  <2>1. actions = ImportActions(tool, args)
    BY <1>5, Domains DEF Actions, WindowTools
  <2> QED
    BY <2>1, AskedAlone DEF ImportActions
<1>6. ASSUME tool = "file_export" PROVE Asks(actions, "transfer.export", "path", args.path)
  <2>1. actions = ExportActions(tool, args)
    BY <1>6, Domains DEF Actions, WindowTools
  <2> QED
    BY <2>1, AskedAlone DEF ExportActions
<1> HIDE DEF actions
<1>7. /\ tool \in DOMAIN FileReaders => Asks(actions, "fs.read", "path", args.path)
      /\ tool \in {"fs_write", "fs_replace", "fs_mkdir"} =>
           \E c \in {"fs.write", "fs.create"} : Asks(actions, c, "path", args.path)
      /\ tool \in {"fs_copy", "fs_move"} =>
           /\ Asks(actions, IF tool = "fs_copy" THEN "fs.read" ELSE "fs.delete", "path", args.source)
           /\ \E c \in {"fs.write", "fs.create"} : Asks(actions, c, "path", args.destination)
      /\ tool = "fs_delete" => Asks(actions, "fs.delete", "path", args.path)
      /\ tool = "file_import" => Asks(actions, "transfer.import", "path", args.destination)
      /\ tool = "file_export" => Asks(actions, "transfer.export", "path", args.path)
  BY <1>1, <1>2, <1>3, <1>4, <1>5, <1>6
<1> QED
  BY <1>7 DEF actions

PathTools ==
  DOMAIN FileReaders
    \cup {"fs_write", "fs_replace", "fs_mkdir", "fs_copy", "fs_move", "fs_delete", "file_import", "file_export"}
RunTools == {"process_run", "process_start"}
InputTools == {"process_stdin", "process_terminate"}

LEMMA ProgramToolsAsk ==
  ASSUME NEW tool, NEW args, NEW mode, NEW found, NEW apps
  PROVE  LET actions == Actions(tool, args, mode, found, apps)
         IN /\ tool \in RunTools =>
                 Asks(actions, Capability(ActualMode(args.mode, mode)), "executable", args.spec)
            /\ tool \in InputTools =>
                 Asks(actions, "process.execute.unsandboxed", "special", <<"process://session">>)
            /\ tool = "desktop_capture" =>
                 IF "window_id" \in DOMAIN args
                 THEN Asks(actions, "desktop.observe", "executable", apps[args.window_id])
                 ELSE Asks(actions, "desktop.observe", "special", <<"desktop://session">>)
            /\ tool \in WindowTools =>
                 Asks(actions, "desktop.control", "executable", apps[args.window_id])
            /\ tool = "clipboard_read" =>
                 Asks(actions, "clipboard.read", "special", <<"clipboard://session">>)
            /\ tool = "clipboard_write" =>
                 Asks(actions, "clipboard.write", "special", <<"clipboard://session">>)
            /\ tool \notin PathTools \cup RunTools \cup InputTools \cup WindowTools
                       \cup Inspectors \cup DOMAIN ClipboardTools \cup {"desktop_capture"} =>
                 Asks(actions, "desktop.control", "executable", args.executable)
<1> DEFINE actions == Actions(tool, args, mode, found, apps)
           last == tool \notin PathTools \cup RunTools \cup InputTools \cup WindowTools
                       \cup Inspectors \cup DOMAIN ClipboardTools \cup {"desktop_capture"}
<1> USE DEF OnSpecial
<1>1. ASSUME tool \in RunTools
      PROVE  Asks(actions, Capability(ActualMode(args.mode, mode)), "executable", args.spec)
  <2> DEFINE c == Capability(ActualMode(args.mode, mode))
             network == OnSpecial(tool, "process.network", "network://outbound", <<"Allow network", args.spec>>)
             run == Action(tool, c, "executable", args.spec, RunSummary(args, mode))
  <2>1. actions = IF args.network THEN <<network, run>> ELSE <<run>>
    <3>1. actions = RunActions(tool, args, mode)
      BY <1>1, AsksToRun DEF RunTools
    <3> QED
      BY <3>1 DEF RunActions
  <2>2. Asks(<<run>>, c, "executable", args.spec)
    BY AskedAlone
  <2> HIDE DEF network, run, c, actions
  <2>3. Asks(<<network, run>>, c, "executable", args.spec)
    BY <2>2, AskedBoth
  <2>4. Asks(actions, c, "executable", args.spec)
    BY <2>1, <2>2, <2>3
  <2> QED
    BY <2>4 DEF c
<1>2. ASSUME tool \in InputTools
      PROVE  Asks(actions, "process.execute.unsandboxed", "special", <<"process://session">>)
  <2>1. actions = SessionActions(tool, args)
    BY <1>2, Domains DEF Actions, WindowTools, InputTools
  <2>2. SessionActions(tool, args)
          = <<Action(tool, "process.execute.unsandboxed", "special", <<"process://session">>, <<tool>>)>>
    BY <1>2 DEF SessionActions, InputTools
  <2> QED
    BY <2>1, <2>2, AskedAlone
<1>3. ASSUME tool = "desktop_capture"
      PROVE  IF "window_id" \in DOMAIN args
             THEN Asks(actions, "desktop.observe", "executable", apps[args.window_id])
             ELSE Asks(actions, "desktop.observe", "special", <<"desktop://session">>)
  <2>1. actions = DesktopActions(tool, args, apps)
    BY <1>3, Domains DEF Actions, WindowTools
  <2>2. CASE "window_id" \in DOMAIN args
    <3>1. actions = <<Action(tool, "desktop.observe", "executable", apps[args.window_id],
                             <<tool, args.window_id>>)>>
      BY <1>3, <2>1, <2>2 DEF DesktopActions
    <3> QED
      BY <2>2, <3>1, AskedAlone
  <2>3. CASE "window_id" \notin DOMAIN args
    <3>1. actions = <<Action(tool, "desktop.observe", "special", <<"desktop://session">>, <<tool>>)>>
      BY <1>3, <2>1, <2>3 DEF DesktopActions
    <3> QED
      BY <2>3, <3>1, AskedAlone
  <2> QED
    BY <2>2, <2>3
<1>4. ASSUME tool \in WindowTools
      PROVE  Asks(actions, "desktop.control", "executable", apps[args.window_id])
  <2>1. actions = WindowActions(tool, args, apps)
    BY <1>4, Domains DEF Actions, WindowTools
  <2> QED
    BY <2>1, AskedAlone DEF WindowActions
<1>5. ASSUME tool \in DOMAIN ClipboardTools
      PROVE  Asks(actions, IF tool = "clipboard_read" THEN "clipboard.read" ELSE "clipboard.write",
                  "special", <<"clipboard://session">>)
  <2>1. actions = ClipboardActions(tool)
    BY <1>5, Domains DEF Actions, WindowTools
  <2> QED
    BY <2>1, AskedAlone DEF ClipboardActions
<1>6. ASSUME last PROVE Asks(actions, "desktop.control", "executable", args.executable)
  <2>1. actions = LaunchActions(tool, args)
    BY <1>6, Domains DEF Actions, PathTools, RunTools, InputTools, Inspectors
  <2> QED
    BY <2>1, AskedAlone DEF LaunchActions
<1> HIDE DEF actions
<1>7. /\ tool \in RunTools =>
           Asks(actions, Capability(ActualMode(args.mode, mode)), "executable", args.spec)
      /\ tool \in InputTools =>
           Asks(actions, "process.execute.unsandboxed", "special", <<"process://session">>)
      /\ tool = "desktop_capture" =>
           IF "window_id" \in DOMAIN args
           THEN Asks(actions, "desktop.observe", "executable", apps[args.window_id])
           ELSE Asks(actions, "desktop.observe", "special", <<"desktop://session">>)
      /\ tool \in WindowTools =>
           Asks(actions, "desktop.control", "executable", apps[args.window_id])
      /\ tool = "clipboard_read" =>
           Asks(actions, "clipboard.read", "special", <<"clipboard://session">>)
      /\ tool = "clipboard_write" =>
           Asks(actions, "clipboard.write", "special", <<"clipboard://session">>)
      /\ last => Asks(actions, "desktop.control", "executable", args.executable)
  BY <1>1, <1>2, <1>3, <1>4, <1>5, <1>6, Domains
<1> QED
  BY <1>7 DEF actions

\* A request is of the kind its only subject is.
LEMMA AskedFor ==
  ASSUME NEW request, NEW kind, NEW value,
         request.subject = {[kind |-> kind, value |-> value]}
  PROVE  /\ InWork(request) => kind = "path" /\ PathContains(Workspace, value)
         /\ OfBasics(request) => kind = "executable" /\ value \in Basics
<1>1. \A s \in request.subject : s.kind = kind /\ s.value = value
  OBVIOUS
<1> QED
  BY <1>1 DEF InWork, OfBasics

\* "confirm-all": who only inspects is one of the inspectors.
LEMMA OnlyInspects ==
  ASSUME NEW tool, NEW args, NEW mode, NEW found, NEW apps,
         \A n \in DOMAIN Actions(tool, args, mode, found, apps) :
           Inspecting(Actions(tool, args, mode, found, apps)[n].request)
  PROVE  tool \in Inspectors
<1> DEFINE actions == Actions(tool, args, mode, found, apps)
<1>1. \A capability, kind, value : Asks(actions, capability, kind, value) =>
         capability \in {"machine.status", "policy.inspect"}
  BY DEF Asks, Inspecting
<1>2. tool \notin PathTools
  BY <1>1, PathToolsAsk, Domains DEF PathTools
<1>3. Capability(ActualMode(args.mode, mode)) \notin {"machine.status", "policy.inspect"}
  BY DEF Capability
<1>4. tool \notin RunTools
  BY <1>1, <1>3, ProgramToolsAsk
<1>5. tool \notin InputTools \cup WindowTools \cup DOMAIN ClipboardTools \cup {"desktop_capture"}
  BY <1>1, ProgramToolsAsk, Domains
<1> QED
  BY <1>1, <1>2, <1>4, <1>5, ProgramToolsAsk

\* "confirm-mutations": who inspects or reads in the workspace only reads.
LEMMA OnlyReads ==
  ASSUME NEW tool \in DOMAIN WorkerToolCatalog, NEW args, NEW mode, NEW found, NEW apps,
         \A n \in DOMAIN Actions(tool, args, mode, found, apps) :
           LET request == Actions(tool, args, mode, found, apps)[n].request
           IN Inspecting(request) \/ (request.capability = "fs.read" /\ InWork(request))
  PROVE  ReadOnly(tool) /\ tool # "file_export" /\ WorkspaceOnly(tool, args)
<1> DEFINE actions == Actions(tool, args, mode, found, apps)
<1>1. \A capability, kind, value : Asks(actions, capability, kind, value) =>
         \/ capability \in {"machine.status", "policy.inspect"}
         \/ capability = "fs.read" /\ PathContains(Workspace, value)
  BY AskedFor DEF Asks, Inspecting
<1> HIDE DEF actions
<1>2. tool \notin PathTools \ DOMAIN FileReaders
  BY <1>1, PathToolsAsk, Domains DEF PathTools, actions
<1>3. Capability(ActualMode(args.mode, mode)) \notin {"machine.status", "policy.inspect", "fs.read"}
  BY DEF Capability
<1>4. tool \notin RunTools
  BY <1>1, <1>3, ProgramToolsAsk DEF actions
<1>5. tool \notin InputTools \cup WindowTools \cup DOMAIN ClipboardTools \cup {"desktop_capture"}
  BY <1>1, ProgramToolsAsk, Domains DEF actions
<1>6. tool \in Inspectors \cup DOMAIN FileReaders
  BY <1>1, <1>2, <1>4, <1>5, ProgramToolsAsk DEF actions
<1>7. ReadOnly(tool) /\ tool # "file_export"
  BY <1>6, PathsTouched, Domains DEF Inspectors
<1>8. CASE tool \in DOMAIN FileReaders
  <2>1. PathContains(Workspace, args.path)
    BY <1>1, <1>8, PathToolsAsk DEF actions
  <2>2. PathArguments(tool) \subseteq {"path"}
    BY <1>8, PathsTouched, Domains DEF Touched
  <2> QED
    BY <1>7, <2>1, <2>2 DEF WorkspaceOnly
<1>9. CASE tool \in Inspectors
  <2>1. PathArguments(tool) = {}
    BY <1>9, PathsTouched, Domains DEF Touched, Inspectors
  <2> QED
    BY <1>7, <2>1 DEF WorkspaceOnly
<1> QED
  BY <1>6, <1>8, <1>9

\* "mostly-unattended": the workspace, the sandbox and the basic programs.
LEMMA OnlyUnattended ==
  ASSUME NEW tool \in DOMAIN WorkerToolCatalog, NEW args, NEW mode, NEW found,
         \A n \in DOMAIN Actions(tool, args, mode, found, Apps) :
           MostlyAllowed(Actions(tool, args, mode, found, Apps)[n].request)
  PROVE  Unasked("mostly-unattended", tool, args, mode)
<1> DEFINE actions == Actions(tool, args, mode, found, Apps)
<1>1. \A capability, kind, value : Asks(actions, capability, kind, value) =>
         \/ capability \in {"machine.status", "policy.inspect"}
         \/ /\ capability \in {"fs.read", "fs.create", "fs.write", "transfer.import", "transfer.export"}
            /\ PathContains(Workspace, value)
         \/ capability \in {"process.execute.sandboxed", "process.network"}
         \/ /\ capability \in {"desktop.observe", "desktop.control"}
            /\ kind = "executable" /\ value \in Basics
  <2> SUFFICES ASSUME NEW capability, NEW kind, NEW value, NEW n \in DOMAIN actions,
                      actions[n].request.capability = capability,
                      actions[n].request.subject = {[kind |-> kind, value |-> value]}
               PROVE  \/ capability \in {"machine.status", "policy.inspect"}
                      \/ /\ capability \in {"fs.read", "fs.create", "fs.write",
                                             "transfer.import", "transfer.export"}
                         /\ PathContains(Workspace, value)
                      \/ capability \in {"process.execute.sandboxed", "process.network"}
                      \/ /\ capability \in {"desktop.observe", "desktop.control"}
                         /\ kind = "executable" /\ value \in Basics
    BY DEF Asks
  <2> DEFINE request == actions[n].request
  <2>1. MostlyAllowed(request)
    OBVIOUS
  <2>2. /\ InWork(request) => PathContains(Workspace, value)
        /\ OfBasics(request) => kind = "executable" /\ value \in Basics
    BY AskedFor
  <2> HIDE DEF actions
  <2> QED
    BY <2>1, <2>2 DEF MostlyAllowed, Inspecting
<1> HIDE DEF actions
<1>2. tool \notin {"fs_delete", "fs_move"}
  BY <1>1, PathToolsAsk DEF actions
<1>3. WorkspaceOnly(tool, args)
  <2>1. PathArguments(tool) \subseteq Touched(tool)
    BY PathsTouched
  <2>2. CASE tool \in DOMAIN FileReaders \cup {"fs_write", "fs_replace", "fs_mkdir", "file_export"}
    <3>1. PathContains(Workspace, args.path)
      BY <1>1, <2>2, PathToolsAsk DEF actions
    <3>2. Touched(tool) = {"path"}
      BY <2>2, Domains DEF Touched
    <3> QED
      BY <2>1, <3>1, <3>2 DEF WorkspaceOnly
  <2>3. CASE tool = "fs_copy"
    <3>1. PathContains(Workspace, args.source) /\ PathContains(Workspace, args.destination)
      BY <1>1, <2>3, PathToolsAsk DEF actions
    <3>2. Touched(tool) = {"source", "destination"}
      BY <2>3, Domains DEF Touched
    <3> QED
      BY <2>1, <3>1, <3>2 DEF WorkspaceOnly
  <2>4. CASE tool = "file_import"
    <3>1. PathContains(Workspace, args.destination)
      BY <1>1, <2>4, PathToolsAsk DEF actions
    <3>2. Touched(tool) = {"destination"}
      BY <2>4, Domains DEF Touched
    <3> QED
      BY <2>1, <3>1, <3>2 DEF WorkspaceOnly
  <2>5. CASE tool \notin PathTools
    <3>1. Touched(tool) = {}
      BY <2>5 DEF Touched, PathTools
    <3> QED
      BY <2>1, <3>1 DEF WorkspaceOnly
  <2> QED
    BY <1>2, <2>2, <2>3, <2>4, <2>5 DEF PathTools
<1>4. tool \in RunTools => ActualMode(args.mode, mode) = "strict"
  <2>1. tool \in RunTools => Capability(ActualMode(args.mode, mode)) # "process.execute.unsandboxed"
    BY <1>1, ProgramToolsAsk DEF actions
  <2> QED
    BY <2>1 DEF Capability
<1>5. tool \notin InputTools \cup DOMAIN ClipboardTools
  BY <1>1, ProgramToolsAsk, Domains DEF actions
<1>6. tool = "desktop_capture" => "window_id" \in DOMAIN args /\ Apps[args.window_id] \in Basics
  BY <1>1, ProgramToolsAsk DEF actions
<1>7. tool \in WindowTools => Apps[args.window_id] \in Basics
  BY <1>1, ProgramToolsAsk DEF actions
<1>8. tool = "desktop_launch" => args.executable \in Basics
  <2>1. "desktop_launch" \notin PathTools \cup RunTools \cup InputTools \cup WindowTools
                       \cup Inspectors \cup DOMAIN ClipboardTools \cup {"desktop_capture"}
    BY Domains DEF PathTools, RunTools, InputTools, WindowTools, Inspectors
  <2> QED
    BY <1>1, <2>1, ProgramToolsAsk DEF actions
<1> QED
  BY <1>2, <1>3, <1>4, <1>5, <1>6, <1>7, <1>8 DEF Unasked, RunTools, InputTools

\* A profile that is in force as shipped is one of the four.
LEMMA ShippedIs ==
  ASSUME ConfigTypeOK, ActiveAsShipped # "edited"
  PROVE  /\ Active \in Profile
         /\ \/ ActiveAsShipped = "confirm-all" /\ Active = ConfirmAll
            \/ ActiveAsShipped = "confirm-mutations" /\ Active = ConfirmMutations
            \/ ActiveAsShipped = "mostly-unattended" /\ Active = MostlyUnattended
            \/ ActiveAsShipped = "yolo" /\ Active = Yolo
<1>1. running \in Config
  BY DEF ConfigTypeOK
<1>2. Active \in Profile
  BY <1>1 DEF Config, Active
<1>3. /\ ActiveAsShipped = running.activeProfile
      /\ ActiveAsShipped \in DOMAIN DefaultConfig.profiles
      /\ Active = DefaultConfig.profiles[ActiveAsShipped]
  BY DEF ActiveAsShipped
<1>4. /\ DOMAIN DefaultConfig.profiles
           = {"confirm-all", "confirm-mutations", "mostly-unattended", "yolo"}
      /\ DefaultConfig.profiles["confirm-all"] = ConfirmAll
      /\ DefaultConfig.profiles["confirm-mutations"] = ConfirmMutations
      /\ DefaultConfig.profiles["mostly-unattended"] = MostlyUnattended
      /\ DefaultConfig.profiles["yolo"] = Yolo
  BY DEF DefaultConfig
<1> QED
  BY <1>2, <1>3, <1>4

\* What runs without a question was allowed, action by action.
LEMMA AllowedKeepsWord ==
  ASSUME ConfigTypeOK, NEW tool \in DOMAIN WorkerToolCatalog, NEW args, NEW mode, NEW found,
         ActiveAsShipped # "edited",
         \A n \in DOMAIN Actions(tool, args, mode, found, Apps) :
           EvaluatePolicy(Active, Actions(tool, args, mode, found, Apps)[n].request) = "allow"
  PROVE  Unasked(ActiveAsShipped, tool, args, mode)
<1> DEFINE actions == Actions(tool, args, mode, found, Apps)
<1>1. CASE ActiveAsShipped = "confirm-all" /\ Active = ConfirmAll
  <2>1. \A n \in DOMAIN actions : Inspecting(actions[n].request)
    BY <1>1, ShippedIs, ConfirmAllAllows
  <2>2. tool \in Inspectors
    BY <2>1, OnlyInspects
  <2> QED
    BY <1>1, <2>2 DEF Unasked, Inspectors
<1>2. CASE ActiveAsShipped = "confirm-mutations" /\ Active = ConfirmMutations
  <2>1. \A n \in DOMAIN actions :
          \/ Inspecting(actions[n].request)
          \/ actions[n].request.capability = "fs.read" /\ InWork(actions[n].request)
    BY <1>2, ShippedIs, ConfirmMutationsAllows
  <2>2. ReadOnly(tool) /\ tool # "file_export" /\ WorkspaceOnly(tool, args)
    BY <2>1, OnlyReads
  <2> QED
    BY <1>2, <2>2 DEF Unasked
<1>3. CASE ActiveAsShipped = "mostly-unattended" /\ Active = MostlyUnattended
  <2>1. \A n \in DOMAIN actions : MostlyAllowed(actions[n].request)
    BY <1>3, ShippedIs, MostlyUnattendedAllows
  <2> QED
    BY <1>3, <2>1, OnlyUnattended
<1>4. CASE ActiveAsShipped = "yolo" /\ Active = Yolo
  BY <1>4 DEF Unasked
<1> QED
  BY <1>1, <1>2, <1>3, <1>4, ShippedIs

LEMMA AuthorizeKeepsWord ==
  ASSUME ConfigTypeOK, JobOK(job), Authorize
  PROVE  ProfileKeepsItsWord'
<1> DEFINE actions == ActionsIn(Found)
           stops == {n \in DOMAIN actions : Verdict(actions[n]) # "allow"}
           first == CHOOSE n \in stops : \A m \in stops : n <= m
           now == [job EXCEPT !.found = Found, !.under = ActiveAsShipped]
           word == actions # <<>> /\ OnWord(actions[Len(actions)])
<1>1. job \in JobRecord /\ Validates(job.call.tool, job.call.args)
  BY DEF JobOK, JobActs, Authorize
<1>2. /\ now.found = Found /\ now.under = ActiveAsShipped /\ now.call = job.call
      /\ now.approved = job.approved
      /\ DOMAIN now = {"phase", "call", "question", "asked", "approved", "spent", "found",
                       "under", "onWord", "effects"}
  <2> HIDE DEF actions
  <2> QED
    BY <1>1 DEF JobRecord
<1>3. \/ stops = {} /\ job' = [now EXCEPT !.phase = "operating", !.onWord = word]
      \/ job' = [now EXCEPT !.phase = "ended"]
      \/ /\ Verdict(actions[first]) = "prompt"
         /\ job' = [now EXCEPT !.phase = "asked", !.question = actions[first].summary,
                               !.asked = Found, !.spent = FALSE]
  BY DEF Authorize
<1> HIDE DEF now
<1>4. CASE stops = {} /\ job' = [now EXCEPT !.phase = "operating", !.onWord = word]
  <2> HIDE DEF word
  <2>1. /\ job'.phase = "operating" /\ job'.call = job.call /\ job'.approved = job.approved
        /\ job'.under = ActiveAsShipped /\ job'.found = Found
    BY <1>2, <1>4
  <2>2. ASSUME job.approved = None, ActiveAsShipped # "edited"
        PROVE  Unasked(ActiveAsShipped, job.call.tool, Args, Found.mode)
    <3>1. \A n \in DOMAIN actions : Verdict(actions[n]) = "allow"
      BY <1>4
    <3>2. \A n \in DOMAIN actions : EvaluatePolicy(Active, actions[n].request) = "allow"
      BY <2>2, <3>1 DEF Verdict, OnWord, Decision
    <3>3. actions = Actions(job.call.tool, Args, Found.mode, Found.exists, Apps)
      BY DEF ActionsIn
    <3>4. job.call.tool \in DOMAIN WorkerToolCatalog
      BY <1>1 DEF Validates
    <3> HIDE DEF actions, stops, first
    <3> QED
      BY <2>2, <3>2, <3>3, <3>4, AllowedKeepsWord
  <2>3. Args' = Args
    BY <2>1 DEF Args
  <2> HIDE DEF actions, stops, first
  <2> QED
    BY <2>1, <2>2, <2>3 DEF ProfileKeepsItsWord
<1>5. CASE job' = [now EXCEPT !.phase = "ended"]
  <2>1. job'.phase = "ended"
    BY <1>2, <1>5
  <2> QED
    BY <2>1 DEF ProfileKeepsItsWord
<1>6. CASE /\ Verdict(actions[first]) = "prompt"
           /\ job' = [now EXCEPT !.phase = "asked", !.question = actions[first].summary,
                                 !.asked = Found, !.spent = FALSE]
  <2>1. EvaluatePolicy(Active, actions[first].request) = "prompt"
    BY <1>6 DEF Verdict, Decision
  <2>2. ActiveAsShipped # "yolo"
    BY <2>1, ShippedIs, YoloAllows
  <2> HIDE DEF actions, first
  <2>3. job'.phase = "asked" /\ job'.under = ActiveAsShipped
    BY <1>2, <1>6
  <2> QED
    BY <2>2, <2>3 DEF ProfileKeepsItsWord
<1> QED
  BY <1>3, <1>4, <1>5, <1>6

\* No other step comes to operate or to ask.
LEMMA OthersKeepWord ==
  ASSUME JobOK(job), ProfileKeepsItsWord, [SessionNext]_sessionVars, ~Authorize
  PROVE  ProfileKeepsItsWord'
<1>1. job \in JobRecord
  BY DEF JobOK
<1>2. CASE job'.phase \in {"queued", "handling", "ended"}
  BY <1>2 DEF ProfileKeepsItsWord
<1>3. CASE /\ job'.phase = job.phase /\ job'.approved = job.approved /\ job'.under = job.under
           /\ job'.call = job.call /\ job'.found = job.found
  <2>1. Args' = Args
    BY <1>3 DEF Args
  <2> QED
    BY <1>3, <2>1 DEF ProfileKeepsItsWord
<1>4. ASSUME NEW call \in Calls, BeginCall(call) PROVE job'.phase = "queued"
  BY <1>4, NewJobFields DEF BeginCall
<1>5. CASE Accept \/ GiveUp \/ RejectTicket \/ OperationFails \/ StartHandler \/ Operate
  <2>1. job'.phase \in {"queued", "handling", "ended"}
    BY <1>1, <1>5
       DEF Accept, GiveUp, RejectTicket, OperationFails, StartHandler, Operate, JobRecord
  <2> QED
    BY <1>2, <2>1
<1>6. ASSUME CutOff PROVE job'.phase \in {"queued", "ended"}
  BY <1>1, <1>6 DEF CutOff, Requeued, JobRecord
<1>7. ASSUME job' = [job EXCEPT !.spent = TRUE]
      PROVE  /\ job'.phase = job.phase /\ job'.approved = job.approved /\ job'.under = job.under
             /\ job'.call = job.call /\ job'.found = job.found
  BY <1>1, <1>7 DEF JobRecord
<1>8. CASE WorkerRestarts \/ LoseLease
  <2>1. CutOff \/ job' = [job EXCEPT !.spent = TRUE] \/ UNCHANGED job
    BY <1>8 DEF WorkerRestarts, LoseLease
  <2> QED
    BY <1>2, <1>3, <1>6, <1>7, <2>1
<1>9. CASE EditConfig \/ OtherProgram \/ UNCHANGED sessionVars
  BY <1>3, <1>9 DEF EditConfig, OtherProgram, sessionVars
<1> QED
  BY <1>2, <1>4, <1>5, <1>8, <1>9 DEF SessionNext

\* Under a profile as it was shipped nothing runs without a question but what
\* its description lets run, and "yolo" asks none: for any call of the 32
\* tools with any arguments, any window, workspace and configuration.
THEOREM ProfilesKeepTheirWord == SessionSpec => []ProfileKeepsItsWord
<1>1. SessionInit => ProfileKeepsItsWord
  <2> SUFFICES ASSUME SessionInit PROVE ProfileKeepsItsWord
    OBVIOUS
  <2>1. PICK call \in Calls : job = [NewJob(call) EXCEPT !.phase = "ended"]
    BY DEF SessionInit
  <2>2. job.phase = "ended"
    BY <2>1 DEF NewJob
  <2> QED
    BY <2>2 DEF ProfileKeepsItsWord
<1>2. /\ ConfigTypeOK /\ JobInv /\ ProfileKeepsItsWord /\ [SessionNext]_sessionVars
      => ProfileKeepsItsWord'
  BY AuthorizeKeepsWord, OthersKeepWord DEF JobInv
<1> QED
  BY <1>1, <1>2, SessionInvariant, PTL DEF SessionSpec
=============================================================================
