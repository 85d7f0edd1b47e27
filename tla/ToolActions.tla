----------------------------- MODULE ToolActions -----------------------------
(***************************************************************************)
(* What each tool's handler asks permission for before it operates: its    *)
(* calls of runtime.authorized, in order (server.ts, file-tools.ts,        *)
(* process-tools.ts, desktop-tools.ts).  All but the last only check a     *)
(* permission.                                                             *)
(*                                                                         *)
(* `args` are parsed arguments, `mode` the process mode of the active      *)
(* profile, `exists` whether there is a file under the path a tool would   *)
(* create, `apps` the executable of each window as windowInfo answers.     *)
(* A summary is what sets one question of a job apart from another.        *)
(***************************************************************************)
EXTENDS ToolCatalog, Sequences

Action(tool, capability, kind, value, summary) ==
  [request |-> [tool |-> tool, capability |-> capability,
                subject |-> {[kind |-> kind, value |-> value]}],
   summary |-> summary]

OnPath(tool, capability, path, summary) == Action(tool, capability, "path", path, summary)
OnSpecial(tool, capability, value, summary) == Action(tool, capability, "special", <<value>>, summary)

InspectionActions(tool) ==
  IF tool = "machine_status"
  THEN <<OnSpecial(tool, "machine.status", "machine://local", <<"Inspect">>)>>
  ELSE <<OnSpecial(tool, "policy.inspect", "policy://active", <<"Inspect">>)>>

ReadActions(tool, args) == <<OnPath(tool, "fs.read", args.path, <<"Read", args.path>>)>>

\* What exists is changed, what does not is created.
ChangeOf(exists) == IF exists THEN "fs.write" ELSE "fs.create"

WriteActions(tool, args, exists) ==
  CASE tool = "fs_write" ->
         <<OnPath(tool, ChangeOf(exists), args.path,
                  <<IF exists THEN "Replace" ELSE "Create", args.path>>)>>
    [] tool = "fs_replace" -> <<OnPath(tool, "fs.write", args.path, <<"Apply", args.path>>)>>
    [] OTHER -> <<OnPath(tool, "fs.create", args.path, <<"Create", args.path>>)>>

\* The first action is about the source, the second about the destination.
TwoPathActions(tool, args, exists) ==
  <<OnPath(tool, IF tool = "fs_copy" THEN "fs.read" ELSE "fs.delete", args.source,
           <<"Source", args.source>>),
    OnPath(tool, ChangeOf(exists), args.destination,
           <<"Destination", args.source, args.destination>>)>>

DeleteActions(tool, args) ==
  <<OnPath(tool, "fs.delete", args.path, <<"Delete", args.path, args.permanent>>)>>

ImportActions(tool, args) ==
  <<OnPath(tool, "transfer.import", args.destination, <<"Import", args.destination>>)>>
ExportActions(tool, args) ==
  <<OnPath(tool, "transfer.export", args.path, <<"Export", args.path>>)>>

ActualMode(requested, mode) ==
  IF requested = "profile" THEN (IF mode = "strict" THEN "strict" ELSE "unsandboxed") ELSE requested

\* Slip: the question does not say how the program will run.
RunSummaryShort(args, mode) == <<"Run", args.spec>>

RunSummary(args, mode) == <<"Run", args.spec, ActualMode(args.mode, mode), args.network>>

Capability(execution) ==
  IF execution = "strict" THEN "process.execute.sandboxed" ELSE "process.execute.unsandboxed"

RunActions(tool, args, mode) ==
  LET network == OnSpecial(tool, "process.network", "network://outbound", <<"Allow network", args.spec>>)
      run == Action(tool, Capability(ActualMode(args.mode, mode)), "executable", args.spec,
                    RunSummary(args, mode))
  IN IF args.network THEN <<network, run>> ELSE <<run>>

SessionActions(tool, args) ==
  LET session == IF tool = "process_list" THEN "process://sessions" ELSE "process://session"
  IN <<OnSpecial(tool,
         IF tool \in {"process_poll", "process_list"} THEN "machine.status"
         ELSE "process.execute.unsandboxed", session, <<tool>>)>>

\* Without a window the whole desktop is asked for.
DesktopActions(tool, args, apps) ==
  CASE tool = "desktop_status" -> <<OnSpecial(tool, "machine.status", "desktop://session", <<tool>>)>>
    [] tool = "desktop_list_windows" -> <<>>
    [] OTHER ->
         IF "window_id" \in DOMAIN args
         THEN <<Action(tool, "desktop.observe", "executable", apps[args.window_id], <<tool, args.window_id>>)>>
         ELSE <<OnSpecial(tool, "desktop.observe", "desktop://session", <<tool>>)>>

\* withWindowPolicy
WindowActions(tool, args, apps) ==
  <<Action(tool, "desktop.control", "executable", apps[args.window_id], <<tool, args.window_id>>)>>

ClipboardActions(tool) ==
  <<OnSpecial(tool, IF tool = "clipboard_read" THEN "clipboard.read" ELSE "clipboard.write",
              "clipboard://session", <<tool>>)>>

LaunchActions(tool, args) ==
  <<Action(tool, "desktop.control", "executable", args.executable, <<tool, args.executable>>)>>

WindowTools ==
  {"desktop_focus", "desktop_click", "desktop_scroll", "desktop_drag", "desktop_type", "desktop_key"}

Actions(tool, args, mode, exists, apps) ==
  CASE tool \in DOMAIN InspectionTools -> InspectionActions(tool)
    [] tool \in DOMAIN FileReaders -> ReadActions(tool, args)
    [] tool \in {"fs_write", "fs_replace", "fs_mkdir"} -> WriteActions(tool, args, exists)
    [] tool \in {"fs_copy", "fs_move"} -> TwoPathActions(tool, args, exists)
    [] tool = "fs_delete" -> DeleteActions(tool, args)
    [] tool = "file_import" -> ImportActions(tool, args)
    [] tool = "file_export" -> ExportActions(tool, args)
    [] tool \in {"process_run", "process_start"} -> RunActions(tool, args, mode)
    [] tool \in DOMAIN SessionTools -> SessionActions(tool, args)
    [] tool \in DOMAIN DesktopReaders -> DesktopActions(tool, args, apps)
    [] tool \in WindowTools -> WindowActions(tool, args, apps)
    [] tool \in DOMAIN ClipboardTools -> ClipboardActions(tool)
    [] OTHER -> LaunchActions(tool, args)

\* Capabilities under which nothing on the machine is changed.
Observing == {"machine.status", "policy.inspect", "fs.read", "transfer.export",
              "desktop.observe", "clipboard.read"}

\* Whether the operation, which runs under the last action, changes anything.
Changes(actions) ==
  actions # <<>> /\ actions[Len(actions)].request.capability \notin Observing
=============================================================================
