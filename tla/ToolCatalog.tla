----------------------------- MODULE ToolCatalog -----------------------------
(***************************************************************************)
(* The catalog of tools the relay offers (tool-catalog.ts), family by      *)
(* family: may a call be repeated, which arguments it must have and with   *)
(* what the others are filled in.  Titles, descriptions, the types of      *)
(* arguments and the hints nothing in src/ reads are left out.             *)
(***************************************************************************)

\* readOnlyHint, the required arguments and the defaults of others.
Tool(readOnly, required, defaults) ==
  [readOnly |-> readOnly, required |-> required, defaults |-> defaults]

None == <<>>

InspectionTools ==
  [machine_status |-> Tool(TRUE, {}, None),
   policy_explain |-> Tool(TRUE, {"tool", "capability"}, None)]

FileReaders ==
  [fs_list   |-> Tool(TRUE, {"path"}, None),
   fs_stat   |-> Tool(TRUE, {"path"}, [include_hash |-> TRUE]),
   fs_read   |-> Tool(TRUE, {"path"}, [offset |-> 0]),
   fs_search |-> Tool(TRUE, {"path", "query"},
                      [regex |-> FALSE, include_content |-> TRUE, max_results |-> 200])]

TextWriters ==
  [fs_write   |-> Tool(FALSE, {"path", "text"}, [create_parent |-> FALSE]),
   fs_replace |-> Tool(FALSE, {"path", "replacements"}, None)]

\* Slip: what may be done twice is taken for what changes nothing.
TreeToolsIdempotent ==
  [fs_mkdir  |-> Tool(TRUE, {"path"}, [recursive |-> TRUE]),
   fs_copy   |-> Tool(FALSE, {"source", "destination"}, [overwrite |-> FALSE]),
   fs_move   |-> Tool(FALSE, {"source", "destination"}, [overwrite |-> FALSE]),
   fs_delete |-> Tool(FALSE, {"path"}, [permanent |-> FALSE])]

TreeTools ==
  [fs_mkdir  |-> Tool(FALSE, {"path"}, [recursive |-> TRUE]),
   fs_copy   |-> Tool(FALSE, {"source", "destination"}, [overwrite |-> FALSE]),
   fs_move   |-> Tool(FALSE, {"source", "destination"}, [overwrite |-> FALSE]),
   fs_delete |-> Tool(FALSE, {"path"}, [permanent |-> FALSE])]

TransferTools ==
  [file_import |-> Tool(FALSE, {"file", "destination"}, None),
   file_export |-> Tool(TRUE, {"path"}, [expires_minutes |-> 30])]

ProcessDefaults ==
  [cwd |-> "pluginworkspace", environment |-> None, mode |-> "profile", network |-> TRUE]

ProcessRun ==
  [process_run |-> Tool(FALSE, {"spec"}, ProcessDefaults)]

ProcessStart ==
  [process_start |-> Tool(FALSE, {"spec"}, ProcessDefaults)]

SessionTools ==
  [process_poll      |-> Tool(TRUE, {"session_id"}, [after_offset |-> 0]),
   process_stdin     |-> Tool(FALSE, {"session_id"}, [text |-> "", close |-> FALSE]),
   process_terminate |-> Tool(FALSE, {"session_id"}, None),
   process_list      |-> Tool(TRUE, {}, None)]

DesktopReaders ==
  [desktop_status       |-> Tool(TRUE, {}, None),
   desktop_list_windows |-> Tool(TRUE, {}, None),
   desktop_capture      |-> Tool(TRUE, {}, None)]

Aim == {"window_id", "frame_id", "x", "y"}

ClickTools ==
  [desktop_focus |-> Tool(FALSE, {"window_id"}, None),
   desktop_click |-> Tool(FALSE, Aim, [button |-> "left", clicks |-> 1])]

DragTools ==
  [desktop_scroll |-> Tool(FALSE, Aim \cup {"delta"}, None),
   desktop_drag   |-> Tool(FALSE, {"window_id", "frame_id", "start_x", "start_y", "end_x", "end_y"},
                           [duration_ms |-> 400])]

KeyboardTools ==
  [desktop_type |-> Tool(FALSE, {"window_id", "text"}, [interval_ms |-> 0]),
   desktop_key  |-> Tool(FALSE, {"window_id", "keys"}, None)]

ClipboardTools ==
  [clipboard_read  |-> Tool(TRUE, {}, None),
   clipboard_write |-> Tool(FALSE, {"text"}, None)]

LaunchTools ==
  [desktop_launch |-> Tool(FALSE, {"executable"}, [args |-> None])]

Families ==
  {InspectionTools, FileReaders, TextWriters, TreeTools, TransferTools, ProcessRun, ProcessStart,
   SessionTools, DesktopReaders, ClickTools, DragTools, KeyboardTools, ClipboardTools, LaunchTools}

WorkerToolCatalog ==
  [tool \in UNION {DOMAIN family : family \in Families} |->
     (CHOOSE family \in Families : tool \in DOMAIN family)[tool]]

\* validateCall: an unknown tool or a missing argument is refused, the rest is
\* completed with the defaults before it is hashed and stored.
Validates(tool, args) ==
  tool \in DOMAIN WorkerToolCatalog /\ WorkerToolCatalog[tool].required \subseteq DOMAIN args

Parsed(tool, args) ==
  LET defaults == WorkerToolCatalog[tool].defaults
  IN [k \in DOMAIN args \cup DOMAIN defaults |-> IF k \in DOMAIN args THEN args[k] ELSE defaults[k]]

ReadOnly(tool) == WorkerToolCatalog[tool].readOnly
=============================================================================
