--------------------------- MODULE DefaultProfiles ---------------------------
(***************************************************************************)
(* The configuration a machine starts with (default-config.ts).            *)
(***************************************************************************)
EXTENDS Sequences

CONSTANTS
  Workspace,   \* the path of pluginworkspace
  Basics       \* the executables of Notepad, Calculator and Explorer

Rule(capabilities, subjects, decision) ==
  [capabilities |-> capabilities, tools |-> {}, subjects |-> subjects, decision |-> decision]

InWorkspace == {{[kind |-> "path", value |-> Workspace]}}
Anything == {}

\* Slip: deletes are granted together with the other changes.
WorkspaceRulesAllowed ==
  <<Rule({"fs.read", "fs.create", "fs.write", "fs.delete", "transfer.import", "transfer.export"},
         InWorkspace, "allow")>>

WorkspaceRules ==
  <<Rule({"fs.read", "fs.create", "fs.write", "transfer.import", "transfer.export"},
         InWorkspace, "allow"),
    Rule({"fs.delete"}, InWorkspace, "prompt")>>

InspectionRules == <<Rule({"machine.status", "policy.inspect"}, Anything, "allow")>>

ProfileOf(defaultDecision, processMode, rules) ==
  [defaultDecision |-> defaultDecision, processMode |-> processMode, rules |-> rules]

ConfirmAll == ProfileOf("prompt", "strict", InspectionRules)

ConfirmMutations ==
  ProfileOf("deny", "strict",
    InspectionRules \o
    <<Rule({"fs.read"}, InWorkspace, "allow"),
      Rule({"fs.create", "fs.write", "fs.delete", "process.execute.sandboxed",
            "process.execute.unsandboxed", "process.network", "desktop.observe",
            "desktop.control", "clipboard.read", "clipboard.write",
            "transfer.import", "transfer.export"}, Anything, "prompt")>>)

MostlyUnattended ==
  ProfileOf("deny", "strict",
    InspectionRules \o WorkspaceRules \o
    <<Rule({"process.execute.sandboxed", "process.network"}, Anything, "allow"),
      Rule({"process.execute.unsandboxed"}, Anything, "prompt"),
      Rule({"desktop.observe", "desktop.control"},
           {{[kind |-> "executable", value |-> app] : app \in Basics}}, "allow")>>)

Yolo == ProfileOf("allow", "policy-only", InspectionRules)

DefaultConfig ==
  [activeProfile |-> "mostly-unattended",
   profiles |->
     [p \in {"confirm-all", "confirm-mutations", "mostly-unattended", "yolo"} |->
        CASE p = "confirm-all"       -> ConfirmAll
          [] p = "confirm-mutations" -> ConfirmMutations
          [] p = "mostly-unattended" -> MostlyUnattended
          [] p = "yolo"              -> Yolo]]
=============================================================================
