-------------------------- MODULE MCMachineSession --------------------------
(* The shipped configuration, rules a user might add, and a call for each   *)
(* way a tool asks.                                                         *)
EXTENDS MachineSession

Lengths == [n \in {"c:", "work", "a", "other", "notepad", "game"} |->
             CASE n = "c:" -> 2 [] n = "work" -> 4 [] n = "a" -> 1 [] n = "other" -> 5
               [] n = "notepad" -> 7 [] n = "game" -> 4]

Work == <<"c:", "work">>
File == <<"c:", "work", "a">>
Outside == <<"c:", "other">>
Notepad == <<"c:", "notepad">>
Game == <<"c:", "game">>

BasicApps == {Notepad}
WindowApps == [w1 |-> Notepad, w2 |-> Game]

\* Nothing is read any more; to read one file of the workspace is to ask.
UserRules == {Rule({"fs.read", "fs.delete"}, Anything, "deny"),
              Rule({"fs.read"}, {{[kind |-> "path", value |-> File]}}, "prompt")}

\* A user of "confirm-mutations" has made a copy of it without the sandbox.
FirstConfig ==
  [activeProfile |-> "confirm-mutations",
   profiles |-> DefaultConfig.profiles
                  @@ ("mine" :> [ConfirmMutations EXCEPT !.processMode = "policy-only"])]

Call(tool, args) == [tool |-> tool, args |-> args]
Click == [window_id |-> "w1", frame_id |-> "f", x |-> 1, y |-> 1]

AllCalls ==
  {Call("fs_read", [path |-> Outside]), Call("fs_read", [path |-> File]),
   Call("fs_write", [path |-> File, text |-> "t"]),
   Call("fs_write", [path |-> File]), Call("fs_mkdir", [path |-> File]),
   Call("fs_copy", [source |-> Work, destination |-> File]), Call("fs_delete", [path |-> File]),
   Call("file_export", [path |-> File]), Call("process_run", [spec |-> Game]),
   Call("process_run", [spec |-> Game, network |-> FALSE]),
   Call("process_poll", [session_id |-> "s", path |-> Outside, window_id |-> "w2"]),
   Call("desktop_click", Click), Call("desktop_capture", [window_id |-> "w2"])}

Asked ==
  {action.request : action \in UNION {Range(Actions(c.tool, Parsed(c.tool, c.args), "strict", e, WindowApps)) :
      c \in {d \in AllCalls : Validates(d.tool, d.args)}, e \in BOOLEAN}}
=============================================================================
