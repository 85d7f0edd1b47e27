---------------------------- MODULE MCToolBridge ----------------------------
(* The tools of the runs, by job: what each asks permission for, in order.  *)
EXTENDS ToolBridge

Ask(summary) == [summary |-> summary, decision |-> "prompt"]
Allow(summary) == [summary |-> summary, decision |-> "allow"]
Deny(summary) == [summary |-> summary, decision |-> "deny"]

Tools ==
  [run    |-> <<Ask("run")>>,
   copy   |-> <<Allow("read"), Ask("copy")>>,
   move   |-> <<Allow("remove"), Deny("move")>>,
   press  |-> <<Ask("press")>>,
   click  |-> <<Ask("click")>>,
   list   |-> <<Allow("list")>>,
   online |-> <<Ask("network"), Ask("run")>>]

JobActions == [j \in Jobs |-> Tools[j]]
SummariesOfTools ==
  {Tools[j][n].summary : <<j, n>> \in {<<k, i>> \in Jobs \X (1..2) : i <= Len(Tools[k])}}
=============================================================================
