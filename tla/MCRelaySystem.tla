--------------------------- MODULE MCRelaySystem ---------------------------
(* The jobs of the runs: what their tools ask, and one hash for all.        *)
EXTENDS RelaySystem

Tools ==
  [press   |-> {<<"press">>},          \* two desktop tools, the same request
   again   |-> {<<"press">>},
   capture |-> {<<"capture">>},        \* a read-only one
   edit    |-> {<<>>, <<"edit">>},     \* allowed, unless the profile changes
   call    |-> {<<>>}]

JobQuestions == [j \in Jobs |-> Tools[j]]
JobSummaries == {"press", "capture", "edit"}
SameHash == [j \in Jobs |-> "h1"]
=============================================================================
