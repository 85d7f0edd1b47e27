--------------------------- MODULE MCProcessTools ---------------------------
(* A process whose output holds a character of two bytes across the limit.  *)
EXTENDS ProcessTools

ShortOutput == [p \in Processes |-> <<"a", "h", "t", "a">>]
=============================================================================
