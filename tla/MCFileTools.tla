---------------------------- MODULE MCFileTools ----------------------------
(* The calls of the runs.                                                   *)
EXTENDS FileTools, TLC

Here == <<"dir", "p">>
There == <<"dir", "q">>
PathsUsed == {Here, There}

Request ==
  [path |-> Here, destination |-> There, text |-> "", expected |-> <<>>,
   overwrite |-> FALSE, permanent |-> FALSE]

CallSet ==
  [write   |-> [tool |-> "fs_write", text |-> "written", expected |-> <<"old">>] @@ Request,
   replace |-> [tool |-> "fs_replace", text |-> "replaced"] @@ Request,
   import  |-> [tool |-> "file_import", text |-> "imported", expected |-> <<"imported">>] @@ Request,
   copy    |-> [tool |-> "fs_copy", path |-> There, destination |-> Here, overwrite |-> TRUE] @@ Request,
   keep    |-> [tool |-> "fs_copy"] @@ Request,
   same    |-> [tool |-> "fs_copy", destination |-> Here, overwrite |-> TRUE] @@ Request,
   move    |-> [tool |-> "fs_move", overwrite |-> TRUE] @@ Request,
   delete  |-> [tool |-> "fs_delete"] @@ Request,
   erase   |-> [tool |-> "fs_delete", permanent |-> TRUE] @@ Request]

CallsMade == [c \in Calls |-> CallSet[c]]
TextsUsed == {"", "old", "written", "replaced", "imported", "user", "other"}
FilesBefore == [p \in {Here} |-> <<"old">>]
=============================================================================
