---------------------------- MODULE MCTransfers ----------------------------
(* Exported files of no block, of one, and of more than one chunk.          *)
EXTENDS Transfers

ThreeBlocks == <<"a", "b", "c">>
FilesOf == [x |-> {<<>>, ThreeBlocks}, y |-> {<<"a">>, ThreeBlocks}]
=============================================================================
