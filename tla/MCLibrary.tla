----------------------------- MODULE MCLibrary -----------------------------
(* Two chart files of different length, in two versions each. *)
EXTENDS Library

MCVersions == {1, 2}
MCSize == <<1, 2>>
MCDifficultyKey == [chart \in Files \X MCVersions |-> chart[1]]
=============================================================================
