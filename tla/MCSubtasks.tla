----------------------------- MODULE MCSubtasks -----------------------------
(* Small instances of Subtasks for TLC. *)
EXTENDS Subtasks

IdsTwo   == 1 .. 2
IdsThree == 1 .. 3

\* a directory, a file in it, everything in it, another file
Dir    == <<"a">>
InDir  == <<"a", "/", "b">>
AllIn  == <<"a", "/", "*">>
Other  == <<"c">>

\* A glob inside a file name, and a file it matches.
Prefixed == <<"a", "/", "b", "*">>
Matched  == <<"a", "/", "b", "c">>

PathsPlain  == {{}, {AllIn}, {InDir}, {Other}}
PathsFew    == {{InDir}, {Other}}
PathsGlob   == {{Prefixed}, {Matched}}
FilesAll    == {InDir, Matched, Other, <<"a", "/", "d">>}

\* The planner's sort on every plan of up to four subtasks.
ASSUME SortAssumption == SortRight(1 .. 4) /\ RefusedRight(1 .. 4)
=============================================================================
