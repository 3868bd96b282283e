----------------------------- MODULE MCNetDisk -----------------------------
(* Small instances of NetDisk for TLC.                                     *)
EXTENDS NetDisk

Abs(parts) == [abs |-> TRUE, parts |-> parts]
Rel(parts) == [abs |-> FALSE, parts |-> parts]

MCDotted == {".", ".."}

\* Two names, and one of them a directory further down.
TreePaths == {Rel(<<"a">>), Rel(<<"b">>), Rel(<<"a", "b">>)}

\* A name, the root, and paths to and into the other one's home directory.
UserPaths == {Rel(<<"a">>), Rel(<<"..">>), Rel(<<"..", "v">>), Abs(<<"v", "a">>)}
\* For mv, which moves home directories too: fewer of them.
MovePaths == {Rel(<<"a">>), Rel(<<"..", "v">>), Abs(<<"v", "a">>)}

Contents == Permutations(Md5)
Sessions == Permutations(Session)
=============================================================================
