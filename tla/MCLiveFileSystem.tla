--------------------------- MODULE MCLiveFileSystem ---------------------------
(***************************************************************************)
(* Instances of LiveFileSystem for TLC.  A path is the sequence of its     *)
(* components.                                                             *)
(***************************************************************************)
EXTENDS LiveFileSystem, Sequences

CONSTANTS c1, c2   \* strands
CONSTANTS f, g     \* contents

MCRoot == <<>>
A == <<"a">>
B == <<"b">>
AX == <<"a", "x">>
AY == <<"a", "y">>
BX == <<"b", "x">>

MCNames == {"", "a", "b", "x", "y"}
MCParentOf == [p \in Paths |-> IF p \in {NoPath, Root} THEN Root ELSE SubSeq(p, 1, Len(p) - 1)]
MCNameOf == [p \in Paths |-> IF p \in {NoPath, Root} THEN NoName ELSE p[Len(p)]]

Asked(op, path, to, content, recursive) ==
  [op |-> op, path |-> path, to |-> to, content |-> content, recursive |-> recursive]
Writes(ps, cs) == {Asked("write", p, Root, c, FALSE) : p \in ps, c \in cs}
Mkdirs(ps) == {Asked("mkdir", p, Root, NoContent, FALSE) : p \in ps}
Removes(ps, how) == {Asked("remove", p, Root, NoContent, h) : p \in ps, h \in how}
Rename(from, to) == Asked("rename", from, to, NoContent, FALSE)

\* A file is moved without being renamed or renamed without being moved, and
\* never put where a directory is.
TwoDirectories == {NoPath, Root, A, B, AX, AY, BX}
OrderlyRequests ==
  Writes({AX, BX}, {f}) \cup Writes({AX}, {g}) \cup Mkdirs({A, B}) \cup Removes({A, AX, BX}, {FALSE})
  \cup {Rename(AX, BX), Rename(BX, AX), Rename(AX, AY)}

\* Two strands on one directory, with every kind of request; the paths of
\* files and of directories are not kept apart.
AllPaths == TwoDirectories
OneDirectory == {NoPath, Root, A, AX, AY}
RacingRequests ==
  Writes({AX, AY}, {f}) \cup Writes({A}, {g}) \cup Mkdirs({A, AX}) \cup Removes({A, AX}, BOOLEAN)
  \cup {Rename(AX, AY), Rename(AX, A)}

\* Requests that break a promise of the code.
WriteWrite == Writes({AX, AY}, {f})

MadeA == {A}
MadeBoth == {A, B}

=============================================================================
