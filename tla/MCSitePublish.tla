----------------------------- MODULE MCSitePublish -----------------------------
(***************************************************************************)
(* Instances of SitePublish for TLC: a site that is the whole file system, *)
(* with a page, and a name below which there may be another.               *)
(***************************************************************************)
EXTENDS SitePublish, Sequences

CONSTANTS f, g

MCRoot == <<>>
MCIndex == <<"index.html">>
D == <<"d">>
DX == <<"d", "x">>

MCPaths == {NoPath, MCRoot, MCIndex, D, DX}
MCNames == {"", "index.html", "d", "x"}
Prefixes(p) == {SubSeq(p, 1, n) : n \in 0..Len(p) - 1}
MCParentOf == [p \in MCPaths |-> IF p \in {NoPath, MCRoot} THEN MCRoot ELSE SubSeq(p, 1, Len(p) - 1)]
MCNameOf == [p \in MCPaths |-> IF p \in {NoPath, MCRoot} THEN "" ELSE p[Len(p)]]
MCAncestors == [p \in MCPaths |-> IF p = NoPath THEN {} ELSE Prefixes(p)]
MCSizeOf == [c \in Contents |-> CASE c = f -> 1 [] c = g -> 2 [] OTHER -> 0]

=============================================================================
