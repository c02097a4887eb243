----------------------------- MODULE MCLiveNames -----------------------------
(***************************************************************************)
(* What a user types, each behaviour about one thing: names in live mode,  *)
(* names in preview, the bytes of a claim, and the paths of the shell.     *)
(* They have nothing in common.                                            *)
(***************************************************************************)
EXTENDS LiveNames, PreviewNames, NameWire, ShellSession, TLC

CONSTANTS
  tab1, tab2, k1, k2, home, HOME, desk, bad

VARIABLE mode

\* What validateName makes of the names typed.
Normalized == home :> home @@ HOME :> home @@ desk :> desk

\* Names at the bounds of what is let pass, and beyond: kit-1, KIT-1 with a
\* Kelvin sign, hyphens at the ends, 2, 3, 32 and 33 characters.
Kit == <<107, 105, 116, 45, 49>>
Many(n) == [i \in 1..n |-> 122]
TypedTexts ==
  {Kit, <<8490, 73, 84, 45, 49>>, <<45>> \o Kit, Kit \o <<45>>, <<48, 97>>, <<48, 97, 49>>,
   <<48, 95, 49>>, Many(32), Many(33)}
TypedIds == {<<65535, 2>>, <<65536, 0>>, NotANumber}

TypedNoise == {0, 2, 45, 65, 128}

HomePath == <<"home", "user">>
Cd(from, parts) == [from |-> from, parts |-> parts]
Typings ==
  {Cd("root", << >>), Cd("root", <<"home", "", "user", "Sites">>), Cd("home", << >>),
   Cd("home", <<"Sites", "..", "Sites">>), Cd("cwd", <<"..">>), Cd("cwd", <<"..", "..", "..">>),
   Cd("cwd", <<"Sites", ".", "home">>), Cd("cwd", <<"home", "..", "..", "user">>), Cd("cwd", <<"long">>)}

Symmetry == Permutations(Calls) \cup Permutations(Services)

\* An input is taken as it is in the end.
WireEnd == spoilt = 2 /\ UNCHANGED nameWireVars

NamesInit ==
  /\ mode \in {"live", "preview", "wire", "shell"}
  /\ LiveInit /\ PreviewNamesInit /\ NameWireInit /\ ShellInit
NamesNext ==
  /\ UNCHANGED mode
  /\ IF mode = "live" THEN LiveNext ELSE UNCHANGED liveVars
  /\ IF mode = "preview" THEN PreviewNamesNext ELSE UNCHANGED previewVars
  /\ IF mode = "wire" THEN NameWireNext \/ WireEnd ELSE UNCHANGED nameWireVars
  /\ IF mode = "shell" THEN ShellNext ELSE UNCHANGED shellVars
NamesSpec ==
  NamesInit /\ [][NamesNext]_<<mode, liveVars, previewVars, nameWireVars, shellVars>>
=============================================================================
