----------------------------- MODULE ShellSession -----------------------------
(***************************************************************************)
(* The working directory of the shell.  cd resolves its argument           *)
(* (commands/index.ts, jamFs.ts), asks the file system, and the answer sets*)
(* the directory (Shell.tsx), whatever was typed meanwhile.  It lives in a *)
(* context that every rendering of the window makes anew (TerminalApp.tsx).*)
(*                                                                         *)
(* A path is the sequence of its parts.                                    *)
(***************************************************************************)
EXTENDS Integers, FiniteSets, SequencesExt

CONSTANTS
  Arguments,    \* of cd: from "root", "home" (~) or "cwd", and their parts
  Overlong,     \* parts of more than MAX_COMPONENT_LENGTH characters
  MaxParts,     \* parts of a path of MAX_PATH_LENGTH characters
  Home,         \* /home/user
  Invalid,      \* what normalizePath throws
  MaxCommands   \* commands typed

VARIABLES
  cwd,      \* of the context the shell has
  flight,   \* commands that wait for the file system
  typed,    \* commands so far
  trail,    \* parts of the arguments of the cds that worked, from the root
  calm      \* no command was typed before the last one had ended, and the
            \* window was not rendered again

shellVars == <<cwd, flight, typed, trail, calm>>

Empty == ""
Here == "."
Up == ".."

\* Parts that name a directory.
Real(part) == part \notin {Empty, Here, Up}

\* A path that needs no resolving.
Clean(path) == path \in Seq(STRING) /\ \A i \in DOMAIN path : Real(path[i]) /\ path[i] \notin Overlong

ASSUME ShellAssumption ==
  /\ Arguments \subseteq [from: {"root", "home", "cwd"}, parts: Seq(STRING)]
  /\ Clean(Home) /\ Len(Home) <= MaxParts
  /\ MaxParts \in Nat /\ MaxCommands \in Nat
  /\ Invalid \notin Seq(STRING)

ShellInit ==
  /\ cwd = Home /\ trail = Home
  /\ flight = {} /\ typed = 0 /\ calm = TRUE

\* One part of the loop of normalizePath; parts so far or Invalid.
Walk(parts, part) ==
  IF parts = Invalid THEN Invalid
  ELSE IF part \in {Empty, Here} THEN parts
  ELSE IF part = Up THEN (IF parts = << >> THEN Invalid ELSE Front(parts))
  ELSE IF part \in Overlong THEN Invalid ELSE Append(parts, part)

\* Where the parts of raw lead from a path.
Follow(path, raw) ==
  LET Parts[n \in 0..Len(raw)] == IF n = 0 THEN path ELSE Walk(Parts[n - 1], raw[n])
  IN Parts[Len(raw)]

normalizePath(raw) ==
  LET parts == Follow(<< >>, raw) IN
  IF parts = Invalid THEN Invalid ELSE IF Len(parts) > MaxParts THEN Invalid ELSE parts

\* Mutant: ~ is a directory like any other.
StartHere(arg) == IF arg.from = "root" THEN << >> ELSE cwd

\* What stands before the argument: nothing, the home directory for ~, or cwd.
Start(arg) ==
  IF arg.from = "root" THEN << >> ELSE IF arg.from = "home" THEN Home ELSE cwd

\* Enter: cd with an argument that resolves asks for it, any other has failed.
Enter(arg) ==
  /\ typed < MaxCommands
  /\ typed' = typed + 1
  /\ calm' = (calm /\ flight = {})
  /\ LET target == normalizePath(Start(arg) \o arg.parts) IN
     flight' = IF target = Invalid THEN flight
               ELSE flight \cup {[number |-> typed, arg |-> arg, target |-> target]}
  /\ UNCHANGED <<cwd, trail>>

\* The answer: a directory or not.
Changed(c) ==
  /\ c \in flight
  /\ flight' = flight \ {c}
  /\ cwd' = c.target
  /\ trail' = CASE c.arg.from = "root" -> c.arg.parts
                [] c.arg.from = "home" -> Home \o c.arg.parts
                [] OTHER -> trail \o c.arg.parts
  /\ UNCHANGED <<typed, calm>>

NotChanged(c) ==
  /\ c \in flight
  /\ flight' = flight \ {c}
  /\ UNCHANGED <<cwd, trail, typed, calm>>

\* The account answers, or a window moves: the context is a new one.
Render ==
  /\ cwd' = Home /\ calm' = FALSE
  /\ UNCHANGED <<flight, typed, trail>>

ShellNext ==
  \/ \E arg \in Arguments : Enter(arg)
  \/ \E c \in flight : Changed(c) \/ NotChanged(c)
  \/ Render

ShellSpec == ShellInit /\ [][ShellNext]_shellVars

----------------------------------------------------------------------------
\* Directories gone down into by the first n parts, less those come back from.
Depth(parts, n) ==
  Cardinality({i \in 1..n : Real(parts[i])}) - Cardinality({i \in 1..n : parts[i] = Up})

\* The k-th part of the path is the one that went down to depth k, from where
\* no .. has come back; and no .. ever left the root.
Leads(parts, path) ==
  /\ Len(path) = Depth(parts, Len(parts))
  /\ \A n \in 0..Len(parts) : Depth(parts, n) >= 0
  /\ \A k \in DOMAIN path : \E i \in DOMAIN parts :
       /\ path[k] = parts[i] /\ Real(parts[i]) /\ Depth(parts, i) = k
       /\ \A n \in i..Len(parts) : Depth(parts, n) >= k

\* As long as commands are given one after the other, the shell is where all
\* that was typed leads, resolved at once, whatever .. and ~ there were in it
\* and whichever cds failed.  In any case it is in a path that needs no
\* resolving.
CwdIsWhereCommandsLed ==
  /\ calm => Leads(trail, cwd)
  /\ normalizePath(cwd) = cwd
=============================================================================
