----------------------------- MODULE ContentServer -----------------------------
(***************************************************************************)
(* The content provider's server, tools/content-provider/server.mjs: one   *)
(* object per root, on disk, by handlers that interleave at every await.   *)
(*                                                                         *)
(* The root of some bytes stands for the bytes.  A file holds such bytes,  *)
(* or Torn: what a write that is not finished leaves, of which the digest  *)
(* is no root anybody asks for.                                            *)
(***************************************************************************)
EXTENDS Naturals

CONSTANTS
  Callers,      \* each has one request at a time
  Bytes,        \* contents, and their roots
  Torn,
  NoFile,       \* no file of this name
  Uploads,      \* randomUUID(): the names of temporary files
  MaxCrashes

VARIABLES
  requests,     \* by caller, from its fetch to the answer
  temporaries,  \* the files with the suffix .upload
  objects,      \* the files named after a root
  crashes

serverVars == <<requests, temporaries, objects, crashes>>

File == Bytes \cup {Torn, NoFile}
Stages == {"idle", "received", "writing", "renaming", "unlinking", "reading", "answered"}
Request == [at: Stages, op: {"GET", "PUT"}, root: Bytes, body: Bytes,
            file: Uploads \cup {NoFile}, status: {0, 200, 201, 401, 404, 413, 422, 500}]

ASSUME ServerAssumption ==
  /\ Torn \notin Bytes /\ NoFile \notin Bytes \cup {Torn} \cup Uploads
  /\ Bytes # {} /\ MaxCrashes \in Nat

ServerTypeOK ==
  /\ requests \in [Callers -> Request]
  /\ temporaries \in [Uploads -> File]
  /\ objects \in [Bytes -> File]
  /\ crashes \in 0..MaxCrashes

Asked(op, root, body) ==
  [at |-> "received", op |-> op, root |-> root, body |-> body,
   file |-> NoFile, status |-> 0]
At(r, stage) == [r EXCEPT !.at = stage]
Answered(r, status) == At([r EXCEPT !.status = status], "answered")

NoRequest == At(Asked("GET", CHOOSE b \in Bytes : TRUE, CHOOSE b \in Bytes : TRUE), "idle")

\* A server that was started on a volume with these objects.
ServerInit(kept) ==
  /\ requests = [c \in Callers |-> NoRequest]
  /\ temporaries = [u \in Uploads |-> NoFile]
  /\ objects = [b \in Bytes |-> IF b \in kept THEN b ELSE NoFile]
  /\ crashes = 0

-----------------------------------------------------------------------------
(* The callers: HttpContentProvider.put and get. *)

\* put computes the root, waits for the wallet to sign and sends the body
\* from the buffer as it is by then.
Ask(c, op, root, body) ==
  /\ requests[c].at = "idle"
  /\ requests' = [requests EXCEPT ![c] = Asked(op, root, body)]

TakeAnswer(c) ==
  /\ requests[c].at = "answered"
  /\ requests' = [requests EXCEPT ![c] = NoRequest]

-----------------------------------------------------------------------------
(* PUT *)

\* Whether the body is too large and the permit good is up to the caller;
\* the digest of the body is compared last.
Refuse(c) ==
  /\ requests[c].at = "received" /\ requests[c].op = "PUT"
  /\ \E status \in {401, 413} \cup (IF requests[c].body # requests[c].root THEN {422} ELSE {}) :
       requests' = [requests EXCEPT ![c] = Answered(@, status)]
  /\ UNCHANGED <<temporaries, objects, crashes>>

\* Mutant: the object is opened for writing, not a temporary file.
OpenInPlace(c) ==
  LET r == requests[c] IN
  /\ r.at = "received" /\ r.op = "PUT" /\ r.body = r.root
  /\ \E u \in Uploads :
       /\ temporaries[u] = NoFile
       /\ temporaries' = [temporaries EXCEPT ![u] = Torn]
       /\ requests' = [requests EXCEPT ![c] = At([r EXCEPT !.file = u], "writing")]
  /\ objects' = [objects EXCEPT ![r.root] = Torn]
  /\ UNCHANGED crashes

\* A name that no file has: flag "wx".
OpenTemporary(c) ==
  LET r == requests[c] IN
  /\ r.at = "received" /\ r.op = "PUT" /\ r.body = r.root
  /\ \E u \in Uploads :
       /\ temporaries[u] = NoFile
       /\ \A other \in Callers : requests[other].at # "idle" => requests[other].file # u
       /\ temporaries' = [temporaries EXCEPT ![u] = Torn]
       /\ requests' = [requests EXCEPT ![c] = At([r EXCEPT !.file = u], "writing")]
  /\ UNCHANGED <<objects, crashes>>

FillTemporary(c) ==
  LET r == requests[c] IN
  /\ r.at = "writing"
  /\ temporaries' = [temporaries EXCEPT ![r.file] = r.body]
  /\ requests' = [requests EXCEPT ![c] = At(r, "renaming")]
  /\ UNCHANGED <<objects, crashes>>

RenameTemporary(c) ==
  LET r == requests[c] IN
  /\ r.at = "renaming"
  /\ objects' = [objects EXCEPT ![r.root] = temporaries[r.file]]
  /\ temporaries' = [temporaries EXCEPT ![r.file] = NoFile]
  /\ requests' = [requests EXCEPT ![c] = At([r EXCEPT !.status = 201], "unlinking")]
  /\ UNCHANGED crashes

\* writeFile or rename fails.
StoreFails(c) ==
  /\ requests[c].at \in {"writing", "renaming"}
  /\ requests' = [requests EXCEPT ![c] = At([@ EXCEPT !.status = 500], "unlinking")]
  /\ UNCHANGED <<temporaries, objects, crashes>>

\* Mutant: the temporary file is only unlinked after a success.
UnlinkStored(c) ==
  LET r == requests[c] IN
  /\ r.at = "unlinking"
  /\ temporaries' = IF r.status = 201 THEN [temporaries EXCEPT ![r.file] = NoFile] ELSE temporaries
  /\ requests' = [requests EXCEPT ![c] = Answered(r, r.status)]
  /\ UNCHANGED <<objects, crashes>>

\* The finally block; after a rename there is nothing left to unlink.
Unlink(c) ==
  LET r == requests[c] IN
  /\ r.at = "unlinking"
  /\ temporaries' = [temporaries EXCEPT ![r.file] = NoFile]
  /\ requests' = [requests EXCEPT ![c] = Answered(r, r.status)]
  /\ UNCHANGED <<objects, crashes>>

-----------------------------------------------------------------------------
(* GET *)

Look(c) ==
  LET r == requests[c] IN
  /\ r.at = "received" /\ r.op = "GET"
  /\ requests' = [requests EXCEPT
       ![c] = IF objects[r.root] = NoFile THEN Answered(r, 404) ELSE At(r, "reading")]
  /\ UNCHANGED <<temporaries, objects, crashes>>

\* What is sent is what has the digest asked for.
ReadObject(c) ==
  LET r == requests[c] IN
  /\ r.at = "reading"
  /\ requests' = [requests EXCEPT
       ![c] = Answered(r, IF objects[r.root] = r.root THEN 200 ELSE 500)]
  /\ UNCHANGED <<temporaries, objects, crashes>>

ReadFails(c) ==
  /\ requests[c].at = "reading"
  /\ requests' = [requests EXCEPT ![c] = Answered(@, 500)]
  /\ UNCHANGED <<temporaries, objects, crashes>>

-----------------------------------------------------------------------------
\* The process ends and is started again: files stay, requests are cut off.
Crash ==
  /\ crashes < MaxCrashes
  /\ crashes' = crashes + 1
  /\ requests' = [c \in Callers |->
       IF requests[c].at \in {"idle", "answered"} THEN requests[c]
                                                  ELSE Answered(requests[c], 0)]
  /\ UNCHANGED <<temporaries, objects>>

Handle(c) ==
  \/ Refuse(c) \/ OpenTemporary(c) \/ FillTemporary(c) \/ RenameTemporary(c)
  \/ StoreFails(c) \/ Unlink(c)
  \/ Look(c) \/ ReadObject(c) \/ ReadFails(c)

-----------------------------------------------------------------------------
(* Properties *)

\* Temporary files no handler will come back to.
Litter ==
  {u \in Uploads : /\ temporaries[u] # NoFile
                   /\ \A c \in Callers :
                        requests[c].at \in {"writing", "renaming", "unlinking"}
                          => requests[c].file # u}

\* Only a crash leaves a temporary file behind (the finally of the upload,
\* server.mjs:77, provided unlink itself works).
OnlyCrashesLitter == [][crashes' = crashes => Litter' \subseteq Litter]_serverVars

=============================================================================
