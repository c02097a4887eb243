--------------------------- MODULE SitePublishProofs ---------------------------
(***************************************************************************)
(* For any tree, any bytes and any number of edits, publishes, visits and  *)
(* crashes: what a manifest names can be fetched, and nothing in it is     *)
(* older than the walk that gathered it.                                   *)
(***************************************************************************)
EXTENDS SitePublish, TLAPS

-----------------------------------------------------------------------------
(* The content server. *)

USE ServerAssumption

LEMMA RequestTyped ==
  ASSUME NEW op \in {"GET", "PUT"}, NEW root \in Bytes, NEW body \in Bytes
  PROVE  Asked(op, root, body) \in Request
BY DEF Asked, Request, Stages

\* The same request elsewhere; a request with all fields but some.
Same(r, s) == r.op = s.op /\ r.root = s.root /\ r.body = s.body

LEMMA MovedTyped ==
  ASSUME NEW r \in Request, NEW stage \in Stages
  PROVE  /\ At(r, stage) \in Request /\ Same(At(r, stage), r)
         /\ At(r, stage).at = stage
         /\ At(r, stage).file = r.file
         /\ At(r, stage).status = r.status
BY DEF At, Request, Same

Statuses == {0, 200, 201, 401, 404, 413, 422, 500}

\* The same with another status.
Marked(r, status) == [r EXCEPT !.status = status]

LEMMA StatusTyped ==
  ASSUME NEW r \in Request, NEW status \in Statuses,
         NEW stage \in Stages
  PROVE  \E s \in Request : /\ s = At(Marked(r, status), stage)
                            /\ Same(s, r) /\ s.at = stage /\ s.file = r.file
                            /\ s.status = status
<1> DEFINE q == Marked(r, status)
<1>1. q \in Request /\ Same(q, r) /\ q.file = r.file /\ q.status = status
  BY DEF Request, Same, Marked, Statuses
<1> HIDE DEF q
<1>2. /\ At(q, stage) \in Request /\ Same(At(q, stage), q) /\ At(q, stage).at = stage
      /\ At(q, stage).file = q.file /\ At(q, stage).status = q.status
  BY <1>1, MovedTyped
<1>3. \E s \in Request : /\ s = At(q, stage) /\ Same(s, r) /\ s.at = stage
                         /\ s.file = r.file /\ s.status = status
  BY <1>1, <1>2 DEF Same
<1>4. QED
  BY <1>3 DEF q

LEMMA FileTyped ==
  ASSUME NEW r \in Request, NEW u \in Uploads
  PROVE  \E s \in Request : /\ s = At([r EXCEPT !.file = u], "writing")
                            /\ Same(s, r) /\ s.at = "writing" /\ s.file = u
                            /\ s.status = r.status
<1> DEFINE q == [r EXCEPT !.file = u]
<1>1. q \in Request /\ Same(q, r) /\ q.file = u /\ q.status = r.status
  BY DEF Request, Same
<1> HIDE DEF q
<1>2. /\ At(q, "writing") \in Request /\ Same(At(q, "writing"), q)
      /\ At(q, "writing").at = "writing"
      /\ At(q, "writing").file = q.file /\ At(q, "writing").status = q.status
  BY <1>1, MovedTyped DEF Stages
<1>3. \E s \in Request : /\ s = At(q, "writing") /\ Same(s, r) /\ s.at = "writing"
                         /\ s.file = u /\ s.status = r.status
  BY <1>1, <1>2 DEF Same
<1>4. QED
  BY <1>3 DEF q

LEMMA AnsweredTyped ==
  ASSUME NEW r \in Request, NEW status \in Statuses
  PROVE  \E s \in Request : /\ s = Answered(r, status) /\ Same(s, r)
                            /\ s.at = "answered" /\ s.file = r.file /\ s.status = status
<1>1. "answered" \in Stages
  BY DEF Stages
<1>2. \A stage \in Stages :
        \E s \in Request : /\ s = At(Marked(r, status), stage) /\ Same(s, r)
                           /\ s.at = stage /\ s.file = r.file /\ s.status = status
  BY StatusTyped
<1>3. Answered(r, status) = At(Marked(r, status), "answered")
  BY DEF Answered, Marked
<1>4. QED
  BY <1>1, <1>2, <1>3

Becomes(c, n) == requests' = [requests EXCEPT ![c] = n]

LEMMA AnsweredChange ==
  ASSUME NEW r \in Request, NEW status \in Statuses, NEW c,
         Becomes(c, Answered(r, status))
  PROVE  \E n \in Request : /\ Becomes(c, n) /\ Same(n, r)
                            /\ n.at = "answered" /\ n.file = r.file /\ n.status = status
<1>1. PICK n \in Request : /\ n = Answered(r, status) /\ Same(n, r)
                           /\ n.at = "answered" /\ n.file = r.file /\ n.status = status
  BY AnsweredTyped
<1>2. Becomes(c, n)
  BY <1>1
<1>3. QED
  BY <1>1, <1>2

LEMMA NoRequestTyped == NoRequest \in Request /\ NoRequest.at = "idle" /\ NoRequest.status = 0
<1>1. PICK b \in Bytes : b = CHOOSE some \in Bytes : TRUE
  OBVIOUS
<1>2. PICK s \in Request : s = Asked("GET", b, b) /\ s.status = 0
  BY RequestTyped DEF Asked
<1>3. QED
  BY <1>1, <1>2, MovedTyped DEF NoRequest, Stages

\* What a handler has behind it, by the stage it is at.
Kept(r, files, stored) ==
  /\ r.at \in {"writing", "renaming", "unlinking"} =>
       r.op = "PUT" /\ r.body = r.root /\ r.file \in Uploads
  /\ r.at = "renaming" => files[r.file] = r.root
  /\ r.status = 201 => stored[r.root] = r.root

\* Neither of two requests under way has the other's temporary file.
Apart(r, q) == r.at # "idle" /\ q.at # "idle" /\ r.file # NoFile => r.file # q.file

ServerInv ==
  /\ ServerTypeOK
  /\ \A c \in Callers : Kept(requests[c], temporaries, objects)
  /\ \A c, d \in Callers : c # d => Apart(requests[c], requests[d])

\* An object that is there whole stays there whole.
ObjectsStay == \A b \in Bytes : objects[b] = b => objects'[b] = b

LEMMA RequestChanges ==
  ASSUME ServerInv, NEW c \in Callers, NEW n \in Request,
         requests' = [requests EXCEPT ![c] = n],
         temporaries' \in [Uploads -> File], objects' \in [Bytes -> File],
         crashes' = crashes, ObjectsStay,
         Kept(n, temporaries', objects'),
         \A d \in Callers \ {c} :
           /\ requests[d].at = "renaming" =>
                temporaries'[requests[d].file] = temporaries[requests[d].file]
           /\ Apart(n, requests[d])
  PROVE  ServerInv'
<1> USE DEF ServerInv
<1>1. /\ requests \in [Callers -> Request] /\ requests' \in [Callers -> Request]
      /\ requests'[c] = n /\ \A d \in Callers \ {c} : requests'[d] = requests[d]
  BY DEF ServerTypeOK
<1>2. ServerTypeOK'
  BY <1>1 DEF ServerTypeOK
<1>3. \A d \in Callers : Kept(requests'[d], temporaries', objects')
  <2> SUFFICES ASSUME NEW d \in Callers \ {c} PROVE Kept(requests[d], temporaries', objects')
    BY <1>1
  <2>1. requests[d].root \in Bytes
    BY <1>1 DEF Request
  <2>2. QED
    BY <2>1 DEF Kept, ObjectsStay
<1>4. \A d, e \in Callers : d # e => Apart(requests'[d], requests'[e])
  BY <1>1 DEF Apart
<1>5. QED
  BY <1>2, <1>3, <1>4

\* A handler goes on to another stage and touches no file.
LEMMA HandlerMoves ==
  ASSUME ServerInv, NEW c \in Callers, requests[c].at # "idle",
         NEW n \in Request, requests' = [requests EXCEPT ![c] = n],
         n.file = requests[c].file, n.root = requests[c].root,
         n.at \in {"reading", "answered"}, n.status = 201 => requests[c].status = 201,
         UNCHANGED <<temporaries, objects, crashes>>
  PROVE  ServerInv'
<1>1. Kept(n, temporaries', objects')
  BY DEF ServerInv, Kept
<1>2. \A d \in Callers \ {c} : Apart(n, requests[d])
  BY DEF ServerInv, Apart
<1>3. temporaries' \in [Uploads -> File] /\ objects' \in [Bytes -> File] /\ ObjectsStay
  BY DEF ServerInv, ServerTypeOK, ObjectsStay
<1>4. QED
  BY <1>1, <1>2, <1>3, RequestChanges

\* A handler that has a temporary file.
Holding(r) == r.at \in {"writing", "renaming", "unlinking"}

\* When r becomes n, no file appears that n does not hold, and r lets go of
\* its file only when the file is gone.
Tidy(r, n) ==
  /\ \A u \in Uploads : temporaries'[u] # NoFile =>
       temporaries[u] # NoFile \/ (Holding(n) /\ n.file = u)
  /\ Holding(r) => (Holding(n) /\ n.file = r.file) \/ temporaries'[r.file] = NoFile

LEMMA HandleKeeps ==
  ASSUME ServerInv, NEW c \in Callers, Handle(c)
  PROVE  /\ ServerInv' /\ ObjectsStay /\ requests[c].at # "idle"
         /\ \E n \in Request : /\ requests' = [requests EXCEPT ![c] = n]
                               /\ n.at # "idle" /\ n.root = requests[c].root
                               /\ Tidy(requests[c], n)
<1>1. PICK r \in Request : r = requests[c]
  BY DEF ServerInv, ServerTypeOK
<1>2. /\ Kept(r, temporaries, objects) /\ r.root \in Bytes
      /\ requests \in [Callers -> Request] /\ temporaries \in [Uploads -> File]
      /\ objects \in [Bytes -> File]
      /\ \A d \in Callers \ {c} : /\ requests[d] \in Request
                                  /\ Kept(requests[d], temporaries, objects)
                                 /\ Apart(r, requests[d])
  BY <1>1 DEF ServerInv, ServerTypeOK, Request
<1>a. ASSUME NEW n \in Request, requests' = [requests EXCEPT ![c] = n],
             n.at # "idle", Same(n, r), Tidy(r, n),
             r.at # "idle", ServerInv', ObjectsStay
      PROVE  /\ ServerInv' /\ ObjectsStay /\ requests[c].at # "idle"
             /\ \E m \in Request : /\ requests' = [requests EXCEPT ![c] = m]
                                   /\ m.at # "idle" /\ m.root = requests[c].root
                                   /\ Tidy(requests[c], m)
  <2>1. n.root = requests[c].root /\ Tidy(requests[c], n)
    BY <1>1, <1>a DEF Same
  <2>2. QED
    BY <1>1, <1>a, <2>1
<1>3. CASE Refuse(c)
  <2>1. r.at = "received" /\ UNCHANGED <<temporaries, objects, crashes>>
    BY <1>1, <1>3 DEF Refuse
  <2>2. PICK status \in {401, 413} \cup (IF requests[c].body # requests[c].root
                                           THEN {422} ELSE {}) :
          requests' = [requests EXCEPT ![c] = Answered(requests[c], status)]
    BY <1>3, Zenon DEF Refuse
  <2>3. status \in {401, 413, 422}
    OBVIOUS
  <2>4. PICK n \in Request : /\ n = Answered(r, status) /\ Same(n, r)
                             /\ n.at = "answered" /\ n.file = r.file /\ n.status = status
    BY <2>3, AnsweredTyped DEF Statuses
  <2>5. requests' = [requests EXCEPT ![c] = n]
    BY <1>1, <2>2, <2>4
  <2>6. /\ requests[c].at # "idle" /\ n.file = requests[c].file /\ n.root = requests[c].root
        /\ n.at \in {"reading", "answered"} /\ n.status # 201
    BY <1>1, <2>1, <2>3, <2>4 DEF Same
  <2>7. ServerInv'
    BY <2>1, <2>5, <2>6, HandlerMoves
  <2>8. Tidy(r, n)
    BY <1>2, <2>1, <2>2, <2>3, <2>4, <2>5, <2>6 DEF Tidy, Holding
  <2>9. QED
    BY <2>1, <2>4, <2>5, <2>7, <2>8, <1>a DEF ObjectsStay
<1>4. CASE OpenTemporary(c)
  <2>1. r.at = "received" /\ r.op = "PUT" /\ r.body = r.root /\ UNCHANGED <<objects, crashes>>
    BY <1>1, <1>4 DEF OpenTemporary
  <2>2. PICK u \in Uploads :
          /\ \A d \in Callers : requests[d].at # "idle" => requests[d].file # u
          /\ temporaries' = [temporaries EXCEPT ![u] = Torn]
          /\ requests' = [requests EXCEPT ![c] = At([requests[c] EXCEPT !.file = u], "writing")]
    BY <1>4, Zenon DEF OpenTemporary
  <2>3. PICK n \in Request : /\ n = At([r EXCEPT !.file = u], "writing") /\ Same(n, r)
                             /\ n.at = "writing" /\ n.file = u /\ n.status = r.status
    BY FileTyped
  <2>4. requests' = [requests EXCEPT ![c] = n]
    BY <1>1, <2>2, <2>3
  <2>5. temporaries' \in [Uploads -> File] /\ objects' \in [Bytes -> File] /\ ObjectsStay
    BY <1>2, <2>1, <2>2 DEF File, ObjectsStay
  <2>6. Kept(n, temporaries', objects')
    BY <1>2, <2>1, <2>3 DEF Kept, Same
  <2>7. \A d \in Callers \ {c} :
          /\ requests[d].at = "renaming" =>
               temporaries'[requests[d].file] = temporaries[requests[d].file]
          /\ Apart(n, requests[d])
    BY <1>2, <2>2, <2>3 DEF Apart, Kept
  <2>8. ServerInv'
    BY <2>1, <2>4, <2>5, <2>6, <2>7, RequestChanges
  <2>9. Tidy(r, n)
    BY <1>2, <2>1, <2>2, <2>3, <2>4, <2>5, <2>6 DEF Tidy, Holding
  <2>10. QED
    BY <2>1, <2>3, <2>4, <2>5, <2>8, <2>9, <1>a
<1>5. CASE FillTemporary(c)
  <2>1. /\ r.at = "writing" /\ temporaries' = [temporaries EXCEPT ![r.file] = r.body]
        /\ requests' = [requests EXCEPT ![c] = At(r, "renaming")]
        /\ UNCHANGED <<objects, crashes>>
    BY <1>1, <1>5 DEF FillTemporary
  <2>2. r.op = "PUT" /\ r.body = r.root /\ r.file \in Uploads
    BY <1>2, <2>1 DEF Kept
  <2>3. PICK n \in Request : /\ n = At(r, "renaming") /\ Same(n, r)
                             /\ n.at = "renaming" /\ n.file = r.file /\ n.status = r.status
    BY MovedTyped DEF Stages
  <2>4. requests' = [requests EXCEPT ![c] = n]
    BY <2>1, <2>3
  <2>5. temporaries' \in [Uploads -> File] /\ objects' \in [Bytes -> File] /\ ObjectsStay
    BY <1>2, <2>1, <2>2 DEF File, ObjectsStay
  <2>6. Kept(n, temporaries', objects')
    BY <1>2, <2>1, <2>2, <2>3 DEF Kept, Same
  <2>7. \A d \in Callers \ {c} :
          /\ requests[d].at = "renaming" =>
               temporaries'[requests[d].file] = temporaries[requests[d].file]
          /\ Apart(n, requests[d])
    BY <1>2, <2>1, <2>2, <2>3 DEF Apart, Kept
  <2>8. ServerInv'
    BY <2>1, <2>4, <2>5, <2>6, <2>7, RequestChanges
  <2>9. Tidy(r, n)
    BY <1>2, <2>1, <2>2, <2>3, <2>4, <2>5, <2>6 DEF Tidy, Holding
  <2>10. QED
    BY <2>1, <2>3, <2>4, <2>5, <2>8, <2>9, <1>a
<1>6. CASE RenameTemporary(c)
  <2>1. /\ r.at = "renaming"
        /\ objects' = [objects EXCEPT ![r.root] = temporaries[r.file]]
        /\ temporaries' = [temporaries EXCEPT ![r.file] = NoFile]
        /\ requests' = [requests EXCEPT ![c] = At(Marked(r, 201), "unlinking")]
        /\ UNCHANGED crashes
    BY <1>1, <1>6 DEF RenameTemporary, Marked
  <2>2. r.op = "PUT" /\ r.body = r.root /\ r.file \in Uploads /\ temporaries[r.file] = r.root
    BY <1>2, <2>1 DEF Kept
  <2>3. PICK n \in Request : /\ n = At(Marked(r, 201), "unlinking") /\ Same(n, r)
                             /\ n.at = "unlinking" /\ n.file = r.file /\ n.status = 201
    BY StatusTyped DEF Stages, Statuses
  <2>4. requests' = [requests EXCEPT ![c] = n]
    BY <2>1, <2>3
  <2>5. temporaries' \in [Uploads -> File] /\ objects' \in [Bytes -> File] /\ ObjectsStay
    BY <1>2, <2>1, <2>2 DEF File, ObjectsStay
  <2>6. Kept(n, temporaries', objects')
    BY <1>2, <2>1, <2>2, <2>3 DEF Kept, Same
  <2>7. \A d \in Callers \ {c} :
          /\ requests[d].at = "renaming" =>
               temporaries'[requests[d].file] = temporaries[requests[d].file]
          /\ Apart(n, requests[d])
    BY <1>2, <2>1, <2>2, <2>3 DEF Apart, Kept
  <2>8. ServerInv'
    BY <2>1, <2>4, <2>5, <2>6, <2>7, RequestChanges
  <2>9. Tidy(r, n)
    BY <1>2, <2>1, <2>2, <2>3, <2>4, <2>5, <2>6 DEF Tidy, Holding
  <2>10. QED
    BY <2>1, <2>3, <2>4, <2>5, <2>8, <2>9, <1>a
<1>7. CASE StoreFails(c)
  <2>1. /\ r.at \in {"writing", "renaming"} /\ UNCHANGED <<temporaries, objects, crashes>>
        /\ requests' = [requests EXCEPT ![c] = At(Marked(r, 500), "unlinking")]
    BY <1>1, <1>7 DEF StoreFails, Marked
  <2>2. r.op = "PUT" /\ r.body = r.root /\ r.file \in Uploads
    BY <1>2, <2>1 DEF Kept
  <2>3. PICK n \in Request : /\ n = At(Marked(r, 500), "unlinking") /\ Same(n, r)
                             /\ n.at = "unlinking" /\ n.file = r.file /\ n.status = 500
    BY StatusTyped DEF Stages, Statuses
  <2>4. requests' = [requests EXCEPT ![c] = n]
    BY <2>1, <2>3
  <2>5. temporaries' \in [Uploads -> File] /\ objects' \in [Bytes -> File] /\ ObjectsStay
    BY <1>2, <2>1 DEF ObjectsStay
  <2>6. Kept(n, temporaries', objects') /\ \A d \in Callers \ {c} : Apart(n, requests[d])
    BY <1>2, <2>1, <2>2, <2>3 DEF Kept, Apart, Same
  <2>7. ServerInv'
    BY <2>1, <2>4, <2>5, <2>6, RequestChanges
  <2>8. Tidy(r, n)
    BY <1>2, <2>1, <2>2, <2>3, <2>4, <2>5, <2>6 DEF Tidy, Holding
  <2>9. n.at # "idle" /\ Same(n, r) /\ r.at # "idle"
    BY <2>1, <2>3
  <2>10. QED
    BY <2>4, <2>5, <2>7, <2>8, <2>9, <1>a
<1>8. CASE Unlink(c)
  <2>1. /\ r.at = "unlinking" /\ temporaries' = [temporaries EXCEPT ![r.file] = NoFile]
        /\ requests' = [requests EXCEPT ![c] = Answered(r, r.status)]
        /\ UNCHANGED <<objects, crashes>>
    BY <1>1, <1>8 DEF Unlink
  <2>2. r.file \in Uploads /\ r.status \in Statuses
    BY <1>2, <2>1 DEF Kept, Request, Statuses
  <2>3. PICK n \in Request : /\ n = Answered(r, r.status) /\ Same(n, r)
                             /\ n.at = "answered" /\ n.file = r.file /\ n.status = r.status
    BY <2>2, AnsweredTyped
  <2>4. requests' = [requests EXCEPT ![c] = n]
    BY <2>1, <2>3
  <2>5. temporaries' \in [Uploads -> File] /\ objects' \in [Bytes -> File] /\ ObjectsStay
    BY <1>2, <2>1, <2>2 DEF File, ObjectsStay
  <2>6. Kept(n, temporaries', objects')
    BY <1>2, <2>1, <2>3 DEF Kept, Same
  <2>7. \A d \in Callers \ {c} :
          /\ requests[d].at = "renaming" =>
               temporaries'[requests[d].file] = temporaries[requests[d].file]
          /\ Apart(n, requests[d])
    BY <1>2, <2>1, <2>2, <2>3 DEF Apart, Kept
  <2>8. ServerInv'
    BY <2>1, <2>4, <2>5, <2>6, <2>7, RequestChanges
  <2>9. Tidy(r, n)
    BY <1>2, <2>1, <2>2, <2>3, <2>4, <2>5, <2>6 DEF Tidy, Holding
  <2>10. QED
    BY <2>1, <2>3, <2>4, <2>5, <2>8, <2>9, <1>a
<1>9. CASE Look(c)
  <2>1. r.at = "received" /\ UNCHANGED <<temporaries, objects, crashes>>
    BY <1>1, <1>9 DEF Look
  <2>2. /\ requests' = [requests EXCEPT
             ![c] = IF objects[r.root] = NoFile THEN Answered(r, 404) ELSE At(r, "reading")]
    BY <1>1, <1>9 DEF Look
  <2>3. PICK n \in Request :
          /\ n = IF objects[r.root] = NoFile THEN Answered(r, 404) ELSE At(r, "reading")
          /\ Same(n, r) /\ n.at \in {"reading", "answered"} /\ n.file = r.file
          /\ n.status # 404 => n.status = r.status
    <3>1. PICK s \in Request : /\ s = Answered(r, 404) /\ Same(s, r) /\ s.at = "answered"
                               /\ s.file = r.file /\ s.status = 404
      BY AnsweredTyped DEF Statuses
    <3>2. PICK t \in Request : /\ t = At(r, "reading") /\ Same(t, r) /\ t.at = "reading"
                               /\ t.file = r.file /\ t.status = r.status
      BY MovedTyped DEF Stages
    <3>3. CASE objects[r.root] = NoFile
      BY <3>1, <3>3
    <3>4. CASE objects[r.root] # NoFile
      BY <3>2, <3>4
    <3>5. QED
      BY <3>3, <3>4
  <2>4. requests' = [requests EXCEPT ![c] = n]
    BY <2>2, <2>3
  <2>5. /\ requests[c].at # "idle" /\ n.file = requests[c].file /\ n.root = requests[c].root
        /\ n.at \in {"reading", "answered"}
    BY <1>1, <2>1, <2>3 DEF Same
  <2>6. n.status = 201 => requests[c].status = 201
    BY <1>1, <2>3
  <2>7. ServerInv'
    BY <2>1, <2>4, <2>5, <2>6, HandlerMoves
  <2>8. Tidy(r, n)
    BY <1>2, <2>1, <2>2, <2>3, <2>4, <2>5, <2>6 DEF Tidy, Holding
  <2>9. n.at # "idle" /\ Same(n, r) /\ r.at # "idle" /\ ObjectsStay
    BY <2>1, <2>3 DEF ObjectsStay
  <2>10. QED
    BY <2>4, <2>7, <2>8, <2>9, <1>a
<1>10. CASE ReadObject(c) \/ ReadFails(c)
  <2>1. r.at = "reading" /\ UNCHANGED <<temporaries, objects, crashes>>
    BY <1>1, <1>10 DEF ReadObject, ReadFails
  <2>2. Becomes(c, Answered(r, 200)) \/ Becomes(c, Answered(r, 500))
    <3>1. CASE ReadObject(c)
      BY <1>1, <3>1 DEF ReadObject, Becomes
    <3>2. CASE ReadFails(c)
      BY <1>1, <3>2 DEF ReadFails, Becomes
    <3>3. QED
      BY <1>10, <3>1, <3>2
  <2>3. PICK n \in Request : /\ Becomes(c, n) /\ Same(n, r)
                             /\ n.at = "answered" /\ n.file = r.file /\ n.status # 201
    <3>1. 200 \in Statuses /\ 500 \in Statuses
      BY DEF Statuses
    <3>2. CASE Becomes(c, Answered(r, 200))
      BY <3>1, <3>2, AnsweredChange
    <3>3. CASE Becomes(c, Answered(r, 500))
      BY <3>1, <3>3, AnsweredChange
    <3>4. QED
      BY <2>2, <3>2, <3>3
  <2>4. /\ requests[c].at # "idle" /\ n.file = requests[c].file /\ n.root = requests[c].root
        /\ n.at \in {"reading", "answered"} /\ requests' = [requests EXCEPT ![c] = n]
    BY <1>1, <2>1, <2>3 DEF Same, Becomes
  <2>5. ServerInv'
    BY <2>1, <2>3, <2>4, HandlerMoves
  <2>6. Tidy(r, n)
    BY <1>2, <2>1, <2>3 DEF Tidy, Holding
  <2>7. n.at # "idle" /\ r.at # "idle" /\ ObjectsStay
    BY <2>1, <2>3 DEF ObjectsStay
  <2>8. QED
    BY <2>3, <2>4, <2>5, <2>6, <2>7, <1>a
<1>11. QED
  BY <1>3, <1>4, <1>5, <1>6, <1>7, <1>8, <1>9, <1>10 DEF Handle

LEMMA AskKeeps ==
  ASSUME ServerInv, NEW c \in Callers, NEW op \in {"GET", "PUT"},
         NEW root \in Bytes, NEW body \in Bytes,
         Ask(c, op, root, body), UNCHANGED <<temporaries, objects, crashes>>
  PROVE  /\ ServerInv' /\ ObjectsStay
         /\ requests'[c].root = root /\ \A d \in Callers \ {c} : requests'[d] = requests[d]
<1>1. PICK n \in Request : /\ n = Asked(op, root, body) /\ n.at = "received" /\ n.root = root
                           /\ n.file = NoFile /\ n.status = 0
  BY RequestTyped DEF Asked
<1>2. requests' = [requests EXCEPT ![c] = n]
  BY <1>1 DEF Ask
<1>3. Kept(n, temporaries', objects') /\ \A d \in Callers \ {c} : Apart(n, requests[d])
  BY <1>1 DEF Kept, Apart
<1>4. /\ temporaries' \in [Uploads -> File] /\ objects' \in [Bytes -> File] /\ ObjectsStay
      /\ requests \in [Callers -> Request]
  BY DEF ServerInv, ServerTypeOK, ObjectsStay
<1>5. ServerInv'
  BY <1>2, <1>3, <1>4, RequestChanges
<1>6. QED
  BY <1>1, <1>2, <1>4, <1>5

LEMMA TakeKeeps ==
  ASSUME ServerInv, NEW c \in Callers, TakeAnswer(c), UNCHANGED <<temporaries, objects, crashes>>
  PROVE  /\ ServerInv' /\ ObjectsStay /\ \A d \in Callers \ {c} : requests'[d] = requests[d]
<1>1. PICK n \in Request : n = NoRequest /\ n.at = "idle" /\ n.status = 0
  BY NoRequestTyped
<1>2. requests' = [requests EXCEPT ![c] = n]
  BY <1>1 DEF TakeAnswer
<1>3. Kept(n, temporaries', objects') /\ \A d \in Callers \ {c} : Apart(n, requests[d])
  BY <1>1 DEF Kept, Apart
<1>4. /\ temporaries' \in [Uploads -> File] /\ objects' \in [Bytes -> File] /\ ObjectsStay
      /\ requests \in [Callers -> Request]
  BY DEF ServerInv, ServerTypeOK, ObjectsStay
<1>5. ServerInv'
  BY <1>2, <1>3, <1>4, RequestChanges
<1>6. QED
  BY <1>2, <1>4, <1>5

LEMMA CrashKeeps ==
  ASSUME ServerInv, Crash
  PROVE  /\ ServerInv' /\ ObjectsStay
         /\ \A c \in Callers : requests'[c].root = requests[c].root
<1>1. /\ requests \in [Callers -> Request] /\ UNCHANGED <<temporaries, objects>>
      /\ crashes \in Nat /\ crashes' = crashes + 1 /\ crashes' <= MaxCrashes
  BY DEF ServerInv, ServerTypeOK, Crash
<1>2. \A c \in Callers :
        /\ requests'[c] \in Request /\ requests'[c].root = requests[c].root
        /\ requests'[c].at # "idle" => requests[c].at # "idle"
        /\ requests'[c].file = requests[c].file
        /\ \/ requests'[c] = requests[c]
           \/ requests'[c].at = "answered" /\ requests'[c].status = 0
  <2> TAKE c \in Callers
  <2>1. PICK n \in Request : /\ n = Answered(requests[c], 0) /\ Same(n, requests[c])
                             /\ n.at = "answered" /\ n.file = requests[c].file /\ n.status = 0
    BY <1>1, AnsweredTyped DEF Statuses
  <2>2. CASE requests[c].at \in {"idle", "answered"}
    BY <1>1, <2>2 DEF Crash
  <2>3. CASE requests[c].at \notin {"idle", "answered"}
    <3>1. requests'[c] = n
      BY <2>1, <2>3 DEF Crash
    <3>2. QED
      BY <2>1, <2>3, <3>1 DEF Same
  <2>4. QED
    BY <2>2, <2>3
<1>3. requests' \in [Callers -> Request]
  BY <1>2 DEF Crash
<1>4. ServerTypeOK'
  BY <1>1, <1>3 DEF ServerInv, ServerTypeOK
<1>5. \A c \in Callers : Kept(requests'[c], temporaries', objects')
  BY <1>1, <1>2 DEF ServerInv, Kept
<1>6. \A c, d \in Callers : c # d => Apart(requests'[c], requests'[d])
  BY <1>2 DEF ServerInv, Apart
<1>7. QED
  BY <1>1, <1>2, <1>4, <1>5, <1>6 DEF ServerInv, ObjectsStay

-----------------------------------------------------------------------------
(* The site: what is behind each thing that names a content. *)

USE ConstantsAssumption, NoneAssumption, SiteAssumption

\* Bytes the server has, or none.
Stored(b) == b \in Contents /\ (b # NoContent => objects[b] = b)

EditInv ==
  edit # None =>
    /\ edit \in [path: Paths, content: Bytes, uploaded: BOOLEAN]
    /\ edit.uploaded => objects[edit.content] = edit.content
    /\ ~edit.uploaded => requests[Tab].root = edit.content

NodesInv ==
  /\ nodes \in [Paths -> NodeMetadata \cup {None}]
  /\ \A p \in Paths : nodes[p] # None =>
       nodes[p].kind \in {"file", "directory"} /\ Stored(nodes[p].content)

Todo == [do: {"list", "stat", "read"}, path: Paths, size: Contents]
PublisherInv ==
  /\ publisher \in [pc: {"idle", "walking", "submitted"}, todo: SUBSET Todo, lines: SUBSET Line]
  /\ \A line \in publisher.lines : Stored(line.root)
  /\ \A t \in publisher.todo : t.do = "read" => nodes[t.path] # None
  /\ publisher.todo # {} => publisher.pc = "walking"
  /\ publisher.pc = "idle" => publisher.lines = {}

ManifestInv == \A line \in Published : Stored(line.root)

\* What the walk may still come to has been held since it began.
Recent(p, b) == b # NoContent => <<p, b>> \in held
RecentInv ==
  publisher.pc # "idle" =>
    /\ \A p \in Paths : LiveFile(p) => <<p, nodes[p].content>> \in held
    /\ \A t \in publisher.todo : t.do = "read" => Recent(t.path, nodes[t.path].content)
    /\ \A line \in publisher.lines : Recent(line.path, line.root)

SiteInv ==
  ServerInv /\ EditInv /\ NodesInv /\ PublisherInv /\ ManifestInv /\ RecentInv

LEMMA InitHolds == SiteInit => SiteInv
<1> SUFFICES ASSUME SiteInit PROVE SiteInv
  OBVIOUS
<1>1. /\ \A c \in Callers : requests[c] = NoRequest
      /\ requests \in [Callers -> Request] /\ temporaries \in [Uploads -> File]
      /\ objects \in [Bytes -> File] /\ crashes \in 0..MaxCrashes
      /\ objects[FirstPage] = FirstPage
  BY NoRequestTyped DEF SiteInit, ServerInit, File
<1>2. ServerInv
  BY <1>1, NoRequestTyped DEF ServerInv, ServerTypeOK, Kept, Apart
<1>3. \A p \in Paths : \/ nodes[p] = None
                       \/ /\ nodes[p] \in NodeMetadata /\ nodes[p].kind \in {"file", "directory"}
                          /\ nodes[p].content \in {NoContent, FirstPage}
  BY DEF SiteInit, Directory, Node, NodeMetadata
<1>4. NodesInv
  <2>1. nodes \in [Paths -> NodeMetadata \cup {None}]
    BY <1>3 DEF SiteInit
  <2>2. QED
    BY <1>1, <1>3, <2>1 DEF NodesInv, Stored
<1>5. EditInv /\ ManifestInv /\ PublisherInv /\ RecentInv
  BY DEF SiteInit, EditInv, ManifestInv, Published, PublisherInv, RecentInv, Stopped
<1>6. QED
  BY <1>2, <1>4, <1>5 DEF SiteInv

\* Only the server moves.
LEMMA ServerStep ==
  ASSUME SiteInv, ServerInv', ObjectsStay, EditInv',
         UNCHANGED <<nodes, manifests, publisher, held>>
  PROVE  SiteInv'
<1>1. \A b : Stored(b) => Stored(b)'
  BY DEF Stored, ObjectsStay
<1>2. NodesInv' /\ PublisherInv' /\ ManifestInv'
  BY <1>1 DEF SiteInv, NodesInv, PublisherInv, ManifestInv, Published
<1>3. RecentInv'
  BY DEF SiteInv, RecentInv, Recent, LiveFile, Live
<1>4. QED
  BY <1>2, <1>3 DEF SiteInv

LEMMA BeginWriteKeeps ==
  ASSUME SiteInv, NEW p \in Paths, NEW content \in Bytes, NEW body \in Bytes,
         BeginWrite(p, content, body)
  PROVE  SiteInv'
<1>1. /\ Ask(Tab, "PUT", content, body) /\ UNCHANGED <<temporaries, objects, crashes>>
      /\ edit' = [path |-> p, content |-> content, uploaded |-> FALSE]
      /\ UNCHANGED <<nodes, manifests, publisher, held>>
  BY DEF BeginWrite, service, vars, history
<1>2. Tab \in Callers
  OBVIOUS
<1>3. ServerInv' /\ ObjectsStay /\ requests'[Tab].root = content
  BY <1>1, <1>2, AskKeeps DEF SiteInv
<1>4. EditInv'
  BY <1>1, <1>3 DEF EditInv
<1>5. QED
  BY <1>1, <1>3, <1>4, ServerStep

LEMMA EndUploadKeeps ==
  ASSUME SiteInv, EndUpload
  PROVE  SiteInv'
<1>1. /\ TakeAnswer(Tab) /\ UNCHANGED <<temporaries, objects, crashes>> /\ edit # None
      /\ edit' = IF requests[Tab].status = 201 THEN [edit EXCEPT !.uploaded = TRUE] ELSE None
      /\ ~edit.uploaded
      /\ UNCHANGED <<nodes, manifests, publisher, held>>
  BY DEF EndUpload, service, vars, history
<1>2. Tab \in Callers
  OBVIOUS
<1>3. ServerInv' /\ ObjectsStay
  BY <1>1, <1>2, TakeKeeps DEF SiteInv
<1>4. edit.content \in Bytes /\ requests[Tab].root = edit.content
  BY <1>1 DEF SiteInv, EditInv
<1>5. requests[Tab].status = 201 => objects[edit.content] = edit.content
  BY <1>2, <1>4 DEF SiteInv, ServerInv, Kept
<1>6. CASE requests[Tab].status = 201
  <2>1. edit' = [edit EXCEPT !.uploaded = TRUE] /\ UNCHANGED objects
    BY <1>1, <1>6
  <2>2. /\ edit' \in [path: Paths, content: Bytes, uploaded: BOOLEAN]
        /\ edit'.uploaded /\ edit'.content = edit.content
    BY <1>1, <2>1 DEF SiteInv, EditInv
  <2>3. EditInv'
    BY <1>5, <1>6, <2>1, <2>2 DEF EditInv
  <2>4. QED
    BY <1>1, <1>3, <2>3, ServerStep
<1>7. CASE requests[Tab].status # 201
  <2>1. EditInv'
    BY <1>1, <1>7 DEF EditInv
  <2>2. QED
    BY <1>1, <1>3, <2>1, ServerStep
<1>8. QED
  BY <1>6, <1>7

\* The server and the visitor leave the owner's upload alone.
LEMMA OthersMove ==
  ASSUME SiteInv, ServerInv', ObjectsStay, requests'[Tab].root = requests[Tab].root,
         UNCHANGED <<edit, nodes, manifests, publisher, held>>
  PROVE  SiteInv'
<1>1. EditInv'
  BY DEF SiteInv, EditInv, ObjectsStay
<1>2. QED
  BY <1>1, ServerStep

LEMMA ServeKeeps ==
  ASSUME SiteInv, NEW c \in Callers, Serve(c)
  PROVE  SiteInv'
<1>1. Handle(c) /\ UNCHANGED <<edit, nodes, manifests, publisher, held>>
  BY DEF Serve, service, vars, history
<1>2. PICK n \in Request : requests' = [requests EXCEPT ![c] = n] /\ n.root = requests[c].root
  BY <1>1, HandleKeeps DEF SiteInv
<1>3. ServerInv' /\ ObjectsStay
  BY <1>1, HandleKeeps DEF SiteInv
<1>4. requests'[Tab].root = requests[Tab].root
  BY <1>2 DEF SiteInv, ServerInv, ServerTypeOK
<1>5. QED
  BY <1>1, <1>3, <1>4, OthersMove

LEMMA RestartKeeps ==
  ASSUME SiteInv, ServerRestarts
  PROVE  SiteInv'
<1>1. Crash /\ UNCHANGED <<edit, nodes, manifests, publisher, held>>
  BY DEF ServerRestarts, service, vars, history
<1>2. ServerInv' /\ ObjectsStay /\ requests'[Tab].root = requests[Tab].root
  BY <1>1, CrashKeeps DEF SiteInv
<1>3. QED
  BY <1>1, <1>2, OthersMove

LEMMA VisitKeeps ==
  ASSUME SiteInv,
         ReadManifest \/ EndFetch \/ FallBack \/ VisitFails \/ \E p \in Paths : BeginVisit(p)
  PROVE  SiteInv'
<1>1. UNCHANGED <<edit, nodes, manifests, publisher, held, temporaries, objects, crashes>>
  BY DEF ReadManifest, EndFetch, FallBack, VisitFails, BeginVisit, Rest, service, vars, history,
         serverVars
<1>2. Guest \in Callers /\ Tab \in Callers \ {Guest}
  OBVIOUS
<1>3. CASE UNCHANGED requests
  <2>1. ServerInv' /\ ObjectsStay /\ requests'[Tab].root = requests[Tab].root
    BY <1>1, <1>3 DEF SiteInv, ServerInv, ServerTypeOK, Kept, Apart, ObjectsStay
  <2>2. QED
    BY <1>1, <2>1, OthersMove
<1>4. CASE \E line \in Published : line.root # NoContent /\ Ask(Guest, "GET", line.root, line.root)
  <2>1. PICK line \in Published : line.root # NoContent /\ Ask(Guest, "GET", line.root, line.root)
    BY <1>4
  <2>2. line.root \in Bytes
    BY <2>1 DEF SiteInv, ManifestInv, Stored
  <2>3. ServerInv' /\ ObjectsStay /\ requests'[Tab] = requests[Tab]
    BY <1>1, <1>2, <2>1, <2>2, AskKeeps DEF SiteInv
  <2>4. QED
    BY <1>1, <2>3, OthersMove
<1>5. CASE TakeAnswer(Guest)
  <2>1. ServerInv' /\ ObjectsStay /\ requests'[Tab] = requests[Tab]
    BY <1>1, <1>2, <1>5, TakeKeeps DEF SiteInv
  <2>2. QED
    BY <1>1, <2>1, OthersMove
<1>6. QED
  BY <1>3, <1>4, <1>5 DEF ReadManifest, EndFetch, FallBack, VisitFails, BeginVisit, serverVars

\* A file action puts one node in place of another.
LEMMA NodeReplaced ==
  ASSUME SiteInv, NEW p \in Paths, NEW m \in NodeMetadata, nodes' = [nodes EXCEPT ![p] = m],
         m.kind \in {"file", "directory"}, Stored(m.content),
         \/ m.content = NoContent
         \/ m.kind = "file" /\ ~m.removed
         \/ nodes[p] # None /\ m.content = nodes[p].content,
         Edited, EditInv', UNCHANGED <<serverVars, manifests, publisher>>
  PROVE  SiteInv'
<1>1. /\ UNCHANGED <<requests, temporaries, objects, crashes, manifests, publisher>>
      /\ held' = held \cup LiveFiles'
  BY DEF serverVars, Edited
<1>2. ServerInv'
  BY <1>1 DEF SiteInv, ServerInv, ServerTypeOK, Kept, Apart
<1>3. \A b : Stored(b) => Stored(b)'
  BY <1>1 DEF Stored
<1>4. m # None
  OBVIOUS
<1>5. /\ nodes' \in [Paths -> NodeMetadata \cup {None}] /\ nodes'[p] = m
      /\ \A q \in Paths \ {p} : nodes'[q] = nodes[q]
  BY DEF SiteInv, NodesInv
<1>6. NodesInv'
  BY <1>3, <1>5 DEF SiteInv, NodesInv
<1>7. ManifestInv' /\ PublisherInv'
  <2>1. \A t \in publisher.todo : t.path \in Paths
    BY DEF SiteInv, PublisherInv, Todo
  <2>2. PublisherInv'
    BY <1>1, <1>3, <1>4, <1>5, <2>1 DEF SiteInv, PublisherInv
  <2>3. QED
    BY <1>1, <1>3, <2>2 DEF SiteInv, ManifestInv, Published
<1>8. RecentInv'
  <2> SUFFICES ASSUME publisher'.pc # "idle" PROVE RecentInv'
    BY DEF RecentInv
  <2>1. \A q \in Paths : LiveFile(q)' => <<q, nodes'[q].content>> \in held'
    BY <1>1 DEF LiveFiles
  <2>2. \A t \in publisher'.todo : t.do = "read" => Recent(t.path, nodes[t.path].content)'
    <3> SUFFICES ASSUME NEW t \in publisher.todo, t.do = "read"
                 PROVE  Recent(t.path, nodes[t.path].content)'
      BY <1>1
    <3>1. Recent(t.path, nodes[t.path].content) /\ t.path \in Paths
      BY <1>1 DEF SiteInv, RecentInv, PublisherInv, Todo
    <3>2. CASE t.path # p \/ m.content = NoContent \/ m.content = nodes[p].content
      BY <1>1, <1>5, <3>1, <3>2 DEF Recent
    <3>3. CASE t.path = p /\ m.kind = "file" /\ ~m.removed
      <4>1. LiveFile(p)'
        BY <1>4, <1>5, <3>3 DEF LiveFile, Live
      <4>2. QED
        BY <2>1, <3>3, <4>1 DEF Recent
    <3>4. QED
      BY <3>2, <3>3
  <2>3. \A line \in publisher'.lines : Recent(line.path, line.root)'
    BY <1>1 DEF SiteInv, RecentInv, Recent
  <2>4. QED
    BY <2>1, <2>2, <2>3 DEF RecentInv
<1>9. QED
  BY <1>2, <1>6, <1>7, <1>8 DEF SiteInv

LEMMA NodeTyped ==
  ASSUME NEW p \in Paths, NEW d \in Paths, NEW content \in Contents, NEW kind,
         kind \in {"file", "directory"}
  PROVE  \E m \in NodeMetadata : /\ m = Node(p, kind, d, content) /\ m.kind = kind
                                 /\ m.content = content /\ ~m.removed
<1>1. Node(p, kind, d, content) \in NodeMetadata
  BY DEF Node, NodeMetadata
<1>2. /\ Node(p, kind, d, content).kind = kind /\ Node(p, kind, d, content).content = content
      /\ ~Node(p, kind, d, content).removed
  BY DEF Node
<1>3. QED
  BY <1>1, <1>2

LEMMA ApplyWriteKeeps ==
  ASSUME SiteInv, ApplyWrite
  PROVE  SiteInv'
<1>1. /\ edit # None /\ edit.uploaded /\ edit' = None /\ Edited
      /\ nodes' = [nodes EXCEPT
           ![edit.path] = Node(edit.path, "file", ParentOf[edit.path], edit.content)]
      /\ UNCHANGED <<serverVars, manifests, publisher>>
  BY DEF ApplyWrite, WriteFile, desktop
<1>2. edit.path \in Paths /\ edit.content \in Contents /\ Stored(edit.content)
  BY <1>1 DEF SiteInv, EditInv, Stored
<1>3. PICK d \in Paths : d = ParentOf[edit.path]
  BY <1>2
<1>4. PICK m \in NodeMetadata : /\ m = Node(edit.path, "file", d, edit.content)
                                /\ m.kind = "file" /\ m.content = edit.content /\ ~m.removed
  BY <1>2, NodeTyped
<1>5. nodes' = [nodes EXCEPT ![edit.path] = m]
  BY <1>1, <1>3, <1>4
<1>6. EditInv'
  BY <1>1 DEF EditInv
<1>7. QED
  BY <1>1, <1>2, <1>4, <1>5, <1>6, NodeReplaced

LEMMA MakeDirectoryKeeps ==
  ASSUME SiteInv, NEW p \in Paths, MakeDirectory(p)
  PROVE  SiteInv'
<1>1. /\ Edited /\ nodes' = [nodes EXCEPT ![p] = Node(p, "directory", ParentOf[p], NoContent)]
      /\ UNCHANGED <<serverVars, manifests, publisher>> /\ edit' = edit
  BY DEF MakeDirectory, Mkdir, Directory, desktop
<1>2. NoContent \in Contents /\ Stored(NoContent)
  BY DEF Stored
<1>3. PICK d \in Paths : d = ParentOf[p]
  OBVIOUS
<1>4. PICK m \in NodeMetadata : /\ m = Node(p, "directory", d, NoContent)
                                /\ m.kind = "directory" /\ m.content = NoContent
  BY <1>2, NodeTyped
<1>5. nodes' = [nodes EXCEPT ![p] = m]
  BY <1>1, <1>3, <1>4
<1>6. EditInv'
  BY <1>1 DEF SiteInv, EditInv, serverVars
<1>7. Stored(m.content) /\ m.kind \in {"file", "directory"}
  BY <1>2, <1>4
<1>8. QED
  BY <1>1, <1>4, <1>5, <1>6, <1>7, NodeReplaced

LEMMA RemoveKeeps ==
  ASSUME SiteInv, NEW p \in Paths, Remove(p)
  PROVE  SiteInv'
<1> DEFINE m == Tombstone(nodes[p])
<1>1. /\ Edited /\ nodes' = [nodes EXCEPT ![p] = m] /\ nodes[p] # None
      /\ UNCHANGED <<serverVars, edit, manifests, publisher>>
  BY DEF Remove, RemoveNode, MayRemove, Live, desktop
<1>2. /\ nodes[p] \in NodeMetadata /\ nodes[p].kind \in {"file", "directory"}
      /\ Stored(nodes[p].content)
  BY <1>1 DEF SiteInv, NodesInv
<1>3. m \in NodeMetadata /\ m.kind = nodes[p].kind /\ m.content = nodes[p].content
  BY <1>2 DEF Tombstone, NodeMetadata
<1>4. EditInv'
  BY <1>1 DEF SiteInv, EditInv, serverVars
<1> HIDE DEF m
<1>5. QED
  BY <1>1, <1>2, <1>3, <1>4, NodeReplaced

-----------------------------------------------------------------------------
(* publish *)

\* Only the publisher moves: what it comes to have is checked in its new state.
LEMMA PublisherStep ==
  ASSUME SiteInv, UNCHANGED <<nodes, requests, temporaries, objects, crashes, edit, manifests, held>>,
         NEW pc \in {"idle", "walking", "submitted"}, NEW todo \in SUBSET Todo,
         NEW lines \in SUBSET Line,
         publisher' = [pc |-> pc, todo |-> todo, lines |-> lines],
         \A t \in todo : t.do = "read" =>
           nodes[t.path] # None /\ Recent(t.path, nodes[t.path].content),
         \A line \in lines : Stored(line.root) /\ Recent(line.path, line.root),
         pc # "idle" => publisher.pc # "idle", todo # {} => pc = "walking",
         pc = "idle" => lines = {}
  PROVE  SiteInv'
<1>1. ServerInv' /\ EditInv' /\ NodesInv' /\ ManifestInv'
  BY DEF SiteInv, ServerInv, ServerTypeOK, Kept, Apart, EditInv, NodesInv, ManifestInv,
         Published, Stored
<1>2. publisher'.pc = pc /\ publisher'.todo = todo /\ publisher'.lines = lines
  OBVIOUS
<1>3. PublisherInv'
  BY <1>2 DEF PublisherInv, Stored
<1>4. RecentInv'
  BY <1>2 DEF SiteInv, RecentInv, Recent, LiveFile, Live
<1>5. QED
  BY <1>1, <1>3, <1>4 DEF SiteInv

LEMMA Typed ==
  ASSUME SiteInv
  PROVE  /\ publisher \in [pc: {"idle", "walking", "submitted"}, todo: SUBSET Todo,
                           lines: SUBSET Line]
         /\ publisher.todo \in SUBSET Todo /\ publisher.lines \in SUBSET Line
         /\ publisher.pc \in {"idle", "walking", "submitted"}
BY DEF SiteInv, PublisherInv

\* Every action of a walk replaces the tasks and the lines.
LEMMA WalkStep ==
  ASSUME SiteInv, NEW todo \in SUBSET Todo, NEW lines \in SUBSET Line,
         publisher.pc = "walking", publisher' = [pc |-> "walking", todo |-> todo, lines |-> lines],
         Others' = Others,
         \A t \in todo : t \notin publisher.todo /\ t.do = "read" =>
           nodes[t.path] # None /\ Recent(t.path, nodes[t.path].content),
         \A line \in lines : line \notin publisher.lines =>
           Stored(line.root) /\ Recent(line.path, line.root)
  PROVE  SiteInv'
<1>1. UNCHANGED <<nodes, requests, temporaries, objects, crashes, edit, manifests, held>>
  BY DEF Others, service, vars, serverVars, history
<1>2. \A t \in todo : t.do = "read" =>
        nodes[t.path] # None /\ Recent(t.path, nodes[t.path].content)
  BY DEF SiteInv, PublisherInv, RecentInv
<1>3. \A line \in lines : Stored(line.root) /\ Recent(line.path, line.root)
  BY DEF SiteInv, PublisherInv, RecentInv
<1>4. QED
  BY <1>1, <1>2, <1>3, PublisherStep

LEMMA ListDirectoryKeeps ==
  ASSUME SiteInv, NEW t \in publisher.todo, ListDirectory(t)
  PROVE  SiteInv'
<1> DEFINE stats == {Task("stat", p, NoContent) : p \in Entries(t.path)}
           todo == (publisher.todo \ {t}) \cup stats
<1>1. \A s \in stats : s \in Todo /\ s.do = "stat"
  BY DEF Entries, Task, Todo
<1>2. publisher' = [publisher EXCEPT !.todo = todo] /\ Others' = Others
  BY DEF ListDirectory
<1> HIDE DEF stats
<1>3. todo \in SUBSET Todo /\ \A s \in todo : s \notin publisher.todo => s.do # "read"
  BY <1>1, Typed
<1> HIDE DEF todo
<1>4. publisher.pc = "walking"
  BY DEF SiteInv, PublisherInv
<1>5. publisher' = [pc |-> "walking", todo |-> todo, lines |-> publisher.lines]
  BY <1>2, <1>4, Typed
<1>6. QED
  BY <1>2, <1>3, <1>4, <1>5, Typed, WalkStep

LEMMA StatEntryKeeps ==
  ASSUME SiteInv, NEW t \in publisher.todo, StatEntry(t)
  PROVE  SiteInv'
<1> DEFINE p == t.path
           todo == (publisher.todo \ {t}) \cup AfterStat(p)
<1>1. publisher' = [publisher EXCEPT !.todo = todo] /\ Others' = Others
  BY DEF StatEntry
<1>2. publisher.pc = "walking" /\ p \in Paths
  BY Typed DEF SiteInv, PublisherInv, Todo
<1>3. \A s \in AfterStat(p) :
        s \in Todo /\ (s.do = "read" => nodes[s.path] # None /\ Recent(s.path, nodes[s.path].content))
  <2> SUFFICES ASSUME NEW s \in AfterStat(p)
               PROVE  /\ s \in Todo
                      /\ s.do = "read" =>
                           nodes[s.path] # None /\ Recent(s.path, nodes[s.path].content)
    OBVIOUS
  <2>1. Live(p) /\ nodes[p] # None /\ nodes[p] \in NodeMetadata /\ nodes[p].content \in Contents
    BY <1>2 DEF AfterStat, Live, SiteInv, NodesInv, NodeMetadata
  <2>2. CASE nodes[p].kind = "directory"
    <3>1. s = Task("list", p, NoContent)
      BY <2>1, <2>2 DEF AfterStat
    <3>2. QED
      BY <1>2, <3>1 DEF Task, Todo
  <2>3. CASE nodes[p].kind # "directory"
    <3>1. s = Task("read", p, nodes[p].content)
      BY <2>1, <2>3 DEF AfterStat
    <3>2. s \in Todo /\ s.path = p
      BY <1>2, <2>1, <3>1 DEF Task, Todo
    <3>3. LiveFile(p)
      BY <1>2, <2>1, <2>3 DEF LiveFile, SiteInv, NodesInv
    <3>4. Recent(p, nodes[p].content)
      BY <1>2, <3>3 DEF SiteInv, RecentInv, Recent
    <3>5. QED
      BY <2>1, <3>2, <3>4
  <2>4. QED
    BY <2>2, <2>3
<1>4. todo \in SUBSET Todo
  BY <1>3, Typed
<1>5. \A s \in todo : s \notin publisher.todo /\ s.do = "read" =>
        nodes[s.path] # None /\ Recent(s.path, nodes[s.path].content)
  BY <1>3
<1> HIDE DEF todo, p
<1>6. publisher' = [pc |-> "walking", todo |-> todo, lines |-> publisher.lines]
  BY <1>1, <1>2, Typed
<1>7. QED
  BY <1>1, <1>2, <1>4, <1>5, <1>6, Typed, WalkStep

LEMMA ReadNodeKeeps ==
  ASSUME SiteInv, NEW t \in publisher.todo, ReadNode(t)
  PROVE  SiteInv'
<1> DEFINE line == [path |-> t.path, size |-> t.size, root |-> nodes[t.path].content]
           todo == publisher.todo \ {t}
           lines == publisher.lines \cup {line}
<1>1. /\ t.do = "read" /\ Others' = Others
      /\ publisher' = [pc |-> publisher.pc, todo |-> todo, lines |-> lines]
  BY Typed DEF ReadNode
<1>2. publisher.pc = "walking" /\ t \in Todo /\ t.path \in Paths /\ t.size \in Contents
  BY Typed DEF SiteInv, PublisherInv, Todo
<1>3. Stored(nodes[t.path].content) /\ Recent(t.path, nodes[t.path].content)
  BY <1>1, <1>2 DEF SiteInv, PublisherInv, NodesInv, RecentInv
<1>4. line \in Line /\ line.path = t.path /\ line.root = nodes[t.path].content
  BY <1>2, <1>3 DEF Line, Stored
<1> HIDE DEF line
<1>5. todo \in SUBSET Todo /\ lines \in SUBSET Line
  BY <1>4, Typed
<1>6. \A l \in lines : l \notin publisher.lines => Stored(l.root) /\ Recent(l.path, l.root)
  BY <1>3, <1>4
<1>7. \A s \in todo : s \in publisher.todo
  OBVIOUS
<1> HIDE DEF todo, lines
<1>8. QED
  BY <1>1, <1>2, <1>5, <1>6, <1>7, WalkStep

LEMMA PublishEnds ==
  ASSUME SiteInv, EndWalk \/ PublishFails
  PROVE  SiteInv'
<1>1. Others' = Others
  BY DEF EndWalk, PublishFails
<1>2. UNCHANGED <<nodes, requests, temporaries, objects, crashes, edit, manifests, held>>
  BY <1>1 DEF Others, service, vars, serverVars, history
<1>3. CASE publisher' = Stopped
  BY <1>2, <1>3, PublisherStep DEF Stopped
<1>4. CASE publisher.todo = {} /\ publisher' = [publisher EXCEPT !.pc = "submitted"]
           /\ publisher.pc = "walking"
  <2>1. publisher' = [pc |-> "submitted", todo |-> {}, lines |-> publisher.lines]
    BY <1>4, Typed
  <2>2. \A line \in publisher.lines : Stored(line.root) /\ Recent(line.path, line.root)
    BY <1>4 DEF SiteInv, PublisherInv, RecentInv
  <2>3. QED
    BY <1>2, <1>4, <2>1, <2>2, Typed, PublisherStep
<1>5. QED
  BY <1>3, <1>4 DEF EndWalk, PublishFails

LEMMA ApplyPublishKeeps ==
  ASSUME SiteInv, ApplyPublish
  PROVE  SiteInv'
<1>1. /\ manifests' = [site |-> publisher.lines, published |-> TRUE] /\ publisher' = Stopped
      /\ UNCHANGED <<nodes, requests, temporaries, objects, crashes, edit, held>>
  BY DEF ApplyPublish, PublishSite, serverVars, history
<1>2. ServerInv' /\ EditInv' /\ NodesInv'
  BY <1>1 DEF SiteInv, ServerInv, ServerTypeOK, Kept, Apart, EditInv, NodesInv, Stored
<1>3. ManifestInv'
  BY <1>1 DEF SiteInv, PublisherInv, ManifestInv, Published, Stored
<1>4. PublisherInv' /\ RecentInv'
  BY <1>1 DEF Stopped, PublisherInv, RecentInv
<1>5. QED
  BY <1>2, <1>3, <1>4 DEF SiteInv

LEMMA BeginPublishKeeps ==
  ASSUME SiteInv, BeginPublish
  PROVE  SiteInv'
<1>1. /\ publisher' = [pc |-> "walking", lines |-> {},
                        todo |-> {Task("list", SiteDirectory, NoContent)}]
      /\ held' = LiveFiles
      /\ UNCHANGED <<nodes, requests, temporaries, objects, crashes, edit, manifests>>
  BY DEF BeginPublish, service, vars, serverVars
<1>2. ServerInv' /\ EditInv' /\ NodesInv' /\ ManifestInv'
  BY <1>1 DEF SiteInv, ServerInv, ServerTypeOK, Kept, Apart, EditInv, NodesInv, ManifestInv,
              Published, Stored
<1>3. /\ Task("list", SiteDirectory, NoContent) \in Todo
      /\ Task("list", SiteDirectory, NoContent).do = "list"
  BY DEF Task, Todo
<1>4. /\ publisher'.pc = "walking" /\ publisher'.lines = {}
      /\ publisher' \in [pc: {"idle", "walking", "submitted"}, todo: SUBSET Todo,
                         lines: SUBSET Line]
      /\ \A t \in publisher'.todo : t.do # "read"
  BY <1>1, <1>3
<1>5. PublisherInv'
  BY <1>4 DEF PublisherInv
<1>6. RecentInv'
  BY <1>1, <1>4 DEF RecentInv, LiveFiles, LiveFile, Live
<1>7. QED
  BY <1>2, <1>5, <1>6 DEF SiteInv

-----------------------------------------------------------------------------
LEMMA StutterKeeps == SiteInv /\ UNCHANGED siteVars => SiteInv'
BY DEF siteVars, service, vars, serverVars, SiteInv, ServerInv, ServerTypeOK, Kept, Apart,
       EditInv, NodesInv, PublisherInv, ManifestInv, Published, Stored, RecentInv, Recent,
       LiveFile, Live

LEMMA NextKeeps == SiteInv /\ [SiteNext]_siteVars => SiteInv'
<1> SUFFICES ASSUME SiteInv, SiteNext PROVE SiteInv'
  BY StutterKeeps
<1>1. CASE \E p \in Paths, content \in Bytes, body \in Bytes : BeginWrite(p, content, body)
  BY <1>1, BeginWriteKeeps
<1>2. CASE EndUpload \/ ApplyWrite
  BY <1>2, EndUploadKeeps, ApplyWriteKeeps
<1>3. CASE \E p \in Paths : MakeDirectory(p) \/ Remove(p)
  BY <1>3, MakeDirectoryKeeps, RemoveKeeps
<1>4. CASE Walk
  BY <1>4, ListDirectoryKeeps, StatEntryKeeps, ReadNodeKeeps, PublishEnds DEF Walk
<1>5. CASE BeginPublish \/ PublishFails \/ ApplyPublish
  BY <1>5, BeginPublishKeeps, PublishEnds, ApplyPublishKeeps
<1>6. CASE ReadManifest \/ EndFetch \/ FallBack \/ VisitFails \/ \E p \in Paths : BeginVisit(p)
  BY <1>6, VisitKeeps
<1>7. CASE ServerRestarts \/ \E c \in Callers : Serve(c)
  BY <1>7, RestartKeeps, ServeKeeps
<1>8. QED
  BY <1>1, <1>2, <1>3, <1>4, <1>5, <1>6, <1>7 DEF SiteNext

-----------------------------------------------------------------------------
(* The tree.  Edits never overlap here, so its indexes list what lives:    *)
(* what the walk finds by going down from entry to entry is all there is.  *)

TreeInv ==
  /\ LiveDirectory(Root) /\ LiveDirectory(SiteDirectory)
  /\ directoryIndexes \in [Paths -> Index(Names) \cup {None}]
  /\ \A p \in Paths : Below(p) /\ Live(p) =>
       /\ nodes[p].parent = ParentOf[p]
       /\ LiveDirectory(ParentOf[p]) /\ NameOf[p] \in Listed(ParentOf[p])
  /\ edit # None =>
       /\ edit.path \in Paths /\ Below(edit.path) /\ edit.path # SiteDirectory
       /\ ~LiveDirectory(edit.path)

LEMMA OpenedStands ==
  /\ Root \in Opened /\ Opened \subseteq Paths \ {NoPath, IndexPage}
  /\ \A p \in Opened : p # Root => Below(p) /\ ParentOf[p] \in Opened
<1>1. \A p \in Paths : Below(p) =>
        /\ Ancestors[p] \subseteq Paths \ {NoPath} /\ ParentOf[p] \in Ancestors[p]
        /\ Root \in Ancestors[p]
        /\ \A d \in Ancestors[p] : Ancestors[d] \subseteq Ancestors[p]
  <2> SUFFICES ASSUME NEW p \in Paths, Below(p)
               PROVE  NoPath \notin Ancestors[p]
    BY TreeAssumption
  <2>1. ASSUME NoPath \in Ancestors[p] PROVE FALSE
    <3>1. PICK q \in Ancestors[p] \cup {p} : Below(q) /\ ParentOf[q] = NoPath
      BY <2>1, TreeAssumption
    <3>2. q \in Paths /\ Ancestors[q] = {NoPath} /\ Root \in Ancestors[q]
      BY <3>1, TreeAssumption DEF Below
    <3>3. QED
      BY <3>2
  <2>2. QED
    BY <2>1
<1>2. SiteDirectory \in Paths /\ (SiteDirectory # Root => Below(SiteDirectory))
  BY DEF Below
<1>3. Root \in Opened /\ Opened \subseteq Paths \ {NoPath}
  BY <1>1, <1>2, TreeAssumption DEF Opened
<1>4. IndexPage \notin Opened
  BY TreeAssumption DEF Opened, Below
<1>5. ASSUME NEW p \in Opened, p # Root PROVE Below(p) /\ ParentOf[p] \in Opened
  <2>1. Below(p) /\ p \in Paths /\ ParentOf[p] \in Ancestors[p]
    BY <1>1, <1>3, <1>5 DEF Below
  <2>2. CASE p = SiteDirectory
    BY <2>1, <2>2 DEF Opened
  <2>3. CASE p \in Ancestors[SiteDirectory]
    <3>1. Below(SiteDirectory)
      BY <1>2, <2>3, TreeAssumption
    <3>2. QED
      BY <1>1, <1>2, <2>1, <2>3, <3>1 DEF Opened
  <2>4. QED
    BY <2>1, <2>2, <2>3 DEF Opened
<1>6. QED
  BY <1>3, <1>4, <1>5

LEMMA TreeBegins == SiteInit => TreeInv
<1> SUFFICES ASSUME SiteInit PROVE TreeInv
  OBVIOUS
<1> DEFINE Lists(p) ==
      {NameOf[q] : q \in {r \in Opened \cup {IndexPage} : Below(r) /\ ParentOf[r] = p}}
<1>1. /\ Root \in Paths /\ SiteDirectory \in Paths /\ IndexPage \in Paths
      /\ Below(IndexPage) /\ ParentOf[IndexPage] = SiteDirectory
      /\ SiteDirectory \in Opened /\ NameOf \in [Paths -> Names]
  BY TreeAssumption DEF Opened
<1>2. /\ \A p \in Opened : nodes[p] = Directory(p, IF p = Root THEN NoPath ELSE ParentOf[p])
      /\ nodes[IndexPage] = Node(IndexPage, "file", SiteDirectory, FirstPage)
      /\ \A p \in Paths \ (Opened \cup {IndexPage}) : nodes[p] = None
  BY <1>1, OpenedStands DEF SiteInit
<1>3. /\ \A p \in Opened : directoryIndexes[p] = [entries |-> Lists(p)]
      /\ \A p \in Paths \ Opened : directoryIndexes[p] = None
      /\ directoryIndexes = [p \in Paths |-> directoryIndexes[p]]
  BY <1>1, OpenedStands DEF SiteInit
<1>4. \A p \in Opened : [entries |-> Lists(p)] \in Index(Names) /\ [entries |-> Lists(p)] # None
  <2>1. \A p \in Opened : Lists(p) \subseteq Names
    BY <1>1, OpenedStands
  <2> HIDE DEF Lists
  <2>2. \A p \in Opened : [entries |-> Lists(p)] \in Index(Names)
    BY <2>1 DEF Index
  <2>3. QED
    BY <2>2
<1> HIDE DEF Lists
<1>5. directoryIndexes \in [Paths -> Index(Names) \cup {None}]
  <2>1. \A p \in Paths : directoryIndexes[p] \in Index(Names) \cup {None}
    BY <1>3, <1>4
  <2>2. QED
    BY <1>3, <2>1
<1>6. \A p \in Opened : LiveDirectory(p)
  <2>1. \A p, d \in Paths : Directory(p, d) \in NodeMetadata
    BY DEF Directory, Node, NodeMetadata
  <2>2. ASSUME NEW p \in Opened PROVE LiveDirectory(p)
    <3>1. PICK d \in Paths : nodes[p] = Directory(p, d)
      BY <1>1, <1>2, OpenedStands
    <3>2. nodes[p] # None
      BY <2>1, <3>1, OpenedStands
    <3>3. QED
      BY <3>1, <3>2 DEF LiveDirectory, Live, Directory, Node
  <2>3. QED
    BY <2>2
<1>7. \A p \in Opened \cup {IndexPage} : Below(p) => NameOf[p] \in Listed(ParentOf[p])
  <2> SUFFICES ASSUME NEW p \in Opened \cup {IndexPage}, Below(p)
               PROVE  NameOf[p] \in Listed(ParentOf[p])
    OBVIOUS
  <2>1. ParentOf[p] \in Opened /\ NameOf[p] \in Lists(ParentOf[p])
    BY <1>1, OpenedStands DEF Below, Lists
  <2>2. directoryIndexes[ParentOf[p]] = [entries |-> Lists(ParentOf[p])]
    BY <1>3, <2>1
  <2>3. directoryIndexes[ParentOf[p]] # None
    BY <1>4, <2>1, <2>2
  <2>4. QED
    BY <2>1, <2>2, <2>3 DEF Listed
<1>8. ASSUME NEW p \in Paths, Below(p), Live(p)
      PROVE  /\ nodes[p].parent = ParentOf[p]
             /\ LiveDirectory(ParentOf[p]) /\ NameOf[p] \in Listed(ParentOf[p])
  <2>1. p \in Opened \cup {IndexPage} /\ p # Root
    BY <1>2, <1>8 DEF Live, Below
  <2>2. nodes[p].parent = ParentOf[p] /\ ParentOf[p] \in Opened
    <3>1. CASE p = IndexPage
      BY <1>1, <1>2, <3>1 DEF Node
    <3>2. CASE p \in Opened
      <4>1. nodes[p] = Directory(p, ParentOf[p])
        BY <1>2, <2>1, <3>2
      <4>2. QED
        BY <2>1, <3>2, <4>1, OpenedStands DEF Node, Directory
    <3>3. QED
      BY <2>1, <3>1, <3>2
  <2>3. QED
    BY <1>6, <1>7, <1>8, <2>1, <2>2
<1>9. edit = None
  BY DEF SiteInit
<1>10. QED
  BY <1>1, <1>5, <1>6, <1>8, <1>9, OpenedStands DEF TreeInv

\* Where there is no live directory, or one that lists nothing, nothing lives below.
LEMMA NothingBelow ==
  ASSUME TreeInv, NEW p \in Paths, ~LiveDirectory(p) \/ Entries(p) = {}
  PROVE  \A q \in Paths : Below(q) /\ ParentOf[q] = p => ~Live(q)
BY DEF TreeInv, Entries

\* An edit puts a node in place of another and the index of its directory right.
EntryStep(p, d, m, entries) ==
  /\ Below(p) /\ p # SiteDirectory /\ d = ParentOf[p] /\ LiveDirectory(d)
  /\ ~LiveDirectory(p) \/ Entries(p) = {}
  /\ nodes' = [nodes EXCEPT ![p] = m] /\ m.parent = d
  /\ directoryIndexes' \in [Paths -> Index(Names) \cup {None}]
  /\ directoryIndexes'[d] = [entries |-> entries]
  /\ \A e \in Paths \ {p, d} : directoryIndexes'[e] = directoryIndexes[e]
  /\ \A n \in Listed(d) : n # NameOf[p] => n \in entries
  /\ ~m.removed => NameOf[p] \in entries
  /\ edit' = None

LEMMA EntryChanges ==
  ASSUME TreeInv, SiteInv, NEW p \in Paths, NEW d \in Paths, NEW m \in NodeMetadata,
         NEW entries \in SUBSET Names, EntryStep(p, d, m, entries)
  PROVE  TreeInv'
<1> USE DEF EntryStep
<1> USE TreeAssumption
<1>1. /\ nodes'[p] = m /\ \A q \in Paths \ {p} : nodes'[q] = nodes[q]
      /\ ParentOf[p] \in Paths \ {p} /\ Root \in Paths \ {p} /\ SiteDirectory \in Paths \ {p}
  BY DEF SiteInv, NodesInv, Below
<1>2. \A q \in Paths \ {p} : (Live(q)' <=> Live(q)) /\ (LiveDirectory(q)' <=> LiveDirectory(q))
  BY <1>1 DEF Live, LiveDirectory
<1>3. \A q \in Paths : Below(q) /\ ParentOf[q] = p => ~Live(q)
  BY NothingBelow
<1>4. Listed(d)' = entries
  <2>1. [entries |-> entries] \in Index(Names) /\ [entries |-> entries] # None
    BY DEF Index
  <2>2. QED
    BY <2>1 DEF Listed
<1>5. \A e \in Paths \ {p, d} : Listed(e)' = Listed(e)
  BY DEF Listed
<1>6. ASSUME NEW q \in Paths, Below(q), Live(q)'
      PROVE  /\ nodes'[q].parent = ParentOf[q]
             /\ LiveDirectory(ParentOf[q])' /\ NameOf[q] \in Listed(ParentOf[q])'
  <2>1. CASE q = p
    <3>1. ~m.removed
      BY <1>1, <1>6, <2>1 DEF Live
    <3>2. QED
      BY <1>1, <1>2, <1>4, <2>1, <3>1
  <2>2. CASE q # p
    <3>1. /\ Live(q) /\ nodes[q].parent = ParentOf[q]
          /\ LiveDirectory(ParentOf[q]) /\ NameOf[q] \in Listed(ParentOf[q])
      BY <1>2, <1>6, <2>2 DEF TreeInv
    <3>2. ParentOf[q] \in Paths \ {p}
      BY <1>3, <1>6, <3>1
    <3>3. NameOf[q] \in Listed(ParentOf[q])'
      <4>1. CASE ParentOf[q] = d
        <5>1. NameOf[q] # NameOf[p]
          BY <1>6, <2>2, <4>1
        <5>2. QED
          BY <1>4, <3>1, <4>1, <5>1
      <4>2. CASE ParentOf[q] # d
        BY <1>5, <3>1, <3>2, <4>2
      <4>3. QED
        BY <4>1, <4>2
    <3>4. QED
      BY <1>1, <1>2, <2>2, <3>1, <3>2, <3>3
  <2>3. QED
    BY <2>1, <2>2
<1>7. LiveDirectory(Root)' /\ LiveDirectory(SiteDirectory)'
  BY <1>1, <1>2 DEF TreeInv
<1>8. QED
  BY <1>6, <1>7 DEF TreeInv

\* Steps that touch no record of the tree.
LEMMA TreeStands ==
  ASSUME TreeInv, UNCHANGED <<nodes, directoryIndexes>>,
         \/ edit' \in {edit, None}
         \/ /\ edit'.path \in Paths /\ Below(edit'.path) /\ edit'.path # SiteDirectory
            /\ ~LiveDirectory(edit'.path)
  PROVE  TreeInv'
BY DEF TreeInv, LiveDirectory, Live, Listed

LEMMA ListedNames ==
  ASSUME TreeInv, NEW d \in Paths
  PROVE  Listed(d) \in SUBSET Names
BY DEF TreeInv, Listed, Index

LEMMA IndexTyped ==
  ASSUME NEW entries \in SUBSET Names
  PROVE  [entries |-> entries] \in Index(Names)
BY DEF Index

LEMMA TreeKept == SiteInv /\ TreeInv /\ SiteNext => TreeInv'
<1> SUFFICES ASSUME SiteInv, TreeInv, SiteNext PROVE TreeInv'
  OBVIOUS
<1>1. ASSUME NEW p \in Paths, MakeDirectory(p) PROVE TreeInv'
  <2>1. /\ Below(p) /\ p # SiteDirectory /\ LiveDirectory(ParentOf[p]) /\ ~LiveDirectory(p)
        /\ edit' = None
    BY <1>1 DEF MakeDirectory, MayEdit, Below, LiveDirectory
  <2>2. PICK d \in Paths : d = ParentOf[p]
    OBVIOUS
  <2>3. PICK m \in NodeMetadata : m = Directory(p, d) /\ m.parent = d
    <3>1. NoContent \in Contents
      OBVIOUS
    <3>2. Directory(p, d) \in NodeMetadata /\ Directory(p, d).parent = d
      BY <3>1 DEF Directory, Node, NodeMetadata
    <3>3. QED
      BY <3>2
  <2>4. PICK entries \in SUBSET Names : entries = Listed(d) \cup {NameOf[p]}
    BY ListedNames
  <2>5. /\ nodes' = [nodes EXCEPT ![p] = m]
        /\ directoryIndexes' = [directoryIndexes EXCEPT
             ![p] = [entries |-> {}], ![d] = [entries |-> entries]]
    BY <1>1, <2>2, <2>3, <2>4 DEF MakeDirectory, Mkdir
  <2>6. directoryIndexes \in [Paths -> Index(Names) \cup {None}]
    BY DEF TreeInv
  <2>7. [entries |-> entries] \in Index(Names) /\ [entries |-> {}] \in Index(Names)
    BY IndexTyped
  <2>8. /\ directoryIndexes' \in [Paths -> Index(Names) \cup {None}]
        /\ directoryIndexes'[d] = [entries |-> entries]
        /\ \A e \in Paths \ {p, d} : directoryIndexes'[e] = directoryIndexes[e]
    BY <2>5, <2>6, <2>7
  <2>9. /\ \A n \in Listed(d) : n # NameOf[p] => n \in entries
        /\ ~m.removed => NameOf[p] \in entries
    BY <2>3, <2>4
  <2>10. EntryStep(p, d, m, entries)
    BY <2>1, <2>2, <2>3, <2>4, <2>5, <2>8, <2>9 DEF EntryStep
  <2>11. QED
    BY <2>10, EntryChanges
<1>2. CASE ApplyWrite
  <2>1. PICK p \in Paths : p = edit.path
    BY <1>2 DEF ApplyWrite, TreeInv
  <2>2. /\ Below(p) /\ p # SiteDirectory /\ LiveDirectory(ParentOf[p]) /\ ~LiveDirectory(p)
        /\ edit' = None
    BY <1>2, <2>1 DEF ApplyWrite, WriteFile, MayCreate, TreeInv
  <2>3. PICK d \in Paths : d = ParentOf[p]
    OBVIOUS
  <2>4. edit.content \in Contents
    BY <1>2 DEF ApplyWrite, SiteInv, EditInv
  <2>5. PICK m \in NodeMetadata : m = Node(p, "file", d, edit.content) /\ m.parent = d
    <3>1. /\ Node(p, "file", d, edit.content) \in NodeMetadata
          /\ Node(p, "file", d, edit.content).parent = d
      BY <2>4 DEF Node, NodeMetadata
    <3>2. QED
      BY <3>1
  <2>6. PICK entries \in SUBSET Names : entries = Listed(d) \cup {NameOf[p]}
    BY ListedNames
  <2>7. /\ nodes' = [nodes EXCEPT ![p] = m]
        /\ directoryIndexes' = [directoryIndexes EXCEPT ![d] = [entries |-> entries]]
    BY <1>2, <2>1, <2>3, <2>5, <2>6 DEF ApplyWrite, WriteFile
  <2>8. directoryIndexes \in [Paths -> Index(Names) \cup {None}]
    BY DEF TreeInv
  <2>9. [entries |-> entries] \in Index(Names)
    BY IndexTyped
  <2>10. /\ directoryIndexes' \in [Paths -> Index(Names) \cup {None}]
         /\ directoryIndexes'[d] = [entries |-> entries]
         /\ \A e \in Paths \ {p, d} : directoryIndexes'[e] = directoryIndexes[e]
    BY <2>7, <2>8, <2>9
  <2>11. /\ \A n \in Listed(d) : n # NameOf[p] => n \in entries
         /\ ~m.removed => NameOf[p] \in entries
    BY <2>5, <2>6
  <2>12. EntryStep(p, d, m, entries)
    BY <2>2, <2>3, <2>5, <2>6, <2>7, <2>10, <2>11 DEF EntryStep
  <2>13. QED
    BY <2>12, EntryChanges
<1>3. ASSUME NEW p \in Paths, Remove(p) PROVE TreeInv'
  <2>1. /\ Below(p) /\ p # SiteDirectory /\ LiveDirectory(ParentOf[p]) /\ Live(p)
        /\ LiveDirectory(p) => Entries(p) = {}
        /\ edit' = None
    BY <1>3 DEF Remove, MayEdit, Below, RemoveNode, MayRemove
  <2>2. PICK d \in Paths : d = ParentOf[p]
    OBVIOUS
  <2>3. nodes[p].parent = d /\ nodes[p] \in NodeMetadata
    BY <2>1, <2>2 DEF TreeInv, SiteInv, NodesInv, Live
  <2>4. PICK m \in NodeMetadata : m = Tombstone(nodes[p]) /\ m.parent = d /\ m.removed
    <3>1. /\ Tombstone(nodes[p]) \in NodeMetadata /\ Tombstone(nodes[p]).removed
          /\ Tombstone(nodes[p]).parent = d
      BY <2>3 DEF Tombstone, NodeMetadata
    <3>2. QED
      BY <3>1
  <2>5. PICK entries \in SUBSET Names : entries = Listed(d) \ {NameOf[p]}
    BY ListedNames
  <2>6. /\ nodes' = [nodes EXCEPT ![p] = m]
        /\ directoryIndexes' = [directoryIndexes EXCEPT ![d] = [entries |-> entries]]
    BY <1>3, <2>2, <2>3, <2>4, <2>5 DEF Remove, RemoveNode
  <2>7. directoryIndexes \in [Paths -> Index(Names) \cup {None}]
    BY DEF TreeInv
  <2>8. [entries |-> entries] \in Index(Names)
    BY IndexTyped
  <2>9. /\ directoryIndexes' \in [Paths -> Index(Names) \cup {None}]
        /\ directoryIndexes'[d] = [entries |-> entries]
        /\ \A e \in Paths \ {p, d} : directoryIndexes'[e] = directoryIndexes[e]
    BY <2>6, <2>7, <2>8
  <2>10. /\ \A n \in Listed(d) : n # NameOf[p] => n \in entries
         /\ ~m.removed => NameOf[p] \in entries
    BY <2>4, <2>5
  <2>11. EntryStep(p, d, m, entries)
    BY <2>1, <2>2, <2>4, <2>5, <2>6, <2>9, <2>10 DEF EntryStep
  <2>12. QED
    BY <2>11, EntryChanges
<1>4. ASSUME NEW p \in Paths, NEW content \in Bytes, NEW body \in Bytes,
             BeginWrite(p, content, body)
      PROVE  TreeInv'
  <2>1. edit'.path = p /\ UNCHANGED <<nodes, directoryIndexes>>
    BY <1>4 DEF BeginWrite, service, vars
  <2>2. Below(p) /\ p # SiteDirectory /\ ~LiveDirectory(p)
    BY <1>4 DEF BeginWrite, MayEdit, Below
  <2>3. QED
    BY <2>1, <2>2, TreeStands
<1>5. CASE EndUpload
  <2>1. /\ UNCHANGED <<nodes, directoryIndexes>> /\ edit # None
        /\ edit' = None \/ edit' = [edit EXCEPT !.uploaded = TRUE]
    BY <1>5 DEF EndUpload, service, vars
  <2>2. edit \in [path: Paths, content: Bytes, uploaded: BOOLEAN]
    BY <2>1 DEF SiteInv, EditInv
  <2>3. edit' = None \/ edit'.path = edit.path
    BY <2>1, <2>2
  <2>4. QED
    BY <2>1, <2>3, TreeStands DEF TreeInv
<1>6. CASE \/ BeginPublish \/ Walk \/ PublishFails \/ ApplyPublish
           \/ (\E p \in Paths : BeginVisit(p)) \/ ReadManifest \/ EndFetch \/ FallBack
           \/ VisitFails \/ ServerRestarts \/ \E c \in Callers : Serve(c)
  <2>1. UNCHANGED <<nodes, directoryIndexes, edit>>
    BY <1>6 DEF BeginPublish, Walk, ListDirectory, StatEntry, ReadNode, EndWalk, PublishFails,
                ApplyPublish, PublishSite, BeginVisit, ReadManifest, EndFetch, FallBack,
                VisitFails, ServerRestarts, Serve, Others, Rest, service, vars
  <2>2. QED
    BY <2>1, TreeStands
<1>7. QED
  BY <1>1, <1>2, <1>3, <1>4, <1>5, <1>6 DEF SiteNext

-----------------------------------------------------------------------------
(* A walk that nothing disturbs: what it knows is so, and every file of    *)
(* the site has its line or lies below a task.                             *)

InSite(p) ==
  /\ SiteDirectory \in Ancestors[p]
  /\ \A d \in Ancestors[p] : SiteDirectory \in Ancestors[d] => LiveDirectory(d)

Sound(t) ==
  /\ t.path # SiteDirectory \/ t.do # "list" => InSite(t.path)
  /\ t.do = "list" => LiveDirectory(t.path)
  /\ t.do = "read" => LiveFile(t.path) /\ t.size = nodes[t.path].content

Exact(line) ==
  /\ line.path \in SiteFiles
  /\ line.size = nodes[line.path].content /\ line.root = nodes[line.path].content

ComesTo(t, p) ==
  \/ t.do # "list" /\ t.path = p
  \/ t.do # "read" /\ t.path \in Ancestors[p]

Found(p, todo, lines) ==
  (\E line \in lines : line.path = p) \/ \E t \in todo : ComesTo(t, p)

WalkInv ==
  publisher.pc # "idle" /\ untouched =>
    /\ \A t \in publisher.todo : Sound(t)
    /\ \A line \in publisher.lines : Exact(line)
    /\ \A p \in SiteFiles : Found(p, publisher.todo, publisher.lines)

\* Steps that leave the nodes and the publisher alone, or end a quiet walk.
LEMMA WalkStands ==
  ASSUME WalkInv,
         \/ UNCHANGED <<nodes, publisher, untouched>>
         \/ untouched' = FALSE
         \/ publisher'.pc = "idle"
  PROVE  WalkInv'
<1>1. CASE UNCHANGED <<nodes, publisher, untouched>>
  <2>1. SiteFiles' = SiteFiles /\ \A t : Sound(t)' <=> Sound(t)
    BY <1>1 DEF SiteFiles, Sound, InSite, LiveDirectory, LiveFile, Live
  <2>2. \A line : Exact(line)' <=> Exact(line)
    BY <1>1, <2>1 DEF Exact
  <2>3. QED
    BY <1>1, <2>1, <2>2 DEF WalkInv
<1>2. QED
  BY <1>1 DEF WalkInv

\* One task is replaced by what it finds.
WalkTo(t, found, added) ==
  /\ publisher'.todo = (publisher.todo \ {t}) \cup found
  /\ publisher'.lines = publisher.lines \cup added
  /\ UNCHANGED <<nodes, untouched>>

LEMMA TaskDone ==
  ASSUME WalkInv, NEW t \in publisher.todo, NEW found, NEW added, WalkTo(t, found, added),
         publisher.pc # "idle", untouched,
         \A s \in found : Sound(s), \A line \in added : Exact(line),
         \A p \in SiteFiles : ComesTo(t, p) => Found(p, found, added)
  PROVE  WalkInv'
<1>1. SiteFiles' = SiteFiles /\ \A s : Sound(s)' <=> Sound(s)
  BY DEF WalkTo, SiteFiles, Sound, InSite, LiveDirectory, LiveFile, Live
<1>2. \A line : Exact(line)' <=> Exact(line)
  BY <1>1 DEF WalkTo, Exact
<1>3. \A s \in publisher'.todo : Sound(s)
  BY DEF WalkTo, WalkInv
<1>4. \A line \in publisher'.lines : Exact(line)
  BY DEF WalkTo, WalkInv
<1>5. ASSUME NEW p \in SiteFiles PROVE Found(p, publisher'.todo, publisher'.lines)
  <2>1. CASE \E line \in publisher.lines : line.path = p
    BY <2>1 DEF WalkTo, Found
  <2>2. CASE \E s \in publisher.todo : ComesTo(s, p)
    <3>1. PICK s \in publisher.todo : ComesTo(s, p)
      BY <2>2
    <3>2. CASE s = t
      <4>1. Found(p, found, added)
        BY <3>1, <3>2
      <4>2. QED
        BY <4>1 DEF WalkTo, Found
    <3>3. CASE s # t
      BY <3>1, <3>3 DEF WalkTo, Found
    <3>4. QED
      BY <3>2, <3>3
  <2>3. QED
    BY <1>5, <2>1, <2>2 DEF WalkInv, Found
<1>6. \A p \in SiteFiles' : Found(p, publisher'.todo, publisher'.lines)
  BY <1>1, <1>5
<1>7. \A p : Found(p, publisher.todo, publisher.lines)' <=> Found(p, publisher'.todo, publisher'.lines)
  BY DEF Found, ComesTo
<1>8. QED
  BY <1>1, <1>2, <1>3, <1>4, <1>6, <1>7 DEF WalkInv

\* The entries of a directory of the site are in the site.
LEMMA EntryInSite ==
  ASSUME NEW d \in Paths, NEW q \in Paths, Below(q), ParentOf[q] = d, LiveDirectory(d),
         d # SiteDirectory => InSite(d)
  PROVE  InSite(q)
<1>1. Ancestors[q] = {d} \cup Ancestors[d]
  BY TreeAssumption
<1>2. CASE d = SiteDirectory
  <2>1. \A e \in Ancestors[d] : SiteDirectory \notin Ancestors[e]
    <3>1. CASE SiteDirectory = Root
      BY <1>2, <3>1, TreeAssumption
    <3>2. CASE SiteDirectory # Root
      <4>1. Below(SiteDirectory)
        BY <3>2 DEF Below
      <4>2. QED
        BY <1>2, <4>1, TreeAssumption DEF Below
    <3>3. QED
      BY <3>1, <3>2
  <2>2. QED
    BY <1>1, <1>2, <2>1 DEF InSite
<1>3. CASE d # SiteDirectory
  BY <1>1, <1>3 DEF InSite
<1>4. QED
  BY <1>2, <1>3

\* A file of the site below a directory the walk lists is below one of its entries.
LEMMA EntryLeadsOn ==
  ASSUME TreeInv, NEW d \in Paths, d # SiteDirectory => InSite(d),
         NEW p \in SiteFiles, d \in Ancestors[p]
  PROVE  \E q \in Entries(d) : q = p \/ q \in Ancestors[p]
<1>1. p \in Paths /\ LiveFile(p) /\ Below(p)
  BY TreeAssumption DEF SiteFiles, Below
<1>2. PICK q \in Ancestors[p] \cup {p} : Below(q) /\ ParentOf[q] = d
  BY <1>1, TreeAssumption
<1>3. q \in Paths /\ Ancestors[q] = {d} \cup Ancestors[d]
  BY <1>1, <1>2, TreeAssumption DEF Below
<1>4. SiteDirectory \in Ancestors[q]
  BY <1>3 DEF InSite
<1>5. Live(q)
  <2>1. CASE q = p
    BY <1>1, <2>1 DEF LiveFile
  <2>2. CASE q # p
    BY <1>2, <1>4, <2>2 DEF SiteFiles, LiveDirectory
  <2>3. QED
    BY <2>1, <2>2
<1>6. NameOf[q] \in Listed(d)
  BY <1>2, <1>3, <1>5 DEF TreeInv
<1>7. QED
  BY <1>2, <1>3, <1>6 DEF Entries

LEMMA WalkKept == SiteInv /\ TreeInv /\ WalkInv /\ SiteNext => WalkInv'
<1> SUFFICES ASSUME SiteInv, TreeInv, WalkInv, SiteNext PROVE WalkInv'
  OBVIOUS
<1>1. CASE BeginPublish
  <2>1. /\ publisher'.lines = {} /\ publisher'.todo = {Task("list", SiteDirectory, NoContent)}
        /\ UNCHANGED nodes
    BY <1>1 DEF BeginPublish, service, vars
  <2>2. /\ Task("list", SiteDirectory, NoContent).do = "list"
        /\ Task("list", SiteDirectory, NoContent).path = SiteDirectory
    BY DEF Task
  <2>3. LiveDirectory(SiteDirectory)' /\ SiteDirectory \in Paths
    BY <2>1 DEF TreeInv, LiveDirectory, Live
  <2>4. Sound(Task("list", SiteDirectory, NoContent))'
    BY <2>2, <2>3 DEF Sound
  <2>5. \A p \in SiteFiles' : ComesTo(Task("list", SiteDirectory, NoContent), p)
    BY <2>2 DEF ComesTo, SiteFiles
  <2>6. \A p \in SiteFiles' : Found(p, publisher.todo, publisher.lines)'
    BY <2>1, <2>5 DEF Found, ComesTo
  <2>7. QED
    BY <2>1, <2>4, <2>6 DEF WalkInv
<1>2. CASE Walk
  <2>1. CASE ~untouched \/ publisher.pc = "idle"
    <3>1. untouched' = untouched
      BY <1>2 DEF Walk, ListDirectory, StatEntry, ReadNode, EndWalk, Others, history
    <3>2. publisher.pc = "idle" => publisher.todo = {}
      BY DEF SiteInv, PublisherInv
    <3>3. publisher.pc = "idle" => FALSE
      BY <1>2, <3>2 DEF Walk, EndWalk
    <3>4. QED
      BY <2>1, <3>1, <3>3 DEF WalkInv
  <2> SUFFICES ASSUME untouched, publisher.pc # "idle" PROVE WalkInv'
    BY <2>1
  <2>2. ASSUME NEW t \in publisher.todo, ListDirectory(t) PROVE WalkInv'
    <3> DEFINE stats == {Task("stat", q, NoContent) : q \in Entries(t.path)}
    <3>1. WalkTo(t, stats, {})
      BY <2>2, Typed DEF ListDirectory, WalkTo, Others, service, vars, history
    <3>2. Sound(t) /\ t.do = "list" /\ t.path \in Paths
      BY <2>2, Typed DEF WalkInv, ListDirectory, Todo
    <3>3. \A q \in Entries(t.path) : q \in Paths /\ Below(q) /\ ParentOf[q] = t.path
      BY DEF Entries
    <3>4. \A q \in Entries(t.path) : InSite(q)
      BY <3>2, <3>3, EntryInSite DEF Sound
    <3>5. \A s \in stats : Sound(s)
      BY <3>4 DEF Task, Sound
    <3>6. ASSUME NEW p \in SiteFiles, ComesTo(t, p) PROVE Found(p, stats, {})
      <4>1. t.path \in Ancestors[p]
        BY <3>2, <3>6 DEF ComesTo
      <4>2. PICK q \in Entries(t.path) : q = p \/ q \in Ancestors[p]
        BY <3>2, <4>1, EntryLeadsOn DEF Sound
      <4>3. ComesTo(Task("stat", q, NoContent), p)
        BY <4>2 DEF ComesTo, Task
      <4>4. QED
        BY <4>2, <4>3 DEF Found
    <3> HIDE DEF stats
    <3>7. QED
      BY <3>1, <3>5, <3>6, TaskDone
  <2>3. ASSUME NEW t \in publisher.todo, StatEntry(t) PROVE WalkInv'
    <3>1. WalkTo(t, AfterStat(t.path), {})
      BY <2>3, Typed DEF StatEntry, WalkTo, Others, service, vars, history
    <3>2. InSite(t.path) /\ t.do = "stat" /\ t.path \in Paths
      BY <2>3, Typed DEF WalkInv, StatEntry, Todo, Sound
    <3>3. ASSUME NEW p \in SiteFiles, ComesTo(t, p)
          PROVE  \/ t.path = p /\ LiveFile(p)
                 \/ t.path \in Ancestors[p] /\ LiveDirectory(t.path)
      BY <3>2, <3>3 DEF ComesTo, SiteFiles, InSite
    <3>4. CASE ~Live(t.path)
      <4>1. AfterStat(t.path) = {}
        BY <3>4 DEF AfterStat
      <4>2. \A p \in SiteFiles : ~ComesTo(t, p)
        BY <3>3, <3>4 DEF LiveFile, LiveDirectory
      <4>3. QED
        BY <3>1, <4>1, <4>2, TaskDone
    <3>5. CASE LiveDirectory(t.path)
      <4> DEFINE s == Task("list", t.path, NoContent)
      <4>1. AfterStat(t.path) = {s} /\ s.do = "list" /\ s.path = t.path
        BY <3>5 DEF AfterStat, LiveDirectory, Task
      <4> HIDE DEF s
      <4>2. Sound(s)
        BY <3>2, <3>5, <4>1 DEF Sound
      <4>3. \A p \in SiteFiles : ComesTo(t, p) => t.path \in Ancestors[p]
        BY <3>3, <3>5 DEF LiveFile, LiveDirectory
      <4>4. \A p \in SiteFiles : ComesTo(t, p) => Found(p, {s}, {})
        BY <4>1, <4>3 DEF Found, ComesTo
      <4>5. QED
        BY <3>1, <4>1, <4>2, <4>4, TaskDone
    <3>6. CASE Live(t.path) /\ ~LiveDirectory(t.path)
      <4> DEFINE s == Task("read", t.path, nodes[t.path].content)
      <4>1. /\ AfterStat(t.path) = {s} /\ s.do = "read" /\ s.path = t.path
            /\ s.size = nodes[t.path].content
        BY <3>6 DEF AfterStat, LiveDirectory, Task
      <4> HIDE DEF s
      <4>2. LiveFile(t.path)
        BY <3>2, <3>6 DEF LiveFile, LiveDirectory, Live, SiteInv, NodesInv
      <4>3. Sound(s)
        BY <3>2, <4>1, <4>2 DEF Sound
      <4>4. \A p \in SiteFiles : ComesTo(t, p) => t.path = p
        BY <3>3, <3>6
      <4>5. \A p \in SiteFiles : ComesTo(t, p) => Found(p, {s}, {})
        BY <4>1, <4>4 DEF Found, ComesTo
      <4>6. QED
        BY <3>1, <4>1, <4>3, <4>5, TaskDone
    <3>7. QED
      BY <3>4, <3>5, <3>6 DEF LiveDirectory
  <2>4. ASSUME NEW t \in publisher.todo, ReadNode(t) PROVE WalkInv'
    <3> DEFINE line == [path |-> t.path, size |-> t.size, root |-> nodes[t.path].content]
    <3>1. publisher' = [publisher EXCEPT !.todo = @ \ {t}, !.lines = @ \cup {line}]
      BY <2>4 DEF ReadNode
    <3>2. WalkTo(t, {}, {line})
      BY <2>4, <3>1, Typed DEF ReadNode, WalkTo, Others, service, vars, history
    <3>3. Sound(t) /\ t.do = "read" /\ t.path \in Paths
      BY <2>4, Typed DEF WalkInv, ReadNode, Todo
    <3>4. t.path \in SiteFiles
      BY <3>3 DEF Sound, InSite, SiteFiles
    <3>5. /\ line.path = t.path /\ line.size = t.size /\ line.root = nodes[t.path].content
      OBVIOUS
    <3> HIDE DEF line
    <3>6. Exact(line)
      BY <3>3, <3>4, <3>5 DEF Exact, Sound
    <3>7. \A p \in SiteFiles : ComesTo(t, p) => Found(p, {}, {line})
      BY <3>3, <3>5 DEF ComesTo, Found
    <3>8. QED
      BY <3>2, <3>6, <3>7, TaskDone
  <2>5. CASE EndWalk
    <3>1. publisher' = Stopped \/ publisher' = [publisher EXCEPT !.pc = "submitted"]
      BY <2>5 DEF EndWalk
    <3>2. CASE publisher' = Stopped
      BY <3>2, WalkStands DEF Stopped
    <3>3. CASE publisher' = [publisher EXCEPT !.pc = "submitted"]
      <4>1. /\ publisher'.todo = publisher.todo /\ publisher'.lines = publisher.lines
            /\ UNCHANGED <<nodes, untouched>>
        BY <2>5, <3>3, Typed DEF EndWalk, Others, service, vars, history
      <4>2. SiteFiles' = SiteFiles /\ \A t : Sound(t)' <=> Sound(t)
        BY <4>1 DEF SiteFiles, Sound, InSite, LiveDirectory, LiveFile, Live
      <4>3. \A line : Exact(line)' <=> Exact(line)
        BY <4>1, <4>2 DEF Exact
      <4>4. QED
        BY <4>1, <4>2, <4>3 DEF WalkInv, Found, ComesTo
    <3>4. QED
      BY <3>1, <3>2, <3>3
  <2>6. QED
    BY <1>2, <2>2, <2>3, <2>4, <2>5 DEF Walk
<1>3. CASE PublishFails \/ ApplyPublish
  <2>1. publisher' = Stopped
    BY <1>3 DEF PublishFails, ApplyPublish
  <2>2. publisher'.pc = "idle"
    BY <2>1 DEF Stopped
  <2>3. QED
    BY <2>2, WalkStands
<1>4. CASE ApplyWrite \/ \E p \in Paths : MakeDirectory(p) \/ Remove(p)
  BY <1>4, WalkStands DEF ApplyWrite, MakeDirectory, Remove, Edited
<1>5. CASE \/ \E p \in Paths, content \in Bytes, body \in Bytes : BeginWrite(p, content, body)
           \/ EndUpload
           \/ (\E p \in Paths : BeginVisit(p)) \/ ReadManifest \/ EndFetch \/ FallBack
           \/ VisitFails \/ ServerRestarts \/ \E c \in Callers : Serve(c)
  <2>1. UNCHANGED <<nodes, publisher, untouched>>
    BY <1>5 DEF BeginWrite, EndUpload, BeginVisit, ReadManifest, EndFetch, FallBack,
                VisitFails, ServerRestarts, Serve, Rest, service, vars, history
  <2>2. QED
    BY <2>1, WalkStands
<1>6. QED
  BY <1>1, <1>2, <1>3, <1>4, <1>5 DEF SiteNext

-----------------------------------------------------------------------------
(* Litter *)

\* A caller's request is replaced; the files appear and go with it.
LEMMA TidyStep ==
  ASSUME NEW c \in Callers, requests \in [Callers -> Request], NEW n \in Request,
         requests' = [requests EXCEPT ![c] = n], Tidy(requests[c], n)
  PROVE  Litter' \subseteq Litter
<1> SUFFICES ASSUME NEW u \in Uploads, u \in Litter', u \notin Litter PROVE FALSE
  BY DEF Litter
<1>1. /\ temporaries'[u] # NoFile
      /\ \A d \in Callers : Holding(requests'[d]) => requests'[d].file # u
  BY DEF Litter, Holding
<1>2. requests'[c] = n /\ \A d \in Callers \ {c} : requests'[d] = requests[d]
  OBVIOUS
<1>3. temporaries[u] # NoFile
  BY <1>1, <1>2 DEF Tidy
<1>4. PICK d \in Callers : Holding(requests[d]) /\ requests[d].file = u
  BY <1>3 DEF Litter, Holding
<1>5. CASE d = c
  BY <1>1, <1>2, <1>4, <1>5 DEF Tidy
<1>6. CASE d # c
  BY <1>1, <1>2, <1>4, <1>6
<1>7. QED
  BY <1>5, <1>6

LEMMA LitterStep ==
  ASSUME SiteInv, SiteNext, crashes' = crashes
  PROVE  Litter' \subseteq Litter
<1>1. requests \in [Callers -> Request] /\ Tab \in Callers /\ Guest \in Callers
  BY DEF SiteInv, ServerInv, ServerTypeOK
<1>2. CASE UNCHANGED <<requests, temporaries>>
  BY <1>2 DEF Litter
<1>3. ASSUME NEW c \in Callers, NEW root \in Bytes, NEW body \in Bytes, NEW op \in {"GET", "PUT"},
             Ask(c, op, root, body), UNCHANGED temporaries
      PROVE  Litter' \subseteq Litter
  <2>1. PICK n \in Request : n = Asked(op, root, body) /\ n.at = "received"
    <3>1. Asked(op, root, body) \in Request
      BY RequestTyped
    <3>2. Asked(op, root, body).at = "received"
      BY DEF Asked
    <3>3. QED
      BY <3>1, <3>2
  <2>2. requests' = [requests EXCEPT ![c] = n] /\ Tidy(requests[c], n)
    BY <1>3, <2>1 DEF Ask, Tidy, Holding
  <2>3. QED
    BY <1>1, <2>2, TidyStep
<1>4. ASSUME NEW c \in Callers, TakeAnswer(c), UNCHANGED temporaries
      PROVE  Litter' \subseteq Litter
  <2>1. PICK n \in Request : n = NoRequest /\ n.at = "idle"
    BY NoRequestTyped
  <2>2. requests' = [requests EXCEPT ![c] = n] /\ Tidy(requests[c], n)
    BY <1>4, <2>1 DEF TakeAnswer, Tidy, Holding
  <2>3. QED
    BY <1>1, <2>2, TidyStep
<1>5. CASE \E c \in Callers : Serve(c)
  <2>1. PICK c \in Callers : Handle(c)
    BY <1>5 DEF Serve
  <2>2. PICK n \in Request : requests' = [requests EXCEPT ![c] = n] /\ Tidy(requests[c], n)
    BY <2>1, HandleKeeps DEF SiteInv
  <2>3. QED
    BY <1>1, <2>2, TidyStep
<1>6. CASE \E p \in Paths, content \in Bytes, body \in Bytes : BeginWrite(p, content, body)
  BY <1>1, <1>3, <1>6 DEF BeginWrite
<1>7. CASE EndUpload \/ EndFetch
  BY <1>1, <1>4, <1>7 DEF EndUpload, EndFetch
<1>8. CASE ReadManifest
  <2>1. CASE \E line \in Published : line.root # NoContent /\ Ask(Guest, "GET", line.root, line.root)
    <3>1. PICK line \in Published : line.root # NoContent /\ Ask(Guest, "GET", line.root, line.root)
      BY <2>1
    <3>2. line.root \in Bytes /\ UNCHANGED temporaries
      BY <1>8, <3>1 DEF SiteInv, ManifestInv, Stored, ReadManifest
    <3>3. QED
      BY <1>1, <1>3, <3>1, <3>2
  <2>2. CASE UNCHANGED requests
    BY <1>2, <1>8, <2>2 DEF ReadManifest
  <2>3. QED
    BY <1>8, <2>1, <2>2 DEF ReadManifest
<1>9. ~ServerRestarts
  BY DEF ServerRestarts, Crash, SiteInv, ServerInv, ServerTypeOK
<1>10. CASE ApplyWrite \/ (\E p \in Paths : MakeDirectory(p) \/ Remove(p)) \/ BeginPublish \/ Walk
            \/ PublishFails \/ ApplyPublish \/ (\E p \in Paths : BeginVisit(p))
            \/ FallBack \/ VisitFails
  <2>1. UNCHANGED <<requests, temporaries>>
    BY <1>10 DEF ApplyWrite, MakeDirectory, Remove, BeginPublish, Walk, ListDirectory, StatEntry,
                 ReadNode, EndWalk, PublishFails, ApplyPublish, BeginVisit, FallBack, VisitFails,
                 Others, Rest, serverVars
  <2>2. QED
    BY <1>2, <2>1
<1>11. QED
  BY <1>5, <1>6, <1>7, <1>8, <1>9, <1>10 DEF SiteNext

-----------------------------------------------------------------------------
(* The theorems. *)

LEMMA SiteInvHolds == SiteSpec => []SiteInv
BY InitHolds, NextKeeps, PTL DEF SiteSpec

\* The requests and the files of the content server are what they should be
\* (server.mjs), whoever asks for what and whenever it is started again.
THEOREM ServerTypeCorrect == SiteSpec => []ServerTypeOK
<1>1. SiteInv => ServerTypeOK
  BY DEF SiteInv, ServerInv
<1>2. QED
  BY <1>1, SiteInvHolds, PTL

\* Whatever a manifest names, published or being gathered, the server has
\* whole: publish (LiveFileSystemRuntime.ts:28) never signs a root that an
\* upload cut short would leave unanswered.
THEOREM PublishedStaysServed == SiteSpec => []PublishedIsServed
<1>1. SiteInv => PublishedIsServed
  BY DEF SiteInv, ManifestInv, PublisherInv, Stored, PublishedIsServed
<1>2. QED
  BY <1>1, SiteInvHolds, PTL

\* A root that publish signs was held by its path after publish was called,
\* however many edits come between the queries of its walk.
THEOREM SnapshotsAreRecent == SiteSpec => []SnapshotIsRecent
<1>1. SiteInv => SnapshotIsRecent
  BY DEF SiteInv, RecentInv, PublisherInv, Recent, SnapshotIsRecent
<1>2. QED
  BY <1>1, SiteInvHolds, PTL

\* Unless the process ends, no handler of the content server leaves its
\* temporary file (the finally at server.mjs:77).
THEOREM HandlersLeaveNoLitter == SiteSpec => OnlyCrashesLitter
<1>1. SiteInv /\ [SiteNext]_siteVars => [crashes' = crashes => Litter' \subseteq Litter]_serverVars
  <2> SUFFICES ASSUME SiteInv, [SiteNext]_siteVars, crashes' = crashes
               PROVE  Litter' \subseteq Litter \/ UNCHANGED serverVars
    OBVIOUS
  <2>1. CASE SiteNext
    BY <2>1, LitterStep
  <2>2. CASE UNCHANGED siteVars
    BY <2>2 DEF siteVars
  <2>3. QED
    BY <2>1, <2>2
<1>2. QED
  BY <1>1, SiteInvHolds, PTL DEF SiteSpec, OnlyCrashesLitter

LEMMA SiteWalkHolds == SiteSpec => [](SiteInv /\ TreeInv /\ WalkInv)
<1>1. SiteInit => WalkInv
  BY DEF SiteInit, Stopped, WalkInv
<1>2. TreeInv /\ WalkInv /\ UNCHANGED siteVars => TreeInv' /\ WalkInv'
  BY TreeStands, WalkStands DEF siteVars, service, vars, history
<1>3. SiteInv /\ TreeInv /\ WalkInv /\ [SiteNext]_siteVars => TreeInv' /\ WalkInv'
  BY <1>2, TreeKept, WalkKept
<1>4. QED
  BY <1>1, <1>3, SiteInvHolds, TreeBegins, PTL DEF SiteSpec

\* If nobody edits while publish walks (LiveFileSystemRuntime.ts:28-42), what
\* it signs is the tree: every live file of the site and nothing else, each
\* with the size and the root of one and the same content.
THEOREM QuietSnapshotsAreExact == SiteSpec => []QuietSnapshotIsExact
<1>1. ASSUME SiteInv, WalkInv PROVE QuietSnapshotIsExact
  <2> SUFFICES ASSUME publisher.pc = "submitted", untouched
               PROVE  publisher.lines = {[path |-> p, size |-> nodes[p].content,
                                          root |-> nodes[p].content] : p \in SiteFiles}
    BY DEF QuietSnapshotIsExact
  <2>1. /\ \A line \in publisher.lines : Exact(line)
        /\ \A p \in SiteFiles : Found(p, {}, publisher.lines)
    <3>1. publisher.todo = {}
      BY <1>1 DEF SiteInv, PublisherInv
    <3>2. QED
      BY <1>1, <3>1 DEF WalkInv
  <2>2. \A line \in publisher.lines :
          /\ line.path \in SiteFiles
          /\ line = [path |-> line.path, size |-> nodes[line.path].content,
                     root |-> nodes[line.path].content]
    BY <1>1, <2>1, Typed DEF Exact, Line
  <2>3. \A p \in SiteFiles : \E line \in publisher.lines : line.path = p
    BY <2>1 DEF Found
  <2>4. QED
    BY <2>2, <2>3
<1>2. QED
  BY <1>1, SiteWalkHolds, PTL

=============================================================================
