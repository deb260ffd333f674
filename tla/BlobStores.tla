----------------------------- MODULE BlobStores -----------------------------
(***************************************************************************)
(* The four blob stores of the gateway, on one key.  A put is one request  *)
(* of S3 and of Ashfox storage, which keep bytes and content type as one    *)
(* object; two files written one after the other in the file system; and   *)
(* up to five requests of Appwrite, which refuses an upload over a file    *)
(* that is there and keeps the content type in a document of its own.      *)
(*                                                                         *)
(* Bytes and content type are named by the put that wrote them.  Calls     *)
(* overlap as their callers like, a request may fail before or after it    *)
(* had its effect, and the process may crash between any two.              *)
(***************************************************************************)
EXTENDS Integers, FiniteSets

CONSTANTS Call, None,
          Empty,       \* a file that was opened for writing and has nothing yet
          MaxFaults

VARIABLES store,       \* the storageProvider selected
          upsert,      \* and its upsert setting
          file, meta,  \* what is stored: a put, Empty or None
          call,        \* call -> [op, step, bytes, type, before]
          superseded,  \* history: the puts that a later one replaced
          overlapped,  \* history: two writing calls ran at the same time
          faults

bvars == <<store, upsert, file, meta, call, superseded, overlapped, faults>>

NoCall == [op |-> None, step |-> "new", bytes |-> None, type |-> None, before |-> {}]
Running == {c \in Call : call[c].step \notin {"new", "ok", "error", "lost"}}
Writing(c) == call[c].op \in {"put", "delete"}

\* Where an error is caught: the content type may get lost, and the call goes
\* on as if there were none.
Ignored(c) ==
    store = "appwrite" /\ (\/ call[c].op = "put" /\ call[c].step \in {"metadata", "patch"}
                           \/ call[c].op \in {"get", "delete"} /\ call[c].step = "meta")

\* A request is answered; or it had its effect and the answer is an error, of
\* the network or of the time limit.
Goto(c, step) ==
    \/ call' = [call EXCEPT ![c].step = step] /\ UNCHANGED faults
    \/ /\ faults < MaxFaults /\ faults' = faults + 1
       /\ call' = [call EXCEPT ![c].step = IF Ignored(c) THEN "ok" ELSE "error"]
Finish(c, step) ==
    /\ Goto(c, step)
    /\ superseded' = IF Writing(c) /\ call'[c].step = "ok" THEN superseded \cup call[c].before ELSE superseded
Stays == UNCHANGED superseded
Read(c, field, value, step) ==
    call' = [call EXCEPT ![c][field] = value, ![c].step = step] /\ UNCHANGED faults

\* A put or delete remembers which writes were acknowledged before it began.
Begin(c, op) ==
    /\ call[c].step = "new"
    /\ call' = [call EXCEPT ![c] = [NoCall EXCEPT !.op = op, !.step = "first",
                  !.before = {d \in Call : Writing(d) /\ call[d].step = "ok"}]]
    /\ overlapped' = (overlapped \/ \E d \in Running : Writing(d) \/ op # "get")
    /\ UNCHANGED <<store, upsert, file, meta, superseded, faults>>

At(c, op, step) == call[c].op = op /\ call[c].step = step

----------------------------------------------------------------------------
(* FileSystemBlobStore; writeFile empties the file before it fills it      *)

FsPut(c) ==
    \/ At(c, "put", "first") /\ file' = Empty /\ Goto(c, "bytes") /\ UNCHANGED meta /\ Stays
    \/ At(c, "put", "bytes") /\ file' = c /\ Goto(c, "open meta") /\ UNCHANGED meta /\ Stays
    \/ At(c, "put", "open meta") /\ meta' = Empty /\ Goto(c, "meta") /\ UNCHANGED file /\ Stays
    \/ At(c, "put", "meta") /\ meta' = c /\ Finish(c, "ok") /\ UNCHANGED file

FsGet(c) ==
    /\ \/ At(c, "get", "first") /\ file = None /\ Goto(c, "ok")
       \/ /\ At(c, "get", "first") /\ file # None
          /\ Read(c, "bytes", file, "meta")
       \/ At(c, "get", "meta") /\ meta = Empty /\ Goto(c, "error")
       \/ /\ At(c, "get", "meta") /\ meta # Empty
          /\ Read(c, "type", meta, "ok")
    /\ UNCHANGED <<file, meta>> /\ Stays

FsDelete(c) ==
    \/ At(c, "delete", "first") /\ file' = None /\ Goto(c, "meta") /\ UNCHANGED meta /\ Stays
    \/ At(c, "delete", "meta") /\ meta' = None /\ Finish(c, "ok") /\ UNCHANGED file

----------------------------------------------------------------------------
(* S3BlobStore and AshfoxStorageBlobStore; only the second may be told not  *)
(* to replace an object                                                    *)

ObjectPut(c) ==
    At(c, "put", "first") /\ file' = c /\ meta' = c /\ Finish(c, "ok")
ObjectGet(c) ==
    /\ At(c, "get", "first")
    /\ call' = [call EXCEPT ![c].bytes = file, ![c].type = meta, ![c].step = "ok"] /\ UNCHANGED faults
    /\ UNCHANGED <<file, meta>> /\ Stays
ObjectDelete(c) ==
    At(c, "delete", "first") /\ file' = None /\ meta' = None /\ Finish(c, "ok")

S3Call(c) == ObjectPut(c) \/ ObjectGet(c) \/ ObjectDelete(c)

Refused(c) ==
    At(c, "put", "first") /\ ~upsert /\ file # None /\ Finish(c, "error") /\ UNCHANGED <<file, meta>>
AshfoxCall(c) ==
    \/ Refused(c)
    \/ (upsert \/ file = None) /\ ObjectPut(c)
    \/ ObjectGet(c) \/ ObjectDelete(c)

----------------------------------------------------------------------------
(* AppwriteBlobStore                                                       *)

\* Fault: a file that is there already counts as uploaded.
UploadOnce(c) ==
    /\ At(c, "put", "first")
    /\ IF file = None THEN file' = c ELSE UNCHANGED file
    /\ Goto(c, "metadata") /\ UNCHANGED meta /\ Stays
\* uploadFile, and what put makes of a conflict.
Upload(c) ==
    /\ call[c].op = "put" /\ call[c].step \in {"first", "again"}
    /\ IF file = None THEN file' = c /\ Goto(c, "metadata") /\ Stays
       ELSE /\ UNCHANGED file
            /\ IF call[c].step = "first" /\ upsert THEN Goto(c, "replace") /\ Stays ELSE Finish(c, "error")
    /\ UNCHANGED meta
Replace(c) == At(c, "put", "replace") /\ file' = None /\ Goto(c, "again") /\ UNCHANGED meta /\ Stays

\* saveMetadata: a document that is gone again when it should be changed is an
\* error, and put ignores it.
SaveMetadata(c) ==
    /\ UNCHANGED file
    /\ \/ At(c, "put", "metadata") /\ meta = None /\ meta' = c /\ Finish(c, "ok")
       \/ At(c, "put", "metadata") /\ meta # None /\ Finish(c, "patch") /\ UNCHANGED meta
       \/ At(c, "put", "patch") /\ meta' = (IF meta = None THEN None ELSE c) /\ Finish(c, "ok")
AppwritePut(c) == Upload(c) \/ Replace(c) \/ SaveMetadata(c)

\* The file's entry, its bytes, then the document with the content type.
AppwriteGet(c) ==
    /\ \/ At(c, "get", "first") /\ Goto(c, IF file = None THEN "ok" ELSE "view")
       \/ At(c, "get", "view") /\ file = None /\ Goto(c, "ok")
       \/ At(c, "get", "view") /\ file # None /\ Read(c, "bytes", file, "meta")
       \/ At(c, "get", "meta") /\ Read(c, "type", meta, "ok")
    /\ UNCHANGED <<file, meta>> /\ Stays

AppwriteDelete(c) ==
    \/ At(c, "delete", "first") /\ file' = None /\ Goto(c, "meta") /\ UNCHANGED meta /\ Stays
    \/ At(c, "delete", "meta") /\ meta' = None /\ Finish(c, "ok") /\ UNCHANGED file

----------------------------------------------------------------------------
Answer(c) ==
    /\ CASE store = "fs"       -> FsPut(c) \/ FsGet(c) \/ FsDelete(c)
         [] store = "appwrite" -> AppwritePut(c) \/ AppwriteGet(c) \/ AppwriteDelete(c)
         [] store = "s3"       -> S3Call(c)
         [] store = "ashfox"   -> AshfoxCall(c)
    /\ UNCHANGED <<store, upsert, overlapped>>

\* A request fails and had no effect.
Fail(c) ==
    /\ faults < MaxFaults /\ c \in Running
    /\ faults' = faults + 1
    /\ call' = [call EXCEPT ![c].step = IF Ignored(c) THEN "ok" ELSE "error"]
    /\ superseded' = IF Writing(c) /\ Ignored(c) THEN superseded \cup call[c].before ELSE superseded
    /\ UNCHANGED <<store, upsert, file, meta, overlapped>>

\* The process ends and another starts: the calls under way are nobody's.
Crash ==
    /\ faults < MaxFaults /\ Running # {}
    /\ faults' = faults + 1
    /\ call' = [c \in Call |-> IF c \in Running THEN [call[c] EXCEPT !.step = "lost"] ELSE call[c]]
    /\ UNCHANGED <<store, upsert, file, meta, superseded, overlapped>>

Init ==
    /\ store \in {"fs", "s3", "ashfox", "appwrite"} /\ upsert \in BOOLEAN
    /\ file = None /\ meta = None /\ call = [c \in Call |-> NoCall]
    /\ superseded = {} /\ overlapped = FALSE /\ faults = 0

Next == \/ \E c \in Call, op \in {"put", "get", "delete"} : Begin(c, op)
        \/ \E c \in Call : Answer(c) \/ Fail(c)
        \/ Crash

Spec == Init /\ [][Next]_bvars

----------------------------------------------------------------------------

\* What is stored is of no put that a put or delete acknowledged later had
\* found complete, however calls overlap, fail or are cut off by a crash: an
\* acknowledged write is not undone, an acknowledged delete brings nothing back.
AckedWritesStay == file \notin superseded

\* The put whose bytes a call that overlaps no other should find.
Latest(c) ==
    LET last == {d \in call[c].before : call[c].before \ {d} \subseteq call[d].before}
    IN  IF \E d \in last : call[d].op = "put" THEN CHOOSE d \in last : TRUE ELSE None

\* S3 and Ashfox storage never pair the bytes of one put with the type of
\* another, whatever overlaps.  As long as calls come one after the other and
\* nothing fails no store does, and a get finds what the last write left.
ReadsAgree ==
    \A c \in Call : At(c, "get", "ok") =>
        /\ store \in {"s3", "ashfox"} => call[c].type = call[c].bytes
        /\ ~overlapped /\ faults = 0 =>
             /\ call[c].bytes = Latest(c)
             /\ call[c].bytes # None => call[c].type = call[c].bytes
=============================================================================
