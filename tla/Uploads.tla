------------------------------- MODULE Uploads -------------------------------
(***************************************************************************)
(* Uploaded files (internal/files): the bytes go to the blob store, then a *)
(* row of file_assets is inserted that names them.  Nothing spans the two: *)
(* a request can fail or die at any point, and an INSERT whose error is    *)
(* returned may have been committed all the same.  Every upload has a key  *)
(* of its own, so an upload, its blob and its row share a name.  The disk  *)
(* is taken to keep what was written to it.                                *)
(***************************************************************************)
CONSTANT Assets

VARIABLES
  blob,     \* the file under each upload's key: "none", "part" or "whole"
  asset,    \* whether file_assets has the row
  upload    \* "new", "put", then "answered", which the client gets to know; or "refused",
            \* when the INSERT returned an error, and "undone"; or "dead"

uploadVars == <<blob, asset, upload>>

UploadsInit ==
  /\ blob = [u \in Assets |-> "none"]
  /\ asset = [u \in Assets |-> FALSE]
  /\ upload = [u \in Assets |-> "new"]

Reach(u, pc) == upload' = [upload EXCEPT ![u] = pc]
-----------------------------------------------------------------------------
\* blob.Put has written the file.
Put(u) ==
  /\ upload[u] = "new"
  /\ blob' = [blob EXCEPT ![u] = "whole"]
  /\ Reach(u, "put")
  /\ UNCHANGED asset

\* blob.Put fails.  The request ends and leaves what was written.
PutFails(u) ==
  /\ upload[u] = "new"
  /\ \E left \in {"none", "part"} : blob' = [blob EXCEPT ![u] = left]
  /\ Reach(u, "dead")
  /\ UNCHANGED asset

\* Mutant of Record: the row comes before the bytes.
RecordFirst(u) ==
  /\ upload[u] \in {"new", "put"}
  /\ asset' = [asset EXCEPT ![u] = TRUE]
  /\ \E pc \in {"answered", "dead"} : Reach(u, pc)
  /\ UNCHANGED blob

\* repo.Create.  The answer may not reach the client.
Record(u) ==
  /\ upload[u] = "put"
  /\ asset' = [asset EXCEPT ![u] = TRUE]
  /\ \E pc \in {"answered", "dead"} : Reach(u, pc)
  /\ UNCHANGED blob

\* repo.Create returns an error, the row being there or not.
RecordFails(u) ==
  /\ upload[u] = "put"
  /\ \E there \in BOOLEAN : asset' = [asset EXCEPT ![u] = there]
  /\ Reach(u, "refused")
  /\ UNCHANGED blob

\* blob.Delete, whose error is dropped.
Undo(u) ==
  /\ upload[u] = "refused"
  /\ \E left \in {"none", "whole"} : blob' = [blob EXCEPT ![u] = left]
  /\ Reach(u, "undone")
  /\ UNCHANGED asset

\* The process ends between two steps.
UploadDies(u) ==
  /\ upload[u] \in {"put", "refused"}
  /\ Reach(u, "dead")
  /\ UNCHANGED <<blob, asset>>

UploadsNext ==
  \E u \in Assets :
    Put(u) \/ PutFails(u) \/ Record(u) \/ RecordFails(u) \/ Undo(u) \/ UploadDies(u)
-----------------------------------------------------------------------------
\* Upload keeps its two stores in step as far as it can: a row has all of its bytes,
\* unless it was committed by an INSERT that came back as an error and the blob was
\* cleaned up after it.  A file whose id was answered is there for good, row and bytes.
RowHasItsBytes ==
  \A u \in Assets :
    /\ asset[u] /\ blob[u] # "whole" => upload[u] = "undone"
    /\ upload[u] = "answered" => asset[u] /\ blob[u] = "whole"
=============================================================================
