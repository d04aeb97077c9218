---------------------------- MODULE KnowledgeBase -----------------------------
(***************************************************************************)
(* The documents of the knowledge base (ADR-063): the upload that stores a *)
(* pending document and hands its text to the agent, the agent's embedding *)
(* task, and the two callbacks by which the task stores the chunks or      *)
(* reports a failure.  The text itself is stored nowhere, so what is lost  *)
(* on the way is lost for good.                                            *)
(*                                                                         *)
(* Statements of PostgreSQL interleave; the task's calls time out while    *)
(* the backend still executes them, and a task whose worker dies is        *)
(* delivered again (acks_late).                                            *)
(***************************************************************************)
EXTENDS Naturals, FiniteSets

CONSTANTS
  Docs,      (* documents, each uploaded at most once                      *)
  DocOwner,  (* the account of each                                        *)
  Calls,     (* callbacks the backend executes at the same time            *)
  NoDoc

ASSUME NoDocIsNone == NoDoc \notin Docs

VARIABLES
  doc,      (* documents.status, "absent" before and "deleted" after       *)
  chunks,   (* the documents with rows in document_chunks                  *)
  upload,   (* what Knowledge::upload does next for each document          *)
  queue,    (* the documents whose task waits in the broker                *)
  task,     (* what the embedding task does or waits for                   *)
  call,     (* the callbacks under way                                     *)
  dropped,  (* history: documents nobody may be working on: a stopped      *)
            (* server, no agent, or a failure that could not be recorded   *)
  late      (* history: documents of whose calls the caller missed the end *)

kbVars == <<doc, chunks, upload, queue, task, call, dropped, late>>

NoCallback == [doc |-> NoDoc, op |-> "none", awaited |-> FALSE]

KbTypeOK ==
  /\ doc \in [Docs -> {"absent", "pending", "ready", "failed", "deleted"}]
  /\ chunks \subseteq Docs
  /\ upload \in [Docs -> {"none", "dispatch", "mark"}]
  /\ queue \subseteq Docs
  /\ task \in [Docs -> {"none", "embed", "empty", "store", "report"}]
  /\ call \in [Calls -> [doc : Docs \cup {NoDoc}, awaited : BOOLEAN,
                         op : {"none", "find", "write", "fail"}]]
  /\ dropped \subseteq Docs /\ late \subseteq Docs

KbInit ==
  /\ doc = [d \in Docs |-> "absent"]
  /\ chunks = {}
  /\ upload = [d \in Docs |-> "none"]
  /\ queue = {}
  /\ task = [d \in Docs |-> "none"]
  /\ call = [k \in Calls |-> NoCallback]
  /\ dropped = {} /\ late = {}

Stored(d) == doc[d] \in {"pending", "ready", "failed"}

(* UPDATE documents ... WHERE id: no row, no change.                       *)
SetStatus(d, status) ==
  doc' = IF Stored(d) THEN [doc EXCEPT ![d] = status] ELSE doc
-----------------------------------------------------------------------------
(* Knowledge::upload: insert, dispatch, and mark_failed(..).ok() when the  *)
(* dispatch failed.  An insert that is refused leaves nothing.             *)

UploadInsert(d) ==
  /\ doc[d] = "absent"
  /\ doc' = [doc EXCEPT ![d] = "pending"]
  /\ upload' = [upload EXCEPT ![d] = "dispatch"]
  /\ UNCHANGED <<chunks, queue, task, call, dropped, late>>

(* Mutant: the error of the dispatch is only logged.                       *)
DispatchEmbedUnheeded(d) ==
  /\ upload[d] = "dispatch"
  /\ queue' \in {queue, queue \cup {d}}
  /\ upload' = [upload EXCEPT ![d] = "none"]
  /\ UNCHANGED <<doc, chunks, task, call, dropped, late>>

(* POST /embed: the task is queued or not, and the reply comes or not.     *)
DispatchEmbed(d) ==
  /\ upload[d] = "dispatch"
  /\ \/ queue' = queue \cup {d} /\ upload' = [upload EXCEPT ![d] = "none"]
        /\ late' = late
     \/ queue' = queue \cup {d} /\ upload' = [upload EXCEPT ![d] = "mark"]
        /\ late' = late \cup {d}
     \/ queue' = queue /\ upload' = [upload EXCEPT ![d] = "mark"]
        /\ late' = late
  /\ UNCHANGED <<doc, chunks, task, call, dropped>>

(* Without an agent nothing is sent and nobody is told.                    *)
NoopDispatchEmbed(d) ==
  /\ upload[d] = "dispatch"
  /\ upload' = [upload EXCEPT ![d] = "none"]
  /\ dropped' = dropped \cup {d}
  /\ UNCHANGED <<doc, chunks, queue, task, call, late>>

UploadMarkFailed(d) ==
  /\ upload[d] = "mark"
  /\ upload' = [upload EXCEPT ![d] = "none"]
  /\ \/ SetStatus(d, "failed") /\ dropped' = dropped
     \/ doc' = doc /\ dropped' = dropped \cup {d}
  /\ UNCHANGED <<chunks, queue, task, call, late>>

UploadStops(d) ==
  /\ upload[d] # "none"
  /\ upload' = [upload EXCEPT ![d] = "none"]
  /\ dropped' = dropped \cup {d}
  /\ UNCHANGED <<doc, chunks, queue, task, call, late>>
-----------------------------------------------------------------------------
(* embed_document_task                                                     *)

Awaits(d, k) == call[k].doc = d /\ call[k].awaited

(* The callbacks of d that nobody waits for any more.                      *)
Forget(d) ==
  [k \in Calls |-> IF call[k].doc = d THEN [call[k] EXCEPT !.awaited = FALSE]
                   ELSE call[k]]

Post(calls, k, d, op) ==
  call' = [calls EXCEPT ![k] = [doc |-> d, op |-> op, awaited |-> TRUE]]

Free(k) == call[k] = NoCallback

TakeTask(d) ==
  /\ d \in queue /\ task[d] = "none"
  /\ queue' = queue \ {d}
  /\ task' = [task EXCEPT ![d] = "embed"]
  /\ UNCHANGED <<doc, chunks, upload, call, dropped, late>>

(* chunk_text and the embedder, then client.store_chunks.                  *)
Embed(d, k) ==
  /\ task[d] = "embed" /\ Free(k)
  /\ Post(call, k, d, "find")
  /\ task' = [task EXCEPT ![d] = "store"]
  /\ UNCHANGED <<doc, chunks, upload, queue, dropped, late>>

(* Nothing to embed: client.report_document_failure.                       *)
ReportEmpty(d, k) ==
  /\ task[d] = "embed" /\ Free(k)
  /\ Post(call, k, d, "fail")
  /\ task' = [task EXCEPT ![d] = "empty"]
  /\ UNCHANGED <<doc, chunks, upload, queue, dropped, late>>

(* Any exception, a time-out of the call under way and a reply lost        *)
(* included: client.report_document_failure, once more if it was that.     *)
ReportFailure(d, k) ==
  /\ task[d] \in {"embed", "empty", "store"} /\ Free(k)
  /\ Post(Forget(d), k, d, "fail")
  /\ task' = [task EXCEPT ![d] = "report"]
  /\ late' = IF \E j \in Calls : Awaits(d, j) THEN late \cup {d} ELSE late
  /\ UNCHANGED <<doc, chunks, upload, queue, dropped>>

(* Best effort: the task ends whatever became of its report.               *)
GiveUp(d) ==
  /\ task[d] \in {"empty", "report"}
  /\ task' = [task EXCEPT ![d] = "none"]
  /\ call' = Forget(d)
  /\ UNCHANGED <<doc, chunks, upload, queue, dropped, late>>

WorkerDies(d) ==
  /\ task[d] # "none"
  /\ task' = [task EXCEPT ![d] = "none"]
  /\ queue' = queue \cup {d}
  /\ call' = Forget(d)
  /\ late' = late \cup {d}
  /\ UNCHANGED <<doc, chunks, upload, dropped>>
-----------------------------------------------------------------------------
(* The callbacks: POST /internal/documents/{id}/chunks and .../failure.    *)

Ended(k) == call' = [call EXCEPT ![k] = NoCallback]

(* Knowledge::store_chunks: find, and the 404 of a deleted document.       *)
ChunksFind(k) ==
  /\ call[k].op = "find"
  /\ IF Stored(call[k].doc)
     THEN call' = [call EXCEPT ![k].op = "write"]
     ELSE Ended(k)
  /\ UNCHANGED <<doc, chunks, upload, queue, task, dropped, late>>

(* Mutant: the rows refer to no document.                                  *)
ChunksWriteUnchecked(k) ==
  /\ call[k].op = "write"
  /\ chunks' = chunks \cup {call[k].doc}
  /\ SetStatus(call[k].doc, "ready")
  /\ task' = IF call[k].awaited
             THEN [task EXCEPT ![call[k].doc] = "none"] ELSE task
  /\ Ended(k)
  /\ UNCHANGED <<upload, queue, dropped, late>>

(* The transaction of store_chunks: it replaces the chunks and makes the   *)
(* document ready, or is refused by the foreign key.  With its answer the  *)
(* task ends.                                                              *)
ChunksWrite(k) ==
  /\ call[k].op = "write"
  /\ LET d == call[k].doc
     IN  IF Stored(d)
         THEN /\ chunks' = chunks \cup {d}
              /\ SetStatus(d, "ready")
              /\ task' = IF call[k].awaited
                         THEN [task EXCEPT ![d] = "none"] ELSE task
         ELSE UNCHANGED <<doc, chunks, task>>
  /\ Ended(k)
  /\ UNCHANGED <<upload, queue, dropped, late>>

(* Knowledge::mark_failed: whatever the status.                            *)
FailureMark(k) ==
  /\ call[k].op = "fail"
  /\ SetStatus(call[k].doc, "failed")
  /\ Ended(k)
  /\ UNCHANGED <<chunks, upload, queue, task, dropped, late>>

(* A statement fails or the server stops.  A report is not repeated.       *)
CallbackFails(k) ==
  /\ ~Free(k)
  /\ dropped' = IF call[k].op = "fail" THEN dropped \cup {call[k].doc}
                ELSE dropped
  /\ Ended(k)
  /\ UNCHANGED <<doc, chunks, upload, queue, task, late>>

(* The user deletes the document, or the account: the chunks cascade.      *)
DeleteDocument(d) ==
  /\ Stored(d)
  /\ doc' = [doc EXCEPT ![d] = "deleted"]
  /\ chunks' = chunks \ {d}
  /\ UNCHANGED <<upload, queue, task, call, dropped, late>>
-----------------------------------------------------------------------------
KbNext ==
  \/ \E d \in Docs :
       \/ UploadInsert(d) \/ DispatchEmbed(d) \/ NoopDispatchEmbed(d)
       \/ UploadMarkFailed(d) \/ UploadStops(d)
       \/ TakeTask(d) \/ GiveUp(d) \/ WorkerDies(d) \/ DeleteDocument(d)
       \/ \E k \in Calls : Embed(d, k) \/ ReportEmpty(d, k) \/ ReportFailure(d, k)
  \/ \E k \in Calls :
       ChunksFind(k) \/ ChunksWrite(k) \/ FailureMark(k) \/ CallbackFails(k)

KbSpec == KbInit /\ [][KbNext]_kbVars
-----------------------------------------------------------------------------
(* Knowledge::retrieve_for_job, for a job of u: the documents whose chunks *)
(* may ground it.  The status is not looked at.                            *)
Retrieved(u) == {d \in chunks : DocOwner[d] = u /\ Stored(d)}

(* What grounds a job are its owner's ready documents, and every ready one *)
(* can, while a deleted one leaves no chunk behind.  Only a document whose *)
(* caller missed an answer may be marked failed over chunks it keeps.      *)
RetrievedIsReady ==
  /\ \A d \in Docs : doc[d] = "ready" => d \in Retrieved(DocOwner[d])
  /\ \A d \in chunks : doc[d] = "ready" \/ (doc[d] = "failed" /\ d \in late)

(* There is no reaper for documents: as long as nothing was dropped, a     *)
(* pending document is on its way to an answer.                            *)
PendingIsWorkedOn ==
  \A d \in Docs :
    doc[d] = "pending" =>
      \/ upload[d] # "none" \/ d \in queue \/ task[d] # "none"
      \/ \E k \in Calls : call[k].doc = d
      \/ d \in dropped
=============================================================================
