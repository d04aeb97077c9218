------------------------------ MODULE JobStream -------------------------------
(***************************************************************************)
(* One job followed by its run panel: the server's event stream (ADR-026), *)
(* which polls the job and sends it when it changed, and the panel, which  *)
(* falls back to polling when the stream ends early and fetches the job    *)
(* again when the user answered a question.                                *)
(*                                                                         *)
(* The job moves as the callbacks, the background loop and the deletion of *)
(* the account move it.  Every reading of it is a sequence of statements.  *)
(* Of a payload only the status and whether it has results are told apart; *)
(* the journal's entries make it differ from an earlier one or not.        *)
(***************************************************************************)
CONSTANT Fetches   (* requests of the panel for the job that may overlap   *)

ASSUME StreamIsNoFetch == "stream" \notin Fetches

VARIABLES
  job,      (* the tables: [status, results]                               *)
  reopened, (* history: the status changed after the job was final         *)
  reader,   (* the server's side of the stream and of every fetch          *)
  sent,     (* the last payload of the stream                              *)
  wire,     (* the payloads on their way to the panel, by reader           *)
  panel     (* [shown, streaming, timer, left]                             *)

streamVars == <<job, reopened, reader, sent, wire, panel>>

Readers == Fetches \cup {"stream"}
Statuses == {"pending", "running", "awaiting_input", "completed", "failed"}
Final == {"completed", "failed"}

Nothing == [status |-> "none", results |-> FALSE]
Gone == [Nothing EXCEPT !.status = "gone"]

Closed == [pc |-> "closed", copy |-> Nothing]

StreamTypeOK ==
  /\ job.status \in Statuses \cup {"gone"}
  /\ reopened \in BOOLEAN
  /\ \A r \in Readers :
       reader[r].pc \in {"closed", "find", "results", "reply"}
  /\ panel.shown.status \in Statuses \cup {"none"}

StreamInit ==
  /\ job = [status |-> "pending", results |-> FALSE]
  /\ reopened = FALSE
  /\ reader = [r \in Readers |-> Closed]
  /\ sent = Nothing
  /\ wire = [r \in Readers |-> Nothing]
  /\ panel = [shown |-> Nothing, streaming |-> FALSE, timer |-> FALSE,
              left |-> FALSE, overtaken |-> FALSE]
-----------------------------------------------------------------------------
(* The job, as the other requests change it: the row takes any status, for *)
(* a handler may write a copy it read earlier; the results are stored      *)
(* before the completion.                                                  *)
JobMoves ==
  /\ job.status # "gone"
  /\ \/ /\ \E status \in Statuses :
             /\ status = "completed" => job.results
             /\ job' = [job EXCEPT !.status = status]
     \/ job' = [job EXCEPT !.results = TRUE]
  /\ reopened' = (reopened \/ (job.status \in Final /\ job'.status # job.status))
  /\ UNCHANGED <<reader, sent, wire, panel>>

(* The retention purge, or the deletion of the account.                    *)
JobDeleted ==
  /\ job' = Gone
  /\ UNCHANGED <<reopened, reader, sent, wire, panel>>
-----------------------------------------------------------------------------
(* SearchQueries::get, for any reader: find; results_for and steps_for.    *)

(* Mutant: the results of an earlier poll are sent with a newer status.    *)
QueriesFindCached(r) ==
  /\ reader[r].pc = "find"
  /\ reader' = [reader EXCEPT ![r] =
       IF job.status = "gone" THEN Closed
       ELSE [pc |-> "reply", copy |-> [@.copy EXCEPT !.status = job.status]]]
  /\ UNCHANGED <<job, reopened, sent, wire, panel>>

QueriesFind(r) ==
  /\ reader[r].pc = "find"
  /\ reader' = [reader EXCEPT ![r] =
       IF job.status = "gone" THEN Closed
       ELSE [pc |-> "results", copy |-> [Nothing EXCEPT !.status = job.status]]]
  /\ UNCHANGED <<job, reopened, sent, wire, panel>>

QueriesResults(r) ==
  /\ reader[r].pc = "results"
  /\ reader' = [reader EXCEPT ![r].pc = "reply", ![r].copy.results = job.results]
  /\ UNCHANGED <<job, reopened, sent, wire, panel>>

(* job_updates: what differs from the last payload is sent, and a final    *)
(* status ends the stream; else the job is read again after the interval.  *)
StreamSends ==
  /\ reader["stream"].pc = "reply"
  /\ LET payload == reader["stream"].copy
     IN  \/ /\ payload = sent
            /\ reader' = [reader EXCEPT !["stream"].pc = "find"]
            /\ UNCHANGED <<sent, wire>>
         \/ /\ wire["stream"] = Nothing
            /\ wire' = [wire EXCEPT !["stream"] = payload]
            /\ sent' = payload
            /\ reader' = [reader EXCEPT !["stream"] =
                 IF payload.status \in Final THEN Closed
                 ELSE [@ EXCEPT !.pc = "find"]]
  /\ UNCHANGED <<job, reopened, panel>>

FetchReplies(f) ==
  /\ reader[f].pc = "reply" /\ wire[f] = Nothing
  /\ wire' = [wire EXCEPT ![f] = reader[f].copy]
  /\ reader' = [reader EXCEPT ![f] = Closed]
  /\ UNCHANGED <<job, reopened, sent, panel>>

(* The lifetime of a stream has passed, a statement failed, or the         *)
(* connection broke.                                                       *)
ReadingEnds(r) ==
  /\ reader[r].pc # "closed"
  /\ reader' = [reader EXCEPT ![r] = Closed]
  /\ UNCHANGED <<job, reopened, sent, wire, panel>>
-----------------------------------------------------------------------------
(* RunPanel.vue                                                            *)

ShowsFinal == panel.shown.status \in Final

(* follow, on mount: search_events answers 404 for a job that is gone.     *)
Follow ==
  /\ panel.shown = Nothing /\ ~panel.streaming /\ ~panel.timer /\ ~panel.left
  /\ panel' = [panel EXCEPT !.streaming = TRUE]
  /\ reader' = [reader EXCEPT !["stream"] =
       IF job.status = "gone" THEN Closed ELSE [@ EXCEPT !.pc = "find"]]
  /\ UNCHANGED <<job, reopened, sent, wire>>

(* onUpdate, of an event or of a fetch's reply.                            *)
OnUpdate(r) ==
  /\ wire[r] # Nothing /\ ~panel.left
  /\ panel' = [panel EXCEPT
       !.shown = wire[r],
       !.timer = @ /\ wire[r].status \notin Final,
       !.overtaken = @ \/ (ShowsFinal /\ wire[r].status \notin Final)]
  /\ wire' = [wire EXCEPT ![r] = Nothing]
  /\ UNCHANGED <<job, reopened, reader, sent>>

(* Mutant: the end of the stream is the end of the job.                    *)
StreamEndedForGood ==
  /\ panel.streaming /\ reader["stream"].pc = "closed"
  /\ wire["stream"] = Nothing
  /\ panel' = [panel EXCEPT !.streaming = FALSE]
  /\ UNCHANGED <<job, reopened, reader, sent, wire>>

(* streamSearch resolved or was rejected: poll, unless the job is final.   *)
StreamEnded ==
  /\ panel.streaming /\ reader["stream"].pc = "closed"
  /\ wire["stream"] = Nothing
  /\ panel' = [panel EXCEPT !.streaming = FALSE, !.timer = ~ShowsFinal]
  /\ UNCHANGED <<job, reopened, reader, sent, wire>>

(* refresh, every 2.5 seconds or after an answer was sent; several may be  *)
(* under way.                                                              *)
Refresh(f) ==
  /\ panel.timer \/ panel.shown.status = "awaiting_input"
  /\ reader[f] = Closed /\ wire[f] = Nothing
  /\ reader' = [reader EXCEPT ![f].pc = "find"]
  /\ UNCHANGED <<job, reopened, sent, wire, panel>>

(* The panel is closed, or a 401 leads to the login page.                  *)
Leave ==
  /\ ~panel.left
  /\ panel' = [panel EXCEPT !.left = TRUE, !.streaming = FALSE, !.timer = FALSE]
  /\ UNCHANGED <<job, reopened, reader, sent, wire>>
-----------------------------------------------------------------------------
StreamNext ==
  \/ JobMoves \/ JobDeleted
  \/ \E r \in Readers :
       QueriesFind(r) \/ QueriesResults(r) \/ ReadingEnds(r) \/ OnUpdate(r)
  \/ StreamSends \/ Follow \/ StreamEnded \/ Leave
  \/ \E f \in Fetches : FetchReplies(f) \/ Refresh(f)

StreamSpec == StreamInit /\ [][StreamNext]_streamVars
-----------------------------------------------------------------------------
(* The panel awaits nothing more.                                          *)
Quiet ==
  /\ ~panel.streaming /\ ~panel.timer /\ ~panel.left /\ panel.shown # Nothing
  /\ \A r \in Readers : reader[r].pc = "closed" /\ wire[r] = Nothing

(* A panel that stopped following shows how the job ended.  It may be      *)
(* wrong of a job whose status changed after it was final, and stuck when  *)
(* a slow reply was shown after the final one.                             *)
QuietPanelIsRight ==
  Quiet /\ ~panel.overtaken =>
    /\ ShowsFinal
    /\ job.status \in {panel.shown.status, "gone"} \/ reopened

(* A completed job is never shown without its results, though they are     *)
(* read after it, unless it was deleted in between.                        *)
CompletedIsShownWhole ==
  \A view \in {panel.shown} \cup {wire[r] : r \in Readers} :
    view.status = "completed" => view.results \/ job.status = "gone"
=============================================================================
