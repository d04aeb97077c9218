----------------------------- MODULE ResearchJob -----------------------------
(***************************************************************************)
(* The research job entity of the backend (domain/job.rs): the fields of a *)
(* job row that its life cycle depends on, and the pure functions that     *)
(* move a job from one status to the next.  Nothing here is concurrent:    *)
(* the use cases (JobHandlers) apply these functions to a copy of the row  *)
(* they read earlier.                                                      *)
(*                                                                         *)
(* Questions and answers are opaque values; the blank and over-long texts  *)
(* the code rejects before any change are not among them.                  *)
(***************************************************************************)
EXTENDS Integers

CONSTANTS
  Questions,  (* clarification questions the agent may ask                 *)
  Answers,    (* answers a user may give                                   *)
  None        (* Rust's Option::None, for question, answer and error       *)

ASSUME NoneIsNoText == None \notin Questions \cup Answers

JobStatus == {"pending", "running", "awaiting_input", "completed", "failed"}

(* Who failed the job: the three texts the code writes into `error`.       *)
Errors == {"none", "dispatch", "timeout", "agent"}

(* A job row: `finished` is completed_at.is_some(), `usage` the accumulated *)
(* spend (one unit per reported task attempt).                             *)
Row == [status   : JobStatus,
        error    : Errors,
        question : Questions \cup {None},
        answer   : Answers \cup {None},
        finished : BOOLEAN,
        usage    : Nat]

NewJob == [status |-> "pending", error |-> "none", question |-> None,
           answer |-> None, finished |-> FALSE, usage |-> 0]

IsFinished(job) == job.status \in {"completed", "failed"}

Start(job) ==
  IF job.status = "pending" THEN [job EXCEPT !.status = "running"] ELSE job

(* Mutants of complete: the error of an earlier failure stays; a failed    *)
(* job is not completed.                                                   *)
CompleteKeepsError(job) == [job EXCEPT !.status = "completed", !.finished = TRUE]

CompleteUnlessFailed(job) ==
  IF job.status = "failed"
  THEN job
  ELSE [job EXCEPT !.status = "completed", !.error = "none", !.finished = TRUE]

Complete(job) ==
  [job EXCEPT !.status = "completed", !.error = "none", !.finished = TRUE]

(* Mutant of fail: without the test of a completed job.                    *)
FailAnything(job, error) ==
  [job EXCEPT !.status = "failed", !.error = error, !.finished = TRUE]

Fail(job, error) ==
  IF job.status = "completed"
  THEN job
  ELSE [job EXCEPT !.status = "failed", !.error = error, !.finished = TRUE]

RequestInput(job, question) ==
  IF job.status \in {"pending", "running"}
  THEN [job EXCEPT !.status = "awaiting_input", !.question = question]
  ELSE job

(* Defined only for a job awaiting input; otherwise the code answers       *)
(* NotAwaitingInput and the caller stops there.                            *)
CanAnswer(job) == job.status = "awaiting_input"

ProvideAnswer(job, answer) ==
  [job EXCEPT !.status = "pending", !.answer = answer]

(* The fields of a job agree with its status: what every reader of a row   *)
(* (the job view, the detail page) takes for granted.                      *)
Coherent(job) ==
  /\ job.finished <=> IsFinished(job)
  /\ job.status = "failed" <=> job.error # "none"
  /\ job.status = "awaiting_input" => job.question # None
  /\ job.answer # None => job.question # None
  /\ job.status = "pending" => (job.question # None <=> job.answer # None)
=============================================================================
