---------------------------- MODULE ServicesProofs ----------------------------
(***************************************************************************)
(* The components of the server that share no state with each other,       *)
(* proved one after the other for every value of their constants.          *)
(***************************************************************************)
EXTENDS KnowledgeBase, JobStream, Notifications, RateLimiter, Startup,
        FiniteSetTheorems, TLAPS
-----------------------------------------------------------------------------
(* KnowledgeBase, for every set of documents and number of concurrent      *)
(* callbacks: what grounds a job is a ready document, and no pending       *)
(* document is forgotten unless something was dropped.  The inductive      *)
(* invariant:                                                              *)

(* A callback under way is about a document.                               *)
CallsNamed == \A k \in Calls : call[k].op # "none" => call[k].doc \in Docs

NoCallOf(d) == \A k \in Calls : call[k].doc # d

(* A callback of a document stores its chunks for the task that awaits it, *)
(* alone, or it is a report.                                               *)
OneAnswer(d) ==
  \A k \in Calls : call[k].doc = d =>
    \/ /\ call[k].op \in {"find", "write"} /\ call[k].awaited
       /\ task[d] = "store"
       /\ \A j \in Calls : call[j].doc = d => j = k
    \/ /\ call[k].op = "fail" /\ task[d] \in {"none", "empty", "report"}
       /\ d \notin chunks

(* A document whose callers heard every answer goes from the upload to the *)
(* broker, from there to one task, from there to one callback.             *)
Orderly(d) ==
  /\ doc[d] = "absent" => upload[d] = "none"
  /\ doc[d] = "absent" \/ upload[d] # "none"
       => d \notin queue /\ task[d] = "none" /\ NoCallOf(d) /\ d \notin chunks
  /\ d \in queue => task[d] = "none" /\ NoCallOf(d) /\ d \notin chunks
  /\ task[d] = "embed" => NoCallOf(d)
  /\ task[d] # "none" => d \notin chunks
  /\ OneAnswer(d)

(* Chunks and status agree, but for a late failure report.                 *)
Agreed(d) ==
  /\ doc[d] = "ready" => d \in chunks
  /\ d \in chunks => doc[d] = "ready" \/ (doc[d] = "failed" /\ d \in late)

Sound(d) == Agreed(d) /\ (d \notin late => Orderly(d))

(* A document still pending has an upload, a task or a report to come; a   *)
(* callback of nobody's that may yet store its chunks does not count.      *)
Answerable ==
  \A d \in Docs : doc[d] = "pending" =>
    \/ upload[d] # "none" \/ d \in queue \/ task[d] \in {"embed", "store"}
    \/ \E k \in Calls : call[k].doc = d /\ call[k].op = "fail"
    \/ d \in dropped

KbInv ==
  KbTypeOK /\ CallsNamed /\ Answerable /\ \A d \in Docs : Sound(d)
-----------------------------------------------------------------------------
(* The callbacks, one step at a time.                                      *)

Callbacks == [doc : Docs \cup {NoDoc}, awaited : BOOLEAN,
              op : {"none", "find", "write", "fail"}]

LEMMA NoCallbackTyped ==
  /\ NoCallback \in Callbacks
  /\ NoCallback.op = "none" /\ NoCallback.doc = NoDoc
BY DEF NoCallback, Callbacks

LEMMA ForgetShape ==
  ASSUME call \in [Calls -> Callbacks], NEW d
  PROVE  /\ Forget(d) \in [Calls -> Callbacks]
         /\ \A k \in Calls : /\ Forget(d)[k].doc = call[k].doc
                             /\ Forget(d)[k].op = call[k].op
                             /\ call[k].doc # d => Forget(d)[k] = call[k]
<1>1. ASSUME NEW k \in Calls
      PROVE  LET f == [call[k] EXCEPT !.awaited = FALSE]
             IN  f \in Callbacks /\ f.doc = call[k].doc /\ f.op = call[k].op
  BY DEF Callbacks
<1>2. QED
  BY <1>1 DEF Forget

LEMMA PostShape ==
  ASSUME NEW calls \in [Calls -> Callbacks], NEW k \in Calls, NEW d \in Docs,
         NEW op \in {"find", "fail"}, Post(calls, k, d, op)
  PROVE  /\ call' \in [Calls -> Callbacks]
         /\ call'[k].doc = d /\ call'[k].op = op /\ call'[k].awaited
         /\ \A j \in Calls \ {k} : call'[j] = calls[j]
<1> DEFINE new == [doc |-> d, op |-> op, awaited |-> TRUE]
<1>1. new \in Callbacks /\ new.doc = d /\ new.op = op /\ new.awaited
  BY DEF Callbacks
<1>2. call' = [calls EXCEPT ![k] = new]
  BY DEF Post
<1> HIDE DEF new
<1>3. QED
  BY <1>1, <1>2

LEMMA EndedShape ==
  ASSUME call \in [Calls -> Callbacks], NEW k \in Calls, Ended(k)
  PROVE  /\ call' \in [Calls -> Callbacks]
         /\ call'[k].op = "none" /\ call'[k].doc = NoDoc
         /\ \A j \in Calls \ {k} : call'[j] = call[j]
BY NoCallbackTyped DEF Ended

LEMMA FoundShape ==
  ASSUME call \in [Calls -> Callbacks], NEW k \in Calls,
         call' = [call EXCEPT ![k].op = "write"]
  PROVE  /\ call' \in [Calls -> Callbacks]
         /\ call'[k].op = "write" /\ call'[k].doc = call[k].doc
         /\ call'[k].awaited = call[k].awaited
         /\ \A j \in Calls \ {k} : call'[j] = call[j]
<1> DEFINE new == [call[k] EXCEPT !.op = "write"]
<1>1. /\ new \in Callbacks /\ new.op = "write" /\ new.doc = call[k].doc
      /\ new.awaited = call[k].awaited
  BY DEF Callbacks
<1>2. call' = [call EXCEPT ![k] = new]
  OBVIOUS
<1> HIDE DEF new
<1>3. QED
  BY <1>1, <1>2

LEMMA StatusShape ==
  ASSUME KbTypeOK, NEW d \in Docs, NEW s \in {"ready", "failed"}, SetStatus(d, s)
  PROVE  /\ doc' \in [Docs -> {"absent", "pending", "ready", "failed", "deleted"}]
         /\ doc'[d] = IF Stored(d) THEN s ELSE doc[d]
         /\ \A e \in Docs \ {d} : doc'[e] = doc[e]
BY DEF SetStatus, KbTypeOK

LEMMA FreeShape ==
  ASSUME NEW k \in Calls, Free(k)
  PROVE  call[k].doc = NoDoc /\ call[k].op = "none"
BY NoCallbackTyped DEF Free
-----------------------------------------------------------------------------
(* Type correctness.                                                       *)

LEMMA KbTypeStep ==
  KbTypeOK /\ CallsNamed /\ [KbNext]_kbVars => KbTypeOK' /\ CallsNamed'
<1> SUFFICES ASSUME KbTypeOK, CallsNamed, [KbNext]_kbVars
             PROVE  KbTypeOK' /\ CallsNamed'
  OBVIOUS
<1>1. call \in [Calls -> Callbacks]
  BY DEF KbTypeOK, Callbacks
<1>2. ASSUME call' \in [Calls -> Callbacks]
      PROVE  call' \in [Calls -> [doc : Docs \cup {NoDoc}, awaited : BOOLEAN,
                                  op : {"none", "find", "write", "fail"}]]
  BY <1>2 DEF Callbacks
<1>3. ASSUME NEW d \in Docs,
             \/ UploadInsert(d) \/ DispatchEmbed(d) \/ NoopDispatchEmbed(d)
             \/ UploadStops(d) \/ TakeTask(d) \/ DeleteDocument(d)
      PROVE  KbTypeOK' /\ CallsNamed'
  BY <1>3 DEF UploadInsert, DispatchEmbed, NoopDispatchEmbed, UploadStops, TakeTask,
     DeleteDocument, KbTypeOK, CallsNamed
<1>4. ASSUME NEW d \in Docs, UploadMarkFailed(d)
      PROVE  KbTypeOK' /\ CallsNamed'
  BY <1>4, StatusShape DEF UploadMarkFailed, KbTypeOK, CallsNamed
<1>5. ASSUME NEW d \in Docs, GiveUp(d) \/ WorkerDies(d)
      PROVE  KbTypeOK' /\ CallsNamed'
  <2>1. call' = Forget(d)
    BY <1>5 DEF GiveUp, WorkerDies
  <2>2. call' \in [Calls -> Callbacks] /\ CallsNamed'
    BY <2>1, <1>1, ForgetShape DEF CallsNamed
  <2>3. QED
    BY <1>5, <2>2, <1>2 DEF GiveUp, WorkerDies, KbTypeOK
<1>6. ASSUME NEW d \in Docs, NEW k \in Calls,
             Embed(d, k) \/ ReportEmpty(d, k) \/ ReportFailure(d, k)
      PROVE  KbTypeOK' /\ CallsNamed'
  <2>1. PICK calls \in {call, Forget(d)}, op \in {"find", "fail"} :
          Post(calls, k, d, op)
    BY <1>6 DEF Embed, ReportEmpty, ReportFailure
  <2>2. /\ calls \in [Calls -> Callbacks]
        /\ \A j \in Calls : calls[j].op = call[j].op /\ calls[j].doc = call[j].doc
    BY <2>1, <1>1, ForgetShape
  <2>3. call' \in [Calls -> Callbacks] /\ CallsNamed'
    BY <2>1, <2>2, PostShape DEF CallsNamed
  <2>4. QED
    BY <1>6, <2>3, <1>2 DEF Embed, ReportEmpty, ReportFailure, KbTypeOK
<1>7. ASSUME NEW k \in Calls,
             ChunksFind(k) \/ ChunksWrite(k) \/ FailureMark(k) \/ CallbackFails(k)
      PROVE  KbTypeOK' /\ CallsNamed'
  <2>1. call[k].op # "none" => call[k].doc \in Docs
    BY DEF CallsNamed
  <2>2. Ended(k) \/ (ChunksFind(k) /\ call' = [call EXCEPT ![k].op = "write"])
    BY <1>7 DEF ChunksFind, ChunksWrite, FailureMark, CallbackFails
  <2>3. call' \in [Calls -> Callbacks] /\ CallsNamed'
    BY <2>1, <2>2, <1>1, EndedShape, FoundShape DEF CallsNamed, ChunksFind
  <2>4. CASE ChunksFind(k)
    BY <2>3, <2>4, <1>2 DEF ChunksFind, KbTypeOK
  <2>5. CASE ChunksWrite(k)
    <3>1. call[k].doc \in Docs
      BY <2>1, <2>5 DEF ChunksWrite
    <3>2. doc' \in [Docs -> {"absent", "pending", "ready", "failed", "deleted"}]
      BY <2>5, <3>1, StatusShape DEF ChunksWrite, KbTypeOK
    <3>3. QED
      BY <2>3, <2>5, <3>1, <3>2, <1>2 DEF ChunksWrite, KbTypeOK
  <2>6. CASE FailureMark(k)
    <3>1. doc' \in [Docs -> {"absent", "pending", "ready", "failed", "deleted"}]
      BY <2>1, <2>6, StatusShape DEF FailureMark
    <3>2. QED
      BY <2>3, <2>6, <3>1, <1>2 DEF FailureMark, KbTypeOK
  <2>7. CASE CallbackFails(k)
    <3>1. dropped' \subseteq Docs
      BY <2>1, <2>7 DEF CallbackFails, KbTypeOK
    <3>2. QED
      BY <2>3, <2>7, <3>1, <1>2 DEF CallbackFails, KbTypeOK
  <2>8. QED
    BY <1>7, <2>4, <2>5, <2>6, <2>7
<1>8. CASE UNCHANGED kbVars
  BY <1>8 DEF kbVars, KbTypeOK, CallsNamed
<1>9. QED
  BY <1>3, <1>4, <1>5, <1>6, <1>7, <1>8 DEF KbNext
-----------------------------------------------------------------------------
(* Pending documents.                                                      *)

Reported(d) == \E k \in Calls : call[k].doc = d /\ call[k].op = "fail"

LEMMA AnswerableStep ==
  KbTypeOK /\ CallsNamed /\ Answerable /\ [KbNext]_kbVars => Answerable'
<1> SUFFICES ASSUME KbTypeOK, CallsNamed, Answerable, [KbNext]_kbVars,
                    NEW d \in Docs, doc'[d] = "pending"
             PROVE  \/ upload'[d] # "none" \/ d \in queue'
                    \/ task'[d] \in {"embed", "store"}
                    \/ Reported(d)' \/ d \in dropped'
  BY DEF Answerable, Reported
<1>1. call \in [Calls -> Callbacks]
  BY DEF KbTypeOK, Callbacks
<1>2. doc[d] = "pending" =>
        \/ upload[d] # "none" \/ d \in queue \/ task[d] \in {"embed", "store"}
        \/ Reported(d) \/ d \in dropped
  BY DEF Answerable, Reported
<1>3. ASSUME NEW e \in Docs,
             \/ UploadInsert(e) \/ DispatchEmbed(e) \/ NoopDispatchEmbed(e)
             \/ UploadStops(e) \/ TakeTask(e) \/ DeleteDocument(e)
      PROVE  \/ upload'[d] # "none" \/ d \in queue'
             \/ task'[d] \in {"embed", "store"} \/ Reported(d)' \/ d \in dropped'
  BY <1>2, <1>3 DEF UploadInsert, DispatchEmbed, NoopDispatchEmbed, UploadStops,
     TakeTask, DeleteDocument, KbTypeOK, Reported
<1>4. ASSUME NEW e \in Docs, UploadMarkFailed(e)
      PROVE  \/ upload'[d] # "none" \/ d \in queue'
             \/ task'[d] \in {"embed", "store"} \/ Reported(d)' \/ d \in dropped'
  <2>1. CASE SetStatus(e, "failed")
    <3>1. d # e /\ doc[d] = "pending"
      BY <2>1, StatusShape DEF Stored
    <3>2. QED
      BY <1>2, <1>4, <3>1 DEF UploadMarkFailed, KbTypeOK, Reported
  <2>2. CASE doc' = doc /\ dropped' = dropped \cup {e}
    BY <1>2, <1>4, <2>2 DEF UploadMarkFailed, KbTypeOK, Reported
  <2>3. QED
    BY <1>4, <2>1, <2>2 DEF UploadMarkFailed
<1>5. ASSUME NEW e \in Docs, GiveUp(e) \/ WorkerDies(e)
      PROVE  \/ upload'[d] # "none" \/ d \in queue'
             \/ task'[d] \in {"embed", "store"} \/ Reported(d)' \/ d \in dropped'
  <2>1. Reported(d) => Reported(d)'
    BY <1>5, <1>1, ForgetShape DEF GiveUp, WorkerDies, Reported
  <2>2. QED
    BY <1>2, <1>5, <2>1 DEF GiveUp, WorkerDies, KbTypeOK
<1>6. ASSUME NEW e \in Docs, NEW k \in Calls,
             Embed(e, k) \/ ReportEmpty(e, k) \/ ReportFailure(e, k)
      PROVE  \/ upload'[d] # "none" \/ d \in queue'
             \/ task'[d] \in {"embed", "store"} \/ Reported(d)' \/ d \in dropped'
  <2>1. PICK calls \in {call, Forget(e)}, op \in {"find", "fail"} :
          Post(calls, k, e, op) /\ (~ Embed(e, k) => op = "fail")
    BY <1>6 DEF Embed, ReportEmpty, ReportFailure
  <2>2. /\ calls \in [Calls -> Callbacks]
        /\ \A j \in Calls : calls[j].op = call[j].op /\ calls[j].doc = call[j].doc
        /\ call[k].op = "none"
    BY <1>1, <1>6, <2>1, ForgetShape, FreeShape
       DEF Embed, ReportEmpty, ReportFailure
  <2>3. Reported(d) => Reported(d)'
    BY <2>1, <2>2, PostShape DEF Reported
  <2>4. ~ Embed(e, k) => Reported(e)'
    BY <2>1, <2>2, PostShape DEF Reported
  <2>5. CASE Embed(e, k)
    BY <1>2, <2>3, <2>5 DEF Embed, KbTypeOK
  <2>6. CASE ~ Embed(e, k)
    BY <1>2, <1>6, <2>3, <2>4, <2>6 DEF ReportEmpty, ReportFailure, KbTypeOK
  <2>7. QED
    BY <2>5, <2>6
<1>7. ASSUME NEW k \in Calls,
             ChunksFind(k) \/ ChunksWrite(k) \/ FailureMark(k) \/ CallbackFails(k)
      PROVE  \/ upload'[d] # "none" \/ d \in queue'
             \/ task'[d] \in {"embed", "store"} \/ Reported(d)' \/ d \in dropped'
  <2>1. call[k].op # "none" => call[k].doc \in Docs
    BY DEF CallsNamed
  <2>2. \A j \in Calls \ {k} : call'[j] = call[j]
    BY <1>1, <1>7, EndedShape, FoundShape
       DEF ChunksFind, ChunksWrite, FailureMark, CallbackFails
  <2>3. call[k].op # "fail" \/ call[k].doc # d => (Reported(d) => Reported(d)')
    BY <2>2 DEF Reported
  <2>4. CASE ChunksFind(k)
    BY <1>2, <2>3, <2>4 DEF ChunksFind
  <2>5. CASE ChunksWrite(k)
    <3>1. call[k].doc \in Docs /\ call[k].op = "write"
      BY <2>1, <2>5 DEF ChunksWrite
    <3>2. /\ doc[d] = "pending"
          /\ call[k].doc = d => ~ Stored(d)
          /\ task'[d] = task[d]
      <4>1. CASE Stored(call[k].doc)
        BY <2>5, <3>1, <4>1, StatusShape DEF ChunksWrite, KbTypeOK
      <4>2. CASE ~ Stored(call[k].doc)
        BY <2>5, <4>2 DEF ChunksWrite
      <4>3. QED
        BY <4>1, <4>2
    <3>3. QED
      BY <1>2, <2>3, <2>5, <3>1, <3>2 DEF ChunksWrite
  <2>6. CASE FailureMark(k)
    <3>1. call[k].doc \in Docs
      BY <2>1, <2>6 DEF FailureMark
    <3>2. doc[d] = "pending" /\ call[k].doc # d
      BY <2>6, <3>1, StatusShape DEF FailureMark, Stored
    <3>3. QED
      BY <1>2, <2>3, <2>6, <3>2 DEF FailureMark
  <2>7. CASE CallbackFails(k)
    BY <1>2, <2>3, <2>7 DEF CallbackFails
  <2>8. QED
    BY <1>7, <2>4, <2>5, <2>6, <2>7
<1>8. CASE UNCHANGED kbVars
  BY <1>2, <1>8 DEF kbVars, Reported
<1>9. QED
  BY <1>3, <1>4, <1>5, <1>6, <1>7, <1>8 DEF KbNext
-----------------------------------------------------------------------------
(* The way of one document.                                                *)

SameCallsOf(d) ==
  \A k \in Calls : /\ call'[k].doc = d <=> call[k].doc = d
                   /\ call[k].doc = d => call'[k] = call[k]

(* A step about another document.                                          *)
LEMMA OtherDocument ==
  ASSUME NEW d \in Docs, Sound(d), SameCallsOf(d),
         doc'[d] = doc[d], upload'[d] = upload[d], task'[d] = task[d],
         d \in queue' <=> d \in queue, d \in chunks' <=> d \in chunks,
         d \in late' <=> d \in late
  PROVE  Sound(d)'
<1>1. NoCallOf(d)' <=> NoCallOf(d)
  BY DEF NoCallOf, SameCallsOf
<1>2. OneAnswer(d) => OneAnswer(d)'
  BY DEF OneAnswer, SameCallsOf
<1>3. QED
  BY <1>1, <1>2 DEF Sound, Agreed, Orderly

LEMMA SameCalls == ASSUME call' = call, NEW d PROVE SameCallsOf(d)
BY DEF SameCallsOf

LEMMA UploadSound ==
  ASSUME KbTypeOK, NEW d \in Docs, Sound(d), NEW e \in Docs,
         \/ UploadInsert(e) \/ DispatchEmbed(e) \/ NoopDispatchEmbed(e)
         \/ UploadMarkFailed(e) \/ UploadStops(e)
  PROVE  Sound(d)'
<1>1. call' = call /\ task' = task /\ chunks' = chunks
  BY DEF UploadInsert, DispatchEmbed, NoopDispatchEmbed, UploadMarkFailed,
     UploadStops
<1>2. CASE d # e
  <2>1. /\ doc'[d] = doc[d] /\ upload'[d] = upload[d]
        /\ d \in queue' <=> d \in queue
        /\ d \in late' <=> d \in late
    BY <1>2, StatusShape DEF UploadInsert, DispatchEmbed, NoopDispatchEmbed,
       UploadMarkFailed, UploadStops, KbTypeOK
  <2>2. QED
    BY <1>1, <2>1, SameCalls, OtherDocument
<1>3. CASE d = e
  <2>1. CASE UploadInsert(e)
    BY <1>1, <1>3, <2>1 DEF UploadInsert, KbTypeOK, Sound, Agreed, Orderly,
       OneAnswer, NoCallOf
  <2>2. CASE DispatchEmbed(e)
    BY <1>1, <1>3, <2>2 DEF DispatchEmbed, KbTypeOK, Sound, Agreed, Orderly,
       OneAnswer, NoCallOf
  <2>3. CASE NoopDispatchEmbed(e) \/ UploadStops(e)
    BY <1>1, <1>3, <2>3 DEF NoopDispatchEmbed, UploadStops, KbTypeOK, Sound, Agreed,
       Orderly, OneAnswer, NoCallOf
  <2>4. CASE UploadMarkFailed(e)
    <3>1. /\ upload[d] # "none" /\ upload'[d] = "none"
          /\ queue' = queue /\ late' = late
          /\ doc'[d] = doc[d] \/ (doc'[d] = "failed" /\ Stored(d))
      BY <1>3, <2>4, StatusShape DEF UploadMarkFailed, KbTypeOK
    <3>2. QED
      BY <1>1, <3>1 DEF Sound, Agreed, Orderly, OneAnswer, NoCallOf, Stored
  <2>5. QED
    BY <2>1, <2>2, <2>3, <2>4
<1>4. QED
  BY <1>2, <1>3

LEMMA TaskSound ==
  ASSUME KbTypeOK, NEW d \in Docs, Sound(d), NEW e \in Docs,
         \/ TakeTask(e) \/ GiveUp(e) \/ WorkerDies(e) \/ DeleteDocument(e)
  PROVE  Sound(d)'
<1>1. call \in [Calls -> Callbacks]
  BY DEF KbTypeOK, Callbacks
<1>2. CASE TakeTask(e)
  BY <1>2, SameCalls, OtherDocument
     DEF TakeTask, KbTypeOK, Sound, Agreed, Orderly, OneAnswer, NoCallOf
<1>3. CASE DeleteDocument(e)
  BY <1>3, SameCalls, OtherDocument
     DEF DeleteDocument, KbTypeOK, Sound, Agreed, Orderly, OneAnswer, NoCallOf, Stored
<1>4. CASE GiveUp(e) \/ WorkerDies(e)
  <2>1. \A k \in Calls : /\ call'[k].doc = call[k].doc
                         /\ call'[k].op = call[k].op
                         /\ call[k].doc # e => call'[k] = call[k]
    BY <1>1, <1>4, ForgetShape DEF GiveUp, WorkerDies
  <2>2. CASE d # e
    <3>1. SameCallsOf(d)
      BY <2>1, <2>2 DEF SameCallsOf
    <3>2. QED
      BY <1>4, <2>2, <3>1, OtherDocument DEF GiveUp, WorkerDies, KbTypeOK
  <2>3. CASE d = e /\ WorkerDies(e)
    BY <2>3 DEF WorkerDies, Sound, Agreed
  <2>4. CASE d = e /\ GiveUp(e)
    BY <2>1, <2>4 DEF GiveUp, KbTypeOK, Sound, Agreed, Orderly, OneAnswer, NoCallOf
  <2>5. QED
    BY <1>4, <2>2, <2>3, <2>4
<1>5. QED
  BY <1>2, <1>3, <1>4

LEMMA PostSound ==
  ASSUME KbTypeOK, NEW d \in Docs, Sound(d), NEW e \in Docs, NEW k \in Calls,
         Embed(e, k) \/ ReportEmpty(e, k) \/ ReportFailure(e, k)
  PROVE  Sound(d)'
<1>1. PICK calls \in {call, Forget(e)}, op \in {"find", "fail"} :
        /\ Post(calls, k, e, op)
        /\ op = IF task[e] = "embed" /\ task'[e] = "store" THEN "find" ELSE "fail"
        /\ calls = IF op = "find" THEN call ELSE calls
  BY DEF Embed, ReportEmpty, ReportFailure, KbTypeOK
<1>2. call \in [Calls -> Callbacks]
  BY DEF KbTypeOK, Callbacks
<1>3. /\ call[k].doc = NoDoc
      /\ call'[k].doc = e /\ call'[k].op = op /\ call'[k].awaited
      /\ \A j \in Calls \ {k} : /\ call'[j].doc = call[j].doc
                                /\ call'[j].op = call[j].op
                                /\ call[j].doc # e => call'[j] = call[j]
  BY <1>1, <1>2, ForgetShape, PostShape, FreeShape
     DEF Embed, ReportEmpty, ReportFailure
<1>4. /\ doc' = doc /\ chunks' = chunks /\ upload' = upload /\ queue' = queue
      /\ \A f \in Docs \ {e} :
           task'[f] = task[f] /\ (f \in late' <=> f \in late)
      /\ late \subseteq late'
  BY DEF Embed, ReportEmpty, ReportFailure, KbTypeOK
<1>5. CASE d # e
  <2>1. SameCallsOf(d)
    BY <1>3, <1>5, NoDocIsNone DEF SameCallsOf
  <2>2. QED
    BY <1>4, <1>5, <2>1, OtherDocument
<1>6. CASE d = e /\ d \in late'
  BY <1>4, <1>6 DEF Sound, Agreed, Orderly, OneAnswer
<1>7. CASE d = e /\ d \notin late'
  <2>1. d \notin late /\ Orderly(d)
    BY <1>4, <1>7 DEF Sound
  <2>2. CASE Embed(e, k)
    <3>1. task[d] = "embed" /\ task'[d] = "store" /\ op = "find"
      BY <1>1, <1>7, <2>2 DEF Embed, KbTypeOK
    <3>2. \A j \in Calls \ {k} : call'[j].doc # d
      BY <1>3, <2>1, <3>1 DEF Orderly, OneAnswer, NoCallOf
    <3>3. Orderly(d)'
      BY <1>3, <1>4, <1>7, <2>1, <3>1, <3>2 DEF Orderly, OneAnswer, NoCallOf
    <3>4. QED
      BY <1>4, <1>7, <3>3 DEF Sound, Agreed
  <2>3. CASE ~ Embed(e, k)
    <3>1. /\ task[d] # "none" /\ task'[d] \in {"empty", "report"}
          /\ op = "fail"
      BY <1>1, <1>7, <2>3 DEF ReportEmpty, ReportFailure, KbTypeOK
    <3>2. \A j \in Calls : call[j].doc = d => call[j].op = "fail"
      <4> SUFFICES ASSUME NEW j \in Calls, call[j].doc = d, call[j].op # "fail"
                   PROVE  FALSE
        OBVIOUS
      <4>1. call[j].awaited /\ task[d] = "store"
        BY <2>1 DEF Orderly, OneAnswer
      <4>2. d \in late'
        BY <1>7, <2>3, <4>1 DEF ReportEmpty, ReportFailure, Awaits
      <4>3. QED
        BY <1>7, <4>2
    <3>3. Orderly(d)'
      BY <1>3, <1>4, <1>7, <2>1, <3>1, <3>2 DEF Orderly, OneAnswer, NoCallOf
    <3>4. QED
      BY <1>4, <1>7, <3>3 DEF Sound, Agreed
  <2>4. QED
    BY <2>2, <2>3
<1>8. QED
  BY <1>5, <1>6, <1>7

LEMMA CallbackSound ==
  ASSUME KbTypeOK, CallsNamed, NEW d \in Docs, Sound(d), NEW k \in Calls,
         ChunksFind(k) \/ ChunksWrite(k) \/ FailureMark(k) \/ CallbackFails(k)
  PROVE  Sound(d)'
<1>1. call \in [Calls -> Callbacks]
  BY DEF KbTypeOK, Callbacks
<1>2. /\ \A j \in Calls \ {k} : call'[j] = call[j]
      /\ call'[k].doc \in {call[k].doc, NoDoc}
      /\ call'[k].doc # NoDoc =>
           /\ call[k].op = "find" /\ call'[k].op = "write"
           /\ call'[k].awaited = call[k].awaited
  BY <1>1, EndedShape, FoundShape
     DEF ChunksFind, ChunksWrite, FailureMark, CallbackFails
<1>3. queue' = queue /\ upload' = upload /\ late' = late
  BY DEF ChunksFind, ChunksWrite, FailureMark, CallbackFails
<1>4. call[k].op # "none" => call[k].doc \in Docs
  BY DEF CallsNamed
<1>5. CASE doc'[d] = doc[d] /\ task'[d] = task[d] /\ (d \in chunks' <=> d \in chunks)
  BY <1>2, <1>3, <1>5, NoDocIsNone DEF Sound, Agreed, Orderly, OneAnswer, NoCallOf
<1>6. CASE call[k].doc = d /\ FailureMark(k)
  <2>1. /\ doc'[d] = IF Stored(d) THEN "failed" ELSE doc[d]
        /\ task' = task /\ chunks' = chunks /\ call[k].op = "fail"
    BY <1>6, StatusShape DEF FailureMark
  <2>2. d \notin late => d \notin chunks
    BY <1>6, <2>1 DEF Sound, Orderly, OneAnswer
  <2>3. QED
    BY <1>2, <1>3, <2>1, <2>2, NoDocIsNone
       DEF Sound, Agreed, Orderly, OneAnswer, NoCallOf, Stored
<1>7. CASE call[k].doc = d /\ ChunksWrite(k) /\ Stored(d)
  <2>1. /\ doc'[d] = "ready" /\ d \in chunks' /\ call[k].op = "write"
        /\ call[k].awaited => task'[d] = "none"
    BY <1>7, StatusShape DEF ChunksWrite, KbTypeOK
  <2>2. ASSUME d \notin late PROVE Orderly(d)'
    <3>1. Orderly(d)
      BY <2>2 DEF Sound
    <3>2. /\ call[k].awaited /\ task[d] = "store"
          /\ \A j \in Calls : call[j].doc = d => j = k
      BY <1>7, <2>1, <3>1 DEF Orderly, OneAnswer
    <3>3. /\ d \notin queue /\ upload[d] = "none" /\ task'[d] = "none"
      BY <2>1, <3>1, <3>2 DEF Orderly, OneAnswer
    <3>4. \A j \in Calls : call'[j].doc # d
      BY <1>2, <2>1, <3>2, NoDocIsNone
    <3>5. QED
      BY <1>3, <2>1, <3>3, <3>4 DEF Orderly, OneAnswer
  <2>3. QED
    BY <1>3, <2>1, <2>2 DEF Sound, Agreed
<1>8. CASE call[k].doc # d \/ ChunksFind(k) \/ CallbackFails(k)
             \/ (ChunksWrite(k) /\ ~ Stored(call[k].doc))
  <2>1. doc'[d] = doc[d] /\ task'[d] = task[d] /\ (d \in chunks' <=> d \in chunks)
    BY <1>4, <1>8, StatusShape
       DEF ChunksFind, ChunksWrite, FailureMark, CallbackFails, KbTypeOK
  <2>2. QED
    BY <1>5, <2>1
<1>9. QED
  BY <1>6, <1>7, <1>8
-----------------------------------------------------------------------------
(* The invariant and what it implies.                                      *)

LEMMA KbInvInit == KbInit => KbInv
BY NoCallbackTyped, NoDocIsNone
   DEF KbInit, KbInv, KbTypeOK, CallsNamed, Answerable, Sound, Agreed, Orderly,
       OneAnswer, NoCallOf, Callbacks

LEMMA KbInvStep == KbInv /\ [KbNext]_kbVars => KbInv'
<1> SUFFICES ASSUME KbInv, [KbNext]_kbVars PROVE KbInv'
  OBVIOUS
<1>1. KbTypeOK /\ CallsNamed /\ \A d \in Docs : Sound(d)
  BY DEF KbInv
<1>2. KbTypeOK' /\ CallsNamed' /\ Answerable'
  BY KbTypeStep, AnswerableStep DEF KbInv
<1>3. ASSUME NEW d \in Docs PROVE Sound(d)'
  <2>1. CASE KbNext
    BY <1>1, <2>1, UploadSound, TaskSound, PostSound, CallbackSound DEF KbNext
  <2>2. CASE UNCHANGED kbVars
    BY <1>1, <2>2, SameCalls, OtherDocument DEF kbVars
  <2>3. QED
    BY <2>1, <2>2
<1>4. QED
  BY <1>2, <1>3 DEF KbInv

LEMMA KbInvariance == KbSpec => []KbInv
BY KbInvInit, KbInvStep, PTL DEF KbSpec

(* Whatever uploads, tasks and callbacks run, every variable keeps its     *)
(* type.                                                                   *)
THEOREM KnowledgeTyped == KbSpec => []KbTypeOK
<1>1. KbInv => KbTypeOK
  BY DEF KbInv
<1>2. QED
  BY <1>1, KbInvariance, PTL

(* Knowledge::retrieve_for_job does not look at the status, and need not:  *)
(* chunks belong to ready documents, but for one that a report marked      *)
(* failed after a caller missed an answer; and no ready document lacks     *)
(* its chunks.                                                             *)
THEOREM GroundedInReady == KbSpec => []RetrievedIsReady
<1>1. KbInv => RetrievedIsReady
  BY DEF KbInv, KbTypeOK, Sound, Agreed, RetrievedIsReady, Retrieved, Stored
<1>2. QED
  BY <1>1, KbInvariance, PTL

(* Knowledge::upload and the embedding task report every failure once:     *)
(* a document stays pending for ever only if a server or an agent stopped  *)
(* or was missing, or a report itself failed.                              *)
THEOREM PendingHasAWay == KbSpec => []PendingIsWorkedOn
<1>1. KbInv => PendingIsWorkedOn
  BY DEF KbInv, Answerable, PendingIsWorkedOn
<1>2. QED
  BY <1>1, KbInvariance, PTL
-----------------------------------------------------------------------------
(* Startup: what is configured is sound before it is wired, and what is    *)
(* wired is what the configuration asks for.                               *)

Configured == server \in {"configured", "wired", "listening"}

Sane ==
  /\ config.max_connections > 0 /\ config.tick_seconds > 0
  /\ env.APP_ENV = "production" =>
       /\ config.database_url # Unset /\ config.agent_api_url # Unset
       /\ {config.jwt_secret, config.internal_token} \cap PLACEHOLDERS = {}

AsConfigured ==
  /\ adapters.repositories =
       IF config.database_url # Unset THEN "postgres" ELSE "memory"
  /\ adapters.leader =
       IF config.database_url # Unset THEN "advisory lock" ELSE "noop"
  /\ config.agent_api_url # Unset =>
       adapters.dispatcher = "http" /\ adapters.embed = "http"

StInv ==
  /\ Configured => Sane
  /\ server \in {"wired", "listening"} => AsConfigured

LEMMA RequiredIsSet ==
  ASSUME MissingRequired(REQUIRED_IN_PRODUCTION) = {},
         NEW n \in REQUIRED_IN_PRODUCTION, NEW default
  PROVE  GetVar(n, default) \notin {Unset, ""} \cup PLACEHOLDERS
<1>1. env[n] \notin {Unset, ""} \cup PLACEHOLDERS
  BY DEF MissingRequired
<1>2. QED
  BY <1>1 DEF GetVar

LEMMA FromLookupSane ==
  ASSUME FromLookup, server' # "exited"
  PROVE  Sane'
<1> USE DEF FromLookup
<1>1. \A n \in {0, 5, 10, 60} : AtLeastOne(n) > 0
  BY DEF AtLeastOne
<1>2. \A name, default : GetU32(name, default) \in {0, 5, default}
  BY DEF GetU32
<1>3. config'.max_connections > 0 /\ config'.tick_seconds > 0
  <2>1. /\ config'.max_connections = AtLeastOne(GetU32("DATABASE_MAX_CONNECTIONS", 10))
        /\ config'.tick_seconds = AtLeastOne(GetU32("SCHEDULER_TICK_SECONDS", 60))
    OBVIOUS
  <2>2. /\ GetU32("DATABASE_MAX_CONNECTIONS", 10) \in {0, 5, 10}
        /\ GetU32("SCHEDULER_TICK_SECONDS", 60) \in {0, 5, 60}
    BY <1>2
  <2>3. QED
    BY <1>1, <2>1, <2>2
<1>4. ASSUME env'.APP_ENV = "production"
      PROVE  /\ config'.database_url # Unset /\ config'.agent_api_url # Unset
             /\ {config'.jwt_secret, config'.internal_token} \cap PLACEHOLDERS = {}
  <2>1. MissingRequired(REQUIRED_IN_PRODUCTION) = {}
    BY <1>4
  <2>2. /\ config'.jwt_secret = GetVar("JWT_SECRET", "insecure-dev-secret")
        /\ config'.internal_token = GetVar("INTERNAL_API_TOKEN", "change-me")
        /\ config'.database_url = GetVar("DATABASE_URL", Unset)
        /\ config'.agent_api_url = GetVar("AGENT_API_URL", Unset)
    OBVIOUS
  <2>3. {"JWT_SECRET", "INTERNAL_API_TOKEN", "DATABASE_URL", "AGENT_API_URL"}
          \subseteq REQUIRED_IN_PRODUCTION
    BY DEF REQUIRED_IN_PRODUCTION
  <2>4. /\ config'.database_url # Unset /\ config'.agent_api_url # Unset
        /\ config'.jwt_secret \notin PLACEHOLDERS
        /\ config'.internal_token \notin PLACEHOLDERS
    BY <2>1, <2>2, <2>3, RequiredIsSet
  <2>5. QED
    BY <2>4
<1>5. QED
  BY <1>3, <1>4 DEF Sane

LEMMA WireAsConfigured ==
  ASSUME Wire
  PROVE  AsConfigured'
<1>1. config' = config
  BY DEF Wire
<1>2. /\ adapters'.repositories =
           IF config.database_url # Unset THEN "postgres" ELSE "memory"
      /\ adapters'.leader =
           IF config.database_url # Unset THEN "advisory lock" ELSE "noop"
  BY DEF Wire
<1>3. config.agent_api_url # Unset =>
        adapters'.dispatcher = "http" /\ adapters'.embed = "http"
  BY DEF Wire
<1>4. QED
  BY <1>1, <1>2, <1>3 DEF AsConfigured

LEMMA StInvStep == StInv /\ [StNext]_stVars => StInv'
<1> SUFFICES ASSUME StInv, [StNext]_stVars PROVE StInv'
  OBVIOUS
<1> USE DEF Configured
<1>1. CASE FromLookup
  <2>1. CASE server' = "exited"
    BY <2>1 DEF StInv
  <2>2. CASE server' # "exited"
    <3>1. Sane' /\ server' = "configured"
      BY <1>1, <2>2, FromLookupSane DEF FromLookup
    <3>2. QED
      BY <3>1 DEF StInv
  <2>3. QED
    BY <2>1, <2>2
<1>2. CASE Wire
  <2>1. Sane' /\ AsConfigured'
    <3>1. Sane /\ UNCHANGED <<env, config>>
      BY <1>2 DEF Wire, StInv
    <3>2. QED
      BY <1>2, <3>1, WireAsConfigured DEF Sane
  <2>2. QED
    BY <2>1 DEF StInv
<1>3. CASE StorePanics \/ Shutdown
  BY <1>3 DEF StorePanics, Shutdown, StInv
<1>4. CASE BindAndServe \/ UNCHANGED stVars
  <2>1. /\ UNCHANGED <<env, config, adapters>>
        /\ \/ server = "wired" /\ server' \in {"listening", "exited"}
           \/ server' = server
    BY <1>4 DEF BindAndServe, stVars
  <2>2. QED
    BY <2>1 DEF StInv, Sane, AsConfigured
<1>5. QED
  BY <1>1, <1>2, <1>3, <1>4 DEF StNext

(* The configuration is there once it was read, the adapters once they are *)
(* wired.                                                                  *)
StShape ==
  /\ env \in Environments
  /\ server \in {"starting", "configured", "wired", "listening", "exited"}
  /\ Configured => "jwt_secret" \in DOMAIN config
  /\ server \in {"wired", "listening"} => "leader" \in DOMAIN adapters

LEMMA WireKeeps ==
  ASSUME Wire
  PROVE  /\ server = "configured" /\ server' = "wired"
         /\ UNCHANGED <<env, config>>
         /\ "leader" \in DOMAIN adapters'
<1> DEFINE stored == config.database_url # Unset
           shared == config.agent_api_url # Unset
           r == IF stored THEN "postgres" ELSE "memory"
           l == IF stored THEN "advisory lock" ELSE "noop"
           d == IF shared THEN "http" ELSE "noop"
           m == IF config.redis_url = "url" THEN "redis" ELSE "memory"
           e == IF config.smtp = "address" THEN "smtp" ELSE "disabled"
           b == config.smtp = "address"
<1>1. server = "configured" /\ server' = "wired"
  BY Zenon DEF Wire
<1>2. UNCHANGED <<env, config>>
  BY Zenon DEF Wire
<1>3. adapters' = [repositories |-> r, leader |-> l, dispatcher |-> d,
                   embed |-> d, limiter |-> m, email |-> e,
                   email_enabled |-> b]
  BY Zenon DEF Wire
<1> HIDE DEF r, l, d, m, e, b
<1>4. "leader" \in DOMAIN adapters'
  BY <1>3
<1>5. QED
  BY <1>1, <1>2, <1>4

(* Whatever the environment, the server goes through the states of         *)
(* startup in order (AppConfig::from_lookup, serve).                       *)
THEOREM StartTyped == StSpec => []StTypeOK
<1>1. StInit => StShape
  BY DEF StInit, StShape, Configured
<1>2. StShape /\ [StNext]_stVars => StShape'
  <2> SUFFICES ASSUME StShape, [StNext]_stVars PROVE StShape'
    OBVIOUS
  <2> USE DEF Configured, StShape
  <2>1. CASE FromLookup
    <3>1. CASE server' = "exited"
      BY <2>1, <3>1 DEF FromLookup
    <3>2. CASE server' # "exited"
      <4>1. "jwt_secret" \in DOMAIN config' /\ server' = "configured"
        BY <2>1, <3>2 DEF FromLookup
      <4>2. QED
        BY <2>1, <4>1 DEF FromLookup
    <3>3. QED
      BY <3>1, <3>2
  <2>2. CASE Wire
    <3>1. server = "configured" /\ server' = "wired"
      BY <2>2, WireKeeps
    <3>2. UNCHANGED <<env, config>>
      BY <2>2, WireKeeps
    <3>3. "leader" \in DOMAIN adapters'
      BY <2>2, WireKeeps
    <3>4. QED
      BY <3>1, <3>2, <3>3
  <2>3. CASE StorePanics \/ Shutdown \/ BindAndServe
    BY <2>3 DEF StorePanics, Shutdown, BindAndServe
  <2>4. CASE UNCHANGED stVars
    BY <2>4 DEF stVars
  <2>5. QED
    BY <2>1, <2>2, <2>3, <2>4 DEF StNext
<1>3. StShape => StTypeOK
  <2>1. DOMAIN NoConfig = {"set"} /\ DOMAIN NoAdapters = {"repositories"}
    BY DEF NoConfig, NoAdapters
  <2>2. QED
    BY <2>1 DEF StShape, StTypeOK, Configured
<1>4. QED
  BY <1>1, <1>2, <1>3, PTL DEF StSpec

(* ADR-020: a server that listens in production keeps its rows, reaches    *)
(* the agent and has secrets of its own, and in every environment it has a *)
(* working pool and ticker and a leader lock exactly for shared rows.      *)
THEOREM NoDegradedProduction == StSpec => []ListeningIsWhole
<1>1. StInit => StInv
  BY DEF StInit, StInv, Configured
<1>2. StInv => ListeningIsWhole
  <2> SUFFICES ASSUME StInv, server = "listening" PROVE ListeningIsWhole
    BY DEF ListeningIsWhole
  <2>1. Sane /\ AsConfigured
    BY DEF StInv, Configured
  <2>2. (adapters.leader = "advisory lock") <=> (adapters.repositories = "postgres")
    BY <2>1 DEF AsConfigured
  <2>3. QED
    BY <2>1, <2>2 DEF Sane, AsConfigured, ListeningIsWhole
<1>3. QED
  BY <1>1, <1>2, StInvStep, PTL DEF StSpec
-----------------------------------------------------------------------------
(* Notifications: what a digest has not tried yet it will, and what it     *)
(* listed was accepted.                                                    *)

NtRow == [id : Channels, kind : Kinds, target : Targets,
          secret : {"none", "token"}]

NtDigest == [pc : {"none", "find", "webhook", "list", "send", "sent"},
             todo : SUBSET NtRow, alive : SUBSET Channels,
             listed : SUBSET NtRow, told : SUBSET NtRow]

AcceptedRow(c) == c \in NtRow /\ (Addressable(c) \/ c.target = "odd")

(* A listed channel that is up was told, or is still to be tried.          *)
TriedOrToDo ==
  \A c \in digest.listed : Arrives(c) => c \in digest.told \cup digest.todo

NtInv ==
  /\ smtp \in BOOLEAN /\ drawn \subseteq Channels
  /\ \A c \in channels : AcceptedRow(c) /\ c.id \in drawn
  /\ \A c, d \in channels : c.id = d.id => c = d
  /\ digest \in NtDigest
  /\ \A c \in digest.listed : AcceptedRow(c)
  /\ digest.todo \cup digest.told \subseteq digest.listed
  /\ TriedOrToDo
  /\ digest.pc \notin {"send", "sent"} => digest.listed = {}
  /\ digest.pc = "sent" => digest.todo = {}

LEMMA NoDigestTyped ==
  /\ NoDigest \in NtDigest
  /\ NoDigest.listed = {} /\ NoDigest.todo = {} /\ NoDigest.told = {}
  /\ NoDigest.pc = "none"
BY DEF NoDigest, NtDigest

(* What Profile::add_channel stores.                                       *)
LEMMA AddedIsAccepted ==
  ASSUME NEW i \in Channels, NEW k \in Kinds, NEW t \in Targets,
         NEW s \in Secrets, Accepts(k, t, s)
  PROVE  AcceptedRow([id |-> i, kind |-> k, target |-> t,
                      secret |-> IF s = "token" THEN "token" ELSE "none"])
<1> DEFINE c == [id |-> i, kind |-> k, target |-> t,
                 secret |-> IF s = "token" THEN "token" ELSE "none"]
<1>1. c \in NtRow
  BY DEF NtRow
<1>2. Addressable(c) \/ c.target = "odd"
  <2>1. c.kind = k /\ c.target = t /\ c.secret = IF s = "token" THEN "token" ELSE "none"
    OBVIOUS
  <2>2. CASE k = "slack"
    BY <2>1, <2>2 DEF Accepts, Addressable
  <2>3. CASE k = "telegram"
    BY <2>1, <2>3 DEF Accepts, Addressable, Secrets
  <2>4. CASE k = "email"
    BY <2>1, <2>4 DEF Accepts, Addressable
  <2>5. QED
    BY <2>2, <2>3, <2>4 DEF Kinds
<1>3. QED
  BY <1>1, <1>2 DEF AcceptedRow

(* The profile's steps leave the digest alone.                             *)
LEMMA ProfileStep ==
  ASSUME NtInv, UNCHANGED <<smtp, digest>>,
         drawn' \subseteq Channels, drawn \subseteq drawn',
         \A c \in channels' : \/ c \in channels
                              \/ AcceptedRow(c) /\ c.id \in drawn' \ drawn,
         \A c, d \in channels' \ channels : c = d
  PROVE  NtInv'
<1>1. \A c : AcceptedRow(c)' <=> AcceptedRow(c)
  BY DEF AcceptedRow, Addressable
<1>2. /\ \A c \in channels' : AcceptedRow(c)' /\ c.id \in drawn'
      /\ \A c, d \in channels' : c.id = d.id => c = d
  BY <1>1 DEF NtInv
<1>3. TriedOrToDo'
  BY DEF NtInv, TriedOrToDo, Arrives, Addressable
<1>4. QED
  BY <1>1, <1>2, <1>3 DEF NtInv

(* A digest that goes on to another place, or is given up.                 *)
LEMMA DigestGoesOn ==
  ASSUME NtInv, UNCHANGED <<channels, drawn>>, smtp' \in BOOLEAN,
         \/ digest' = NoDigest
         \/ digest' = [NoDigest EXCEPT !.pc = "find"]
         \/ /\ smtp' = smtp
            /\ \E pc \in {"none", "webhook", "list", "sent"} :
                 /\ digest' = [digest EXCEPT !.pc = pc]
                 /\ IF pc = "sent" THEN digest.todo = {} ELSE digest.listed = {}
  PROVE  NtInv'
<1>1. \A c : AcceptedRow(c)' <=> AcceptedRow(c)
  BY DEF AcceptedRow, Addressable
<1>2. CASE digest' = NoDigest \/ digest' = [NoDigest EXCEPT !.pc = "find"]
  <2>1. /\ digest' \in NtDigest /\ digest'.pc # "sent"
        /\ digest'.listed = {} /\ digest'.todo = {} /\ digest'.told = {}
    BY <1>2 DEF NoDigest, NtDigest
  <2>2. QED
    BY <1>1, <2>1 DEF NtInv, TriedOrToDo
<1>3. ASSUME smtp' = smtp, NEW pc \in {"none", "webhook", "list", "sent"},
             digest' = [digest EXCEPT !.pc = pc],
             IF pc = "sent" THEN digest.todo = {} ELSE digest.listed = {}
      PROVE  NtInv'
  <2>1. digest \in NtDigest
    BY DEF NtInv
  <2>2. /\ digest' \in NtDigest /\ digest'.pc = pc
        /\ digest'.listed = digest.listed /\ digest'.todo = digest.todo
        /\ digest'.told = digest.told /\ digest'.alive = digest.alive
    BY <1>3, <2>1 DEF NtDigest
  <2>3. TriedOrToDo'
    BY <1>3, <2>2 DEF NtInv, TriedOrToDo, Arrives, Addressable
  <2>4. QED
    BY <1>1, <1>3, <2>2, <2>3 DEF NtInv
<1>4. QED
  BY <1>2, <1>3

LEMMA DigestListed ==
  ASSUME NtInv, DigestList
  PROVE  NtInv'
<1> USE DEF DigestList
<1>1. CASE digest' = NoDigest
  BY <1>1, DigestGoesOn DEF NtInv
<1>2. ASSUME NEW up \in SUBSET Channels,
             digest' = [digest EXCEPT !.pc = "send", !.alive = up,
                                      !.listed = channels, !.todo = channels]
      PROVE  NtInv'
  <2>1. digest \in NtDigest /\ channels \in SUBSET NtRow
    BY DEF NtInv, AcceptedRow
  <2>2. /\ digest' \in NtDigest /\ digest'.pc = "send"
        /\ digest'.listed = channels /\ digest'.todo = channels
        /\ digest'.told = digest.told
    BY <1>2, <2>1 DEF NtDigest
  <2>3. digest.told = {}
    BY DEF NtInv
  <2>4. QED
    BY <2>2, <2>3 DEF NtInv, TriedOrToDo, AcceptedRow, Addressable
<1>3. QED
  BY <1>1, <1>2

(* One channel is tried.                                                   *)
LEMMA DigestNotified ==
  ASSUME NtInv, DigestNotify
  PROVE  NtInv'
<1>1. PICK c \in digest.todo :
        digest' = [digest EXCEPT !.todo = @ \ {c},
                                 !.told = IF Arrives(c) THEN @ \cup {c} ELSE @]
  BY DEF DigestNotify
<1>2. digest \in NtDigest /\ digest.pc = "send" /\ c \in digest.listed
  BY DEF NtInv, DigestNotify
<1>3. /\ digest'.pc = "send" /\ digest'.alive = digest.alive
      /\ digest'.listed = digest.listed /\ digest'.todo = digest.todo \ {c}
      /\ digest'.told = IF Arrives(c) THEN digest.told \cup {c} ELSE digest.told
  BY <1>1, <1>2 DEF NtDigest
<1>4. digest' \in NtDigest
  <2>1. /\ digest.todo \ {c} \in SUBSET NtRow
        /\ (IF Arrives(c) THEN digest.told \cup {c} ELSE digest.told) \in SUBSET NtRow
    BY <1>2 DEF NtDigest
  <2>2. QED
    BY <1>1, <1>2, <2>1 DEF NtDigest
<1>5. \A d : (AcceptedRow(d)' <=> AcceptedRow(d)) /\ (Arrives(d)' <=> Arrives(d))
  BY <1>3 DEF DigestNotify, AcceptedRow, Arrives, Addressable
<1>6. TriedOrToDo'
  <2> SUFFICES ASSUME NEW d \in digest.listed, Arrives(d)
               PROVE  d \in digest'.told \cup digest'.todo
    BY <1>3, <1>5 DEF TriedOrToDo
  <2>1. d \in digest.told \cup digest.todo
    BY DEF NtInv, TriedOrToDo
  <2>2. QED
    BY <1>3, <2>1
<1>7. digest'.todo \cup digest'.told \subseteq digest'.listed
  BY <1>2, <1>3 DEF NtInv
<1>8. QED
  BY <1>3, <1>4, <1>5, <1>6, <1>7 DEF NtInv, DigestNotify

LEMMA NtInvStep == NtInv /\ [NtNext]_ntVars => NtInv'
<1> SUFFICES ASSUME NtInv, [NtNext]_ntVars PROVE NtInv'
  OBVIOUS
<1>1. ASSUME NEW i \in Channels, NEW k \in Kinds, NEW t \in Targets,
             NEW s \in Secrets, AddNtChannel(i, k, t, s)
      PROVE  NtInv'
  <2> DEFINE row == [id |-> i, kind |-> k, target |-> t,
                     secret |-> IF s = "token" THEN "token" ELSE "none"]
  <2>1. AcceptedRow(row) /\ row.id = i
    BY <1>1, AddedIsAccepted DEF AddNtChannel
  <2>2. /\ channels' = channels \cup {row} /\ drawn' = drawn \cup {i}
        /\ i \notin drawn /\ UNCHANGED <<smtp, digest>>
    BY <1>1 DEF AddNtChannel
  <2> HIDE DEF row
  <2>3. drawn \subseteq Channels
    BY DEF NtInv
  <2>4. QED
    BY <2>1, <2>2, <2>3, ProfileStep
<1>2. CASE EraseChannels \/ \E c \in channels : RemoveNtChannel(c)
  <2>1. /\ channels' \subseteq channels
        /\ drawn' = drawn /\ UNCHANGED <<smtp, digest>>
    BY <1>2 DEF EraseChannels, RemoveNtChannel
  <2>2. drawn \subseteq Channels
    BY DEF NtInv
  <2>3. QED
    BY <2>1, <2>2, ProfileStep
<1>3. CASE Restart \/ NewResults
  BY <1>3, DigestGoesOn DEF Restart, NewResults, NtInv
<1>4. CASE DigestFind \/ DigestWebhook
  <2>1. digest.listed = {}
    BY <1>4 DEF NtInv, DigestFind, DigestWebhook
  <2>2. \E pc \in {"none", "webhook", "list", "sent"} :
          digest' = [digest EXCEPT !.pc = pc] /\ pc # "sent"
    BY <1>4 DEF DigestFind, DigestWebhook
  <2>3. UNCHANGED <<smtp, channels, drawn>> /\ smtp' \in BOOLEAN
    BY <1>4 DEF NtInv, DigestFind, DigestWebhook
  <2>4. QED
    BY <2>1, <2>2, <2>3, DigestGoesOn
<1>5. CASE DigestSent
  BY <1>5, DigestGoesOn DEF DigestSent, NtInv
<1>6. CASE UNCHANGED ntVars
  BY <1>6 DEF ntVars, NtInv, AcceptedRow, Addressable, TriedOrToDo, Arrives
<1>7. QED
  BY <1>1, <1>2, <1>3, <1>4, <1>5, <1>6, DigestListed, DigestNotified DEF NtNext

LEMMA NtInvInit == NtInit => NtInv
BY NoDigestTyped DEF NtInit, NtInv, TriedOrToDo

LEMMA NtInvariance == NtSpec => []NtInv
BY NtInvInit, NtInvStep, PTL DEF NtSpec

(* The channels, their identifiers and the digest keep their types.        *)
THEOREM NotificationsTyped == NtSpec => []NtTypeOK
<1>1. NtInv => NtTypeOK
  <2> SUFFICES ASSUME NtInv PROVE NtTypeOK
    OBVIOUS
  <2>1. digest.pc \in {"none", "find", "webhook", "list", "send", "sent"}
    BY DEF NtInv, NtDigest
  <2>2. \A c \in channels : c.id \in drawn /\ c.kind \in Kinds
    BY DEF NtInv, AcceptedRow, NtRow
  <2>3. QED
    BY <2>1, <2>2 DEF NtInv, NtTypeOK
<1>2. QED
  BY <1>1, NtInvariance, PTL

(* maybe_send_digest: a digest that was sent reached every listed channel  *)
(* that is up, for any number of channels, whatever failed before it.      *)
THEOREM EveryLiveChannelTold == NtSpec => []LiveChannelsTold
<1>1. NtInv => LiveChannelsTold
  BY DEF NtInv, TriedOrToDo, LiveChannelsTold
<1>2. QED
  BY <1>1, NtInvariance, PTL

(* NotificationChannel::new: what was accepted, and what a digest listed,  *)
(* has what its adapter needs.                                             *)
THEOREM AcceptedCanBeAddressed == NtSpec => []AcceptedIsAddressable
<1>1. NtInv => AcceptedIsAddressable
  BY DEF NtInv, AcceptedRow, AcceptedIsAddressable
<1>2. QED
  BY <1>1, NtInvariance, PTL
-----------------------------------------------------------------------------
(* JobStream, for any number of fetches that overlap.                      *)

Views == [status : Statuses \cup {"none"}, results : BOOLEAN]
Reader == [pc : {"closed", "find", "results", "reply"}, copy : Views]

StreamShape ==
  /\ job \in [status : Statuses \cup {"gone"}, results : BOOLEAN]
  /\ reopened \in BOOLEAN
  /\ reader \in [Readers -> Reader]
  /\ sent \in Views
  /\ wire \in [Readers -> Views]
  /\ panel \in [shown : Views, streaming : BOOLEAN, timer : BOOLEAN,
                left : BOOLEAN, overtaken : BOOLEAN]

(* What a reader holds, is sent or is shown of a completed job...          *)
WholeView(view) == view.status = "completed" => view.results \/ job.status = "gone"

(* ... and of a job that ended.                                            *)
TrueView(view) ==
  view.status \in Final => job.status \in {view.status, "gone"} \/ reopened

TrueReader(it) ==
  /\ it.pc \in {"results", "reply"} => TrueView(it.copy)
  /\ it.pc = "results" /\ it.copy.status = "completed"
       => job.results \/ job.status = "gone"
  /\ it.pc = "reply" => WholeView(it.copy)

ReadersTrue == \A r \in Readers : TrueReader(reader[r])

ViewsTrue ==
  /\ \A r \in Readers : TrueView(wire[r]) /\ WholeView(wire[r])
  /\ TrueView(panel.shown) /\ WholeView(panel.shown)

(* A panel that neither listens nor waits has not begun to follow, or has  *)
(* seen the end of the job.                                                *)
Waiting == panel.streaming \/ panel.timer \/ panel.left

AtRest ==
  ~Waiting =>
    IF panel.shown = Nothing
    THEN \A r \in Readers : reader[r].pc = "closed" /\ wire[r] = Nothing
    ELSE ShowsFinal \/ panel.overtaken

StreamInv ==
  /\ StreamShape
  /\ job.status = "completed" => job.results
  /\ ReadersTrue /\ ViewsTrue /\ AtRest

LEMMA NothingTyped ==
  /\ Nothing \in Views /\ Nothing.status = "none" /\ "none" \notin Final
  /\ Closed.pc = "closed" /\ Closed.copy = Nothing
  /\ Gone.status = "gone" /\ Gone.results = FALSE
  /\ "gone" \notin Statuses /\ "none" \notin Statuses
BY DEF Nothing, Views, Final, Closed, Gone, Statuses

LEMMA StreamInvInit == StreamInit => StreamInv
<1> SUFFICES ASSUME StreamInit PROVE StreamInv
  OBVIOUS
<1>1. StreamShape
  BY NothingTyped DEF StreamInit, StreamShape, Statuses, Reader, Closed
<1>2. QED
  BY <1>1, NothingTyped DEF StreamInit, StreamInv, ReadersTrue, ViewsTrue, AtRest,
     TrueReader, TrueView, WholeView, Reader

(* The job moves: what was read of it stays true, or it was reopened.      *)
JobGoesOn ==
  /\ UNCHANGED <<reader, sent, wire, panel>>
  /\ job'.status \in Statuses \cup {"gone"} /\ job'.results \in BOOLEAN
  /\ job'.status = "gone" \/ (job.results => job'.results)
  /\ job.status = "gone" => job'.status = "gone"
  /\ job'.status = "completed" => job'.results
  /\ reopened' \in BOOLEAN /\ (reopened => reopened')
  /\ job.status \in Final /\ job'.status \notin {job.status, "gone"} => reopened'
  /\ job' = [status |-> job'.status, results |-> job'.results]

LEMMA JobStep ==
  ASSUME StreamInv, JobMoves \/ JobDeleted
  PROVE  StreamInv'
<1>1. JobGoesOn
  <2> USE DEF JobGoesOn
  <2>1. /\ job \in [status : Statuses \cup {"gone"}, results : BOOLEAN]
        /\ reopened \in BOOLEAN /\ (job.status = "completed" => job.results)
    BY DEF StreamInv, StreamShape
  <2>2. CASE JobDeleted
    BY <2>1, <2>2 DEF JobDeleted, Gone, Nothing
  <2>3. ASSUME JobMoves, NEW status \in Statuses,
               status = "completed" => job.results,
               job' = [job EXCEPT !.status = status]
        PROVE  JobGoesOn
    BY <2>1, <2>3 DEF JobMoves, Statuses
  <2>4. CASE JobMoves /\ job' = [job EXCEPT !.results = TRUE]
    BY <2>1, <2>4 DEF JobMoves
  <2>5. QED
    BY <2>2, <2>3, <2>4 DEF JobMoves
<1> USE DEF JobGoesOn
<1>2. StreamShape'
  <2>1. job' \in [status : Statuses \cup {"gone"}, results : BOOLEAN]
    BY <1>1
  <2>2. QED
    BY <1>1, <2>1 DEF StreamInv, StreamShape
<1>3. \A view : /\ TrueView(view) => TrueView(view)'
                /\ WholeView(view) => WholeView(view)'
  BY <1>1 DEF TrueView, WholeView
<1>4. ReadersTrue' /\ ViewsTrue'
  BY <1>1, <1>3 DEF StreamInv, ReadersTrue, TrueReader, ViewsTrue
<1>5. AtRest'
  BY <1>1 DEF StreamInv, AtRest, Waiting, ShowsFinal
<1>6. QED
  BY <1>1, <1>2, <1>4, <1>5 DEF StreamInv

(* A reader moves while the job stands still.                              *)
LEMMA ReaderMoves ==
  ASSUME StreamInv, NEW r \in Readers, NEW new \in Reader, TrueReader(new),
         reader' = [reader EXCEPT ![r] = new], UNCHANGED <<job, reopened>>
  PROVE  /\ reader' \in [Readers -> Reader] /\ ReadersTrue'
         /\ \A view : /\ TrueView(view) <=> TrueView(view)'
                      /\ WholeView(view) <=> WholeView(view)'
<1>1. reader \in [Readers -> Reader]
  BY DEF StreamInv, StreamShape
<1>2. \A view : /\ TrueView(view) <=> TrueView(view)'
                /\ WholeView(view) <=> WholeView(view)'
  BY DEF TrueView, WholeView
<1>3. \A it : TrueReader(it) => TrueReader(it)'
  BY <1>2 DEF TrueReader
<1>4. \A q \in Readers : TrueReader(reader'[q])
  BY <1>1 DEF StreamInv, ReadersTrue
<1>5. ReadersTrue'
  BY <1>3, <1>4 DEF ReadersTrue
<1>6. QED
  BY <1>1, <1>2, <1>5

(* A reading goes on, while nothing reaches the panel.                     *)
LEMMA ReadingGoesOn ==
  ASSUME StreamInv, NEW r \in Readers, NEW new \in Reader, TrueReader(new),
         reader' = [reader EXCEPT ![r] = new],
         reader[r].pc = "closed" => Waiting \/ panel.shown # Nothing,
         UNCHANGED <<job, reopened, sent, wire, panel>>
  PROVE  StreamInv'
<1>1. /\ reader' \in [Readers -> Reader] /\ ReadersTrue'
      /\ \A view : /\ TrueView(view) => TrueView(view)'
                   /\ WholeView(view) => WholeView(view)'
  BY ReaderMoves
<1>2. ViewsTrue'
  BY <1>1 DEF StreamInv, ViewsTrue
<1>3. AtRest'
  <2>1. AtRest /\ Waiting' = Waiting
    BY DEF StreamInv, Waiting
  <2>2. ~Waiting /\ panel.shown = Nothing
          => /\ \A q \in Readers : reader[q].pc = "closed" /\ wire[q] = Nothing
             /\ reader[r].pc = "closed"
    BY <2>1 DEF AtRest
  <2>3. QED
    BY <2>1, <2>2 DEF AtRest, ShowsFinal
<1>4. QED
  BY <1>1, <1>2, <1>3 DEF StreamInv, StreamShape

LEMMA QueryStep ==
  ASSUME StreamInv, NEW r \in Readers,
         QueriesFind(r) \/ QueriesResults(r) \/ ReadingEnds(r)
  PROVE  StreamInv'
<1>1. /\ reader \in [Readers -> Reader] /\ reader[r] \in Reader
      /\ reader[r].copy \in Views
      /\ job.status \in Statuses \cup {"gone"} /\ job.results \in BOOLEAN
      /\ job.status = "completed" => job.results
      /\ TrueReader(reader[r])
  BY DEF StreamInv, StreamShape, ReadersTrue, Reader
<1>2. Closed \in Reader /\ TrueReader(Closed)
  BY NothingTyped DEF Closed, Reader, TrueReader
<1>3. CASE ReadingEnds(r)
  <2>1. reader[r].pc # "closed" /\ reader' = [reader EXCEPT ![r] = Closed]
        /\ UNCHANGED <<job, reopened, sent, wire, panel>>
    BY <1>3 DEF ReadingEnds
  <2>2. QED
    BY <1>2, <2>1, ReadingGoesOn
<1>4. CASE QueriesFind(r)
  <2> DEFINE found == [pc |-> "results", copy |-> [Nothing EXCEPT !.status = job.status]]
             new == IF job.status = "gone" THEN Closed ELSE found
  <2>1. reader[r].pc = "find" /\ reader' = [reader EXCEPT ![r] = new]
        /\ UNCHANGED <<job, reopened, sent, wire, panel>>
    BY <1>4 DEF QueriesFind
  <2>2. job.status # "gone" => found \in Reader /\ TrueReader(found)
    <3>1. SUFFICES ASSUME job.status # "gone"
                   PROVE  found \in Reader /\ TrueReader(found)
      OBVIOUS
    <3>2. found.copy = [status |-> job.status, results |-> FALSE]
      BY DEF Nothing
    <3>3. found \in Reader
      BY <1>1, <3>1, <3>2 DEF Reader, Views
    <3>4. TrueReader(found)
      BY <1>1, <3>2 DEF TrueReader, TrueView
    <3>5. QED
      BY <3>3, <3>4
  <2>3. new \in Reader /\ TrueReader(new)
    BY <1>2, <2>2
  <2> HIDE DEF new
  <2>4. QED
    BY <2>1, <2>3, ReadingGoesOn
<1>5. CASE QueriesResults(r)
  <2> DEFINE new == [reader[r] EXCEPT !.pc = "reply", !.copy.results = job.results]
  <2>1. reader[r].pc = "results" /\ reader' = [reader EXCEPT ![r] = new]
        /\ UNCHANGED <<job, reopened, sent, wire, panel>>
    BY <1>1, <1>5 DEF QueriesResults
  <2>2. /\ new \in Reader /\ new.pc = "reply"
        /\ new.copy.status = reader[r].copy.status
        /\ new.copy.results = job.results
    BY <1>1 DEF Reader, Views
  <2> HIDE DEF new
  <2>3. TrueReader(new)
    BY <1>1, <2>1, <2>2 DEF TrueReader, TrueView, WholeView
  <2>4. QED
    BY <2>1, <2>2, <2>3, ReadingGoesOn
<1>6. QED
  BY <1>3, <1>4, <1>5

(* A payload leaves for the panel.                                         *)
LEMMA PayloadLeaves ==
  ASSUME StreamInv, NEW r \in Readers, reader[r].pc = "reply",
         NEW new \in Reader, TrueReader(new),
         reader' = [reader EXCEPT ![r] = new],
         wire' = [wire EXCEPT ![r] = reader[r].copy], sent' \in Views,
         UNCHANGED <<job, reopened, panel>>
  PROVE  StreamInv'
<1>1. /\ reader' \in [Readers -> Reader] /\ ReadersTrue'
      /\ \A view : /\ TrueView(view) => TrueView(view)'
                   /\ WholeView(view) => WholeView(view)'
  BY ReaderMoves
<1>2. /\ wire \in [Readers -> Views] /\ reader[r].copy \in Views
      /\ TrueView(reader[r].copy) /\ WholeView(reader[r].copy)
  BY DEF StreamInv, StreamShape, Reader, ReadersTrue, TrueReader
<1>3. wire' \in [Readers -> Views]
  BY <1>2
<1>4. \A q \in Readers : TrueView(wire'[q]) /\ WholeView(wire'[q])
  BY <1>2 DEF StreamInv, ViewsTrue
<1>5. ViewsTrue'
  BY <1>1, <1>4 DEF StreamInv, ViewsTrue
<1>6. AtRest'
  BY DEF StreamInv, AtRest, Waiting, ShowsFinal
<1>7. QED
  BY <1>1, <1>3, <1>5, <1>6 DEF StreamInv, StreamShape

LEMMA ReplyStep ==
  ASSUME StreamInv, StreamSends \/ \E f \in Fetches : FetchReplies(f)
  PROVE  StreamInv'
<1>1. \A r \in Readers : reader[r] \in Reader /\ reader[r].copy \in Views
  BY DEF StreamInv, StreamShape, Reader
<1>2. Closed \in Reader /\ TrueReader(Closed)
  BY NothingTyped DEF Closed, Reader, TrueReader
<1>3. ASSUME NEW r \in Readers
      PROVE  /\ [reader[r] EXCEPT !.pc = "find"] \in Reader
             /\ TrueReader([reader[r] EXCEPT !.pc = "find"])
  <2>1. /\ [reader[r] EXCEPT !.pc = "find"] \in Reader
        /\ [reader[r] EXCEPT !.pc = "find"].pc = "find"
    BY <1>1 DEF Reader
  <2>2. QED
    BY <2>1 DEF TrueReader
<1>4. CASE StreamSends
  <2>1. "stream" \in Readers /\ reader["stream"].pc = "reply"
    BY <1>4 DEF StreamSends, Readers
  <2>2. CASE /\ reader' = [reader EXCEPT !["stream"].pc = "find"]
             /\ UNCHANGED <<sent, wire>>
    <3>1. /\ reader' = [reader EXCEPT !["stream"] = [reader["stream"] EXCEPT !.pc = "find"]]
          /\ UNCHANGED <<job, reopened, sent, wire, panel>>
      BY <1>4, <2>2 DEF StreamSends
    <3>2. QED
      BY <1>3, <2>1, <3>1, ReadingGoesOn
  <2>3. ASSUME NEW new \in {Closed, [reader["stream"] EXCEPT !.pc = "find"]},
               reader' = [reader EXCEPT !["stream"] = new],
               wire' = [wire EXCEPT !["stream"] = reader["stream"].copy],
               sent' = reader["stream"].copy
        PROVE  StreamInv'
    <3>1. new \in Reader /\ TrueReader(new)
      BY <1>2, <1>3, <2>1, <2>3
    <3>2. UNCHANGED <<job, reopened, panel>> /\ sent' \in Views
      BY <1>1, <1>4, <2>1, <2>3 DEF StreamSends
    <3>3. QED
      BY <2>1, <2>3, <3>1, <3>2, PayloadLeaves
  <2>4. QED
    BY <1>4, <2>2, <2>3 DEF StreamSends
<1>5. ASSUME NEW f \in Fetches, FetchReplies(f) PROVE StreamInv'
  <2>1. /\ f \in Readers /\ reader[f].pc = "reply"
        /\ wire' = [wire EXCEPT ![f] = reader[f].copy]
        /\ reader' = [reader EXCEPT ![f] = Closed]
        /\ UNCHANGED <<job, reopened, panel>> /\ sent' \in Views
    BY <1>5 DEF FetchReplies, Readers, StreamInv, StreamShape
  <2>2. QED
    BY <1>2, <2>1, PayloadLeaves
<1>6. QED
  BY <1>4, <1>5

(* The panel begins to follow, or asks again.                              *)
LEMMA AskStep ==
  ASSUME StreamInv, Follow \/ \E f \in Fetches : Refresh(f)
  PROVE  StreamInv'
<1>1. CASE Follow
  <2> DEFINE new == IF job.status = "gone" THEN Closed
                    ELSE [reader["stream"] EXCEPT !.pc = "find"]
  <2>1. "stream" \in Readers /\ reader["stream"] \in Reader
    BY DEF StreamInv, StreamShape, Readers
  <2>2. Closed \in Reader /\ TrueReader(Closed)
    BY NothingTyped DEF Closed, Reader, TrueReader
  <2>3. /\ [reader["stream"] EXCEPT !.pc = "find"] \in Reader
        /\ [reader["stream"] EXCEPT !.pc = "find"].pc = "find"
    BY <2>1 DEF Reader
  <2>4. new \in Reader /\ TrueReader(new)
    BY <2>2, <2>3 DEF TrueReader
  <2>5. reader' = [reader EXCEPT !["stream"] = new]
        /\ UNCHANGED <<job, reopened, sent, wire>>
    BY <1>1 DEF Follow
  <2> HIDE DEF new
  <2>6. /\ reader' \in [Readers -> Reader] /\ ReadersTrue'
        /\ \A view : /\ TrueView(view) => TrueView(view)'
                     /\ WholeView(view) => WholeView(view)'
    BY <2>1, <2>4, <2>5, ReaderMoves
  <2>7. StreamShape'
    BY <1>1, <2>5, <2>6 DEF StreamInv, StreamShape, Follow
  <2>8. panel'.streaming /\ panel'.shown = panel.shown
    BY <1>1 DEF StreamInv, StreamShape, Follow
  <2>9. ViewsTrue' /\ AtRest'
    BY <2>5, <2>6, <2>8 DEF StreamInv, ViewsTrue, AtRest, Waiting
  <2>10. QED
    BY <2>5, <2>6, <2>7, <2>9 DEF StreamInv
<1>2. ASSUME NEW f \in Fetches, Refresh(f) PROVE StreamInv'
  <2>1. f \in Readers /\ reader[f] \in Reader
    BY DEF StreamInv, StreamShape, Readers
  <2>2. /\ [reader[f] EXCEPT !.pc = "find"] \in Reader
        /\ [reader[f] EXCEPT !.pc = "find"].pc = "find"
    BY <2>1 DEF Reader
  <2>3. TrueReader([reader[f] EXCEPT !.pc = "find"])
    BY <2>2 DEF TrueReader
  <2>4. /\ reader' = [reader EXCEPT ![f] = [reader[f] EXCEPT !.pc = "find"]]
        /\ UNCHANGED <<job, reopened, sent, wire, panel>>
    BY <1>2, <2>1 DEF Refresh, StreamInv, StreamShape
  <2>5. Waiting \/ panel.shown # Nothing
    BY <1>2, NothingTyped DEF Refresh, Waiting
  <2>6. QED
    BY <2>1, <2>2, <2>3, <2>4, <2>5, ReadingGoesOn
<1>3. QED
  BY <1>1, <1>2

(* The panel is updated, its stream ends, or it is closed.                 *)
LEMMA PanelStep ==
  ASSUME StreamInv, StreamEnded \/ Leave \/ \E r \in Readers : OnUpdate(r)
  PROVE  StreamInv'
<1>1. UNCHANGED <<job, reopened, reader, sent>>
  BY DEF StreamEnded, Leave, OnUpdate
<1>2. \A view : /\ TrueView(view) => TrueView(view)'
                /\ WholeView(view) => WholeView(view)'
  BY <1>1 DEF TrueView, WholeView
<1>3. ReadersTrue'
  BY <1>1, <1>2 DEF StreamInv, ReadersTrue, TrueReader
<1>4. panel \in [shown : Views, streaming : BOOLEAN, timer : BOOLEAN,
                 left : BOOLEAN, overtaken : BOOLEAN]
  BY DEF StreamInv, StreamShape
<1>5. CASE StreamEnded
  <2>1. /\ wire' = wire /\ panel'.shown = panel.shown
        /\ panel'.timer = ~ShowsFinal
        /\ panel' \in [shown : Views, streaming : BOOLEAN, timer : BOOLEAN,
                       left : BOOLEAN, overtaken : BOOLEAN]
    BY <1>4, <1>5 DEF StreamEnded, ShowsFinal
  <2>2. AtRest'
    BY <2>1, NothingTyped DEF AtRest, Waiting, ShowsFinal
  <2>3. ViewsTrue'
    BY <1>2, <2>1 DEF StreamInv, ViewsTrue
  <2>4. QED
    BY <1>1, <1>3, <2>1, <2>2, <2>3 DEF StreamInv, StreamShape
<1>6. CASE Leave
  <2>1. /\ wire' = wire /\ panel'.shown = panel.shown /\ panel'.left
        /\ panel' \in [shown : Views, streaming : BOOLEAN, timer : BOOLEAN,
                       left : BOOLEAN, overtaken : BOOLEAN]
    BY <1>4, <1>6 DEF Leave
  <2>2. AtRest' /\ ViewsTrue'
    BY <1>2, <2>1 DEF AtRest, Waiting, StreamInv, ViewsTrue
  <2>3. QED
    BY <1>1, <1>3, <2>1, <2>2 DEF StreamInv, StreamShape
<1>7. ASSUME NEW r \in Readers, OnUpdate(r) PROVE StreamInv'
  <2>1. wire \in [Readers -> Views] /\ wire[r] \in Views
    BY DEF StreamInv, StreamShape
  <2>2. /\ wire[r] # Nothing /\ wire' = [wire EXCEPT ![r] = Nothing]
        /\ panel'.shown = wire[r] /\ panel'.streaming = panel.streaming
        /\ panel'.left = panel.left
        /\ panel'.timer = (panel.timer /\ wire[r].status \notin Final)
        /\ panel'.overtaken = (panel.overtaken \/ (ShowsFinal /\ wire[r].status \notin Final))
    BY <1>4, <1>7 DEF OnUpdate
  <2>3. panel' \in [shown : Views, streaming : BOOLEAN, timer : BOOLEAN,
                    left : BOOLEAN, overtaken : BOOLEAN]
    BY <1>4, <1>7, <2>1 DEF OnUpdate
  <2>4. wire' \in [Readers -> Views]
    BY <2>1, <2>2, NothingTyped
  <2>5. TrueView(Nothing) /\ WholeView(Nothing)
    BY NothingTyped DEF TrueView, WholeView
  <2>6. ViewsTrue'
    BY <1>2, <2>1, <2>2, <2>5 DEF StreamInv, ViewsTrue
  <2>7. AtRest'
    BY <2>2 DEF StreamInv, AtRest, Waiting, ShowsFinal
  <2>8. QED
    BY <1>1, <1>3, <2>3, <2>4, <2>6, <2>7 DEF StreamInv, StreamShape
<1>8. QED
  BY <1>5, <1>6, <1>7

LEMMA StreamInvStep == StreamInv /\ [StreamNext]_streamVars => StreamInv'
<1> SUFFICES ASSUME StreamInv, [StreamNext]_streamVars PROVE StreamInv'
  OBVIOUS
<1>1. CASE UNCHANGED streamVars
  BY <1>1 DEF streamVars, StreamInv, StreamShape, ReadersTrue, TrueReader,
     ViewsTrue, TrueView, WholeView, AtRest, Waiting, ShowsFinal
<1>2. QED
  BY <1>1, JobStep, QueryStep, ReplyStep, AskStep, PanelStep DEF StreamNext

LEMMA StreamInvariance == StreamSpec => []StreamInv
BY StreamInvInit, StreamInvStep, PTL DEF StreamSpec

(* The job, its readers and its panel keep their types.                    *)
THEOREM StreamTyped == StreamSpec => []StreamTypeOK
<1>1. StreamInv => StreamTypeOK
  BY DEF StreamInv, StreamShape, StreamTypeOK, Reader, Views
<1>2. QED
  BY <1>1, StreamInvariance, PTL

(* SearchQueries::get reads the results after the status: a completed job  *)
(* is shown with them, however many readings overlap.                      *)
THEOREM ShownWhole == StreamSpec => []CompletedIsShownWhole
<1>1. StreamInv => CompletedIsShownWhole
  BY DEF StreamInv, ViewsTrue, WholeView, CompletedIsShownWhole
<1>2. QED
  BY <1>1, StreamInvariance, PTL

(* RunPanel.vue stops following only when it shows how the job ended: it   *)
(* goes on to poll after whatever ended its stream.                        *)
THEOREM QuietIsRight == StreamSpec => []QuietPanelIsRight
<1>1. StreamInv => QuietPanelIsRight
  <2> SUFFICES ASSUME StreamInv, Quiet, ~panel.overtaken
               PROVE  /\ ShowsFinal
                      /\ job.status \in {panel.shown.status, "gone"} \/ reopened
    BY DEF QuietPanelIsRight
  <2>1. ShowsFinal
    BY DEF StreamInv, AtRest, Waiting, Quiet
  <2>2. QED
    BY <2>1 DEF StreamInv, ViewsTrue, TrueView, ShowsFinal
<1>2. QED
  BY <1>1, StreamInvariance, PTL
-----------------------------------------------------------------------------
(* RateLimiter, for every limit, window, clock and number of replicas.     *)
(* What is kept of a client's requests: for each age of the window, how    *)
(* many it made in that time.                                              *)

Histories ==
  {h \in [Ages -> [asked : Nat, passed : Nat]] :
     /\ \A a \in Ages : h[a].passed <= h[a].asked
     /\ \A a, b \in Ages : a <= b => /\ h[a].asked <= h[b].asked
                                     /\ h[a].passed <= h[b].passed}

Older(h) == [a \in Ages |-> IF a = 1 THEN NoRequest ELSE h[a - 1]]

Extended(h, n) ==
  [a \in Ages |-> [asked |-> h[a].asked + 1, passed |-> h[a].passed + n]]

(* A window that began `age' instants ago has counted at least what passed *)
(* in it, and before it not more passed than one limit.                    *)
Counts(h, age, count) ==
  /\ age \in 0..(Window - 1) /\ count \in Nat
  /\ count <= h[age + 1].asked
  /\ h[age + 1].passed <= count /\ h[age + 1].passed <= Limit
  /\ h[Window].passed - h[age + 1].passed <= Limit

(* The client has no window.                                               *)
Uncounted(h) == h[Window].passed <= Limit /\ h[1].passed = 0

LEMMA AgesOfWindow ==
  /\ Window \in Nat /\ Window >= 1 /\ Limit \in Nat
  /\ 1 \in Ages /\ Window \in Ages
  /\ \A age \in 0..(Window - 1) : age + 1 \in Ages
  /\ \A a \in Ages : a \in Nat /\ 1 <= a /\ a <= Window
  /\ \A a \in Ages : a # 1 => a - 1 \in Ages
BY WindowHasTime DEF Ages

LEMMA HistoryFields ==
  ASSUME NEW h \in Histories
  PROVE  /\ h \in [Ages -> [asked : Nat, passed : Nat]]
         /\ \A a \in Ages : /\ h[a].asked \in Nat /\ h[a].passed \in Nat
                            /\ h[a].passed <= h[a].asked
         /\ \A a, b \in Ages : a <= b => /\ h[a].asked <= h[b].asked
                                         /\ h[a].passed <= h[b].passed
BY DEF Histories

LEMMA OlderTyped ==
  ASSUME NEW h \in Histories
  PROVE  /\ Older(h) \in Histories /\ Older(h)[1] = NoRequest
         /\ \A a \in Ages : a # 1 => Older(h)[a] = h[a - 1]
<1>1. NoRequest \in [asked : Nat, passed : Nat]
      /\ NoRequest.asked = 0 /\ NoRequest.passed = 0
  BY DEF NoRequest
<1>2. /\ Older(h)[1] = NoRequest
      /\ \A a \in Ages : a # 1 => Older(h)[a] = h[a - 1]
  BY AgesOfWindow DEF Older
<1>3. Older(h) \in [Ages -> [asked : Nat, passed : Nat]]
  <2>1. \A a \in Ages : (IF a = 1 THEN NoRequest ELSE h[a - 1]) \in [asked : Nat, passed : Nat]
    BY <1>1, AgesOfWindow, HistoryFields
  <2>2. QED
    BY <2>1 DEF Older
<1>4. \A a \in Ages : Older(h)[a].passed <= Older(h)[a].asked
  BY <1>1, <1>2, AgesOfWindow, HistoryFields
<1>5. ASSUME NEW a \in Ages, NEW b \in Ages, a <= b
      PROVE  /\ Older(h)[a].asked <= Older(h)[b].asked
             /\ Older(h)[a].passed <= Older(h)[b].passed
  <2>1. CASE a = 1
    <3>1. Older(h)[b].asked \in Nat /\ Older(h)[b].passed \in Nat
      BY <1>3
    <3>2. QED
      BY <1>1, <1>2, <2>1, <3>1
  <2>2. CASE a # 1
    <3>1. b # 1 /\ a - 1 \in Ages /\ b - 1 \in Ages /\ a - 1 <= b - 1
      BY <1>5, <2>2, AgesOfWindow
    <3>2. QED
      BY <1>2, <2>2, <3>1, HistoryFields
  <2>3. QED
    BY <2>1, <2>2
<1>6. QED
  BY <1>2, <1>3, <1>4, <1>5 DEF Histories

LEMMA ExtendedTyped ==
  ASSUME NEW h \in Histories, NEW n \in {0, 1}
  PROVE  /\ Extended(h, n) \in Histories
         /\ \A a \in Ages :
              /\ Extended(h, n)[a].asked = h[a].asked + 1
              /\ Extended(h, n)[a].passed = h[a].passed + n
<1>1. \A a \in Ages :
        /\ Extended(h, n)[a].asked = h[a].asked + 1
        /\ Extended(h, n)[a].passed = h[a].passed + n
  BY DEF Extended
<1>2. Extended(h, n) \in [Ages -> [asked : Nat, passed : Nat]]
  BY HistoryFields DEF Extended
<1>3. \A a \in Ages : Extended(h, n)[a].passed <= Extended(h, n)[a].asked
  BY <1>1, HistoryFields
<1>4. ASSUME NEW a \in Ages, NEW b \in Ages, a <= b
      PROVE  /\ Extended(h, n)[a].asked <= Extended(h, n)[b].asked
             /\ Extended(h, n)[a].passed <= Extended(h, n)[b].passed
  BY <1>1, <1>4, HistoryFields
<1>5. QED
  BY <1>1, <1>2, <1>3, <1>4 DEF Histories

(* A window goes on, ends, or begins.                                      *)
LEMMA WindowAges ==
  ASSUME NEW h \in Histories, NEW age, NEW count, Counts(h, age, count)
  PROVE  /\ age + 1 < Window => Counts(Older(h), age + 1, count)
         /\ age + 1 = Window => Uncounted(Older(h))
<1>1. /\ age \in 0..(Window - 1) /\ count \in Nat /\ age + 1 \in Ages
      /\ count <= h[age + 1].asked
      /\ h[age + 1].passed <= count /\ h[age + 1].passed <= Limit
      /\ h[Window].passed - h[age + 1].passed <= Limit
  BY AgesOfWindow DEF Counts
<1>2. Window # 1 => /\ Older(h)[Window] = h[Window - 1] /\ Window - 1 \in Ages
                    /\ h[Window - 1].passed <= h[Window].passed
                    /\ h[Window - 1].passed \in Nat
  BY AgesOfWindow, OlderTyped, HistoryFields
<1>3. h[Window].passed \in Nat /\ h[age + 1].passed \in Nat
  BY <1>1, AgesOfWindow, HistoryFields
<1>4. ASSUME age + 1 < Window PROVE Counts(Older(h), age + 1, count)
  <2>1. /\ age + 1 \in 0..(Window - 1) /\ age + 2 \in Ages /\ age + 2 # 1
        /\ Window # 1 /\ (age + 1) + 1 = age + 2 /\ (age + 2) - 1 = age + 1
    BY <1>1, <1>4, AgesOfWindow DEF Ages
  <2>2. Older(h)[(age + 1) + 1] = h[age + 1]
    BY <2>1, OlderTyped
  <2>3. Older(h)[Window].passed - h[age + 1].passed <= Limit
    BY <1>1, <1>2, <1>3, <2>1, AgesOfWindow
  <2>4. QED
    BY <1>1, <2>1, <2>2, <2>3 DEF Counts
<1>5. ASSUME age + 1 = Window PROVE Uncounted(Older(h))
  <2>1. Older(h)[1].passed = 0
    BY OlderTyped DEF NoRequest
  <2>2. Older(h)[Window].passed <= Limit
    <3>1. CASE Window = 1
      BY <2>1, <3>1, AgesOfWindow
    <3>2. CASE Window # 1
      BY <1>1, <1>2, <1>3, <1>5, <3>2, AgesOfWindow
    <3>3. QED
      BY <3>1, <3>2
  <2>3. QED
    BY <2>1, <2>2 DEF Uncounted
<1>6. QED
  BY <1>4, <1>5

LEMMA UncountedAges ==
  ASSUME NEW h \in Histories, Uncounted(h)
  PROVE  Uncounted(Older(h)) /\ Counts(h, 0, 0)
<1>1. Older(h)[1].passed = 0
  BY OlderTyped DEF NoRequest
<1>2. Older(h)[Window].passed <= Limit
  <2>1. CASE Window = 1
    BY <1>1, <2>1, AgesOfWindow
  <2>2. CASE Window # 1
    <3>1. /\ Older(h)[Window] = h[Window - 1]
          /\ h[Window - 1].passed <= h[Window].passed
          /\ h[Window - 1].passed \in Nat /\ h[Window].passed \in Nat
      BY <2>2, AgesOfWindow, OlderTyped, HistoryFields
    <3>2. QED
      BY <3>1, AgesOfWindow DEF Uncounted
  <2>3. QED
    BY <2>1, <2>2
<1>3. Counts(h, 0, 0)
  <2>1. /\ 0 \in 0..(Window - 1) /\ h[0 + 1] = h[1] /\ h[1].asked \in Nat
        /\ h[Window].passed \in Nat
    BY AgesOfWindow, HistoryFields
  <2>2. QED
    BY <2>1, AgesOfWindow DEF Counts, Uncounted
<1>4. QED
  BY <1>1, <1>2, <1>3 DEF Uncounted

(* One more request: let through within the limit, refused beyond it, or   *)
(* let through without being counted.                                      *)
LEMMA WindowCounts ==
  ASSUME NEW h \in Histories, NEW age, NEW count, Counts(h, age, count),
         NEW n \in {0, 1}
  PROVE  /\ n = 0 \/ count + 1 <= Limit => Counts(Extended(h, n), age, count + 1)
         /\ n = 0 => Counts(Extended(h, n), age, count)
         /\ count + 1 <= Extended(h, n)[Window].asked
<1>1. /\ age \in 0..(Window - 1) /\ count \in Nat /\ age + 1 \in Ages
      /\ count <= h[age + 1].asked
      /\ h[age + 1].passed <= count /\ h[age + 1].passed <= Limit
      /\ h[Window].passed - h[age + 1].passed <= Limit
  BY AgesOfWindow DEF Counts
<1>2. /\ h[Window].passed \in Nat /\ h[age + 1].passed \in Nat
      /\ h[Window].asked \in Nat /\ h[age + 1].asked \in Nat
      /\ h[age + 1].asked <= h[Window].asked
  BY <1>1, AgesOfWindow, HistoryFields
<1>3. /\ Extended(h, n)[age + 1].asked = h[age + 1].asked + 1
      /\ Extended(h, n)[Window].asked = h[Window].asked + 1
      /\ Extended(h, n)[age + 1].passed = h[age + 1].passed + n
      /\ Extended(h, n)[Window].passed = h[Window].passed + n
  BY <1>1, AgesOfWindow, ExtendedTyped
<1>4. ASSUME n = 0 \/ count + 1 <= Limit
      PROVE  Counts(Extended(h, n), age, count + 1)
  BY <1>1, <1>2, <1>3, <1>4, AgesOfWindow DEF Counts
<1>5. ASSUME n = 0 PROVE Counts(Extended(h, n), age, count)
  BY <1>1, <1>2, <1>3, <1>5, AgesOfWindow DEF Counts
<1>6. QED
  BY <1>1, <1>2, <1>3, <1>4, <1>5
-----------------------------------------------------------------------------
(* The inductive invariant: the history of a client with a window agrees   *)
(* with its count, that of a client without one begins anew.               *)

WindowOf == [start : Nat, count : Nat]

RlShape ==
  /\ clock \in 0..MaxClock /\ backend \in {"memory", "redis"}
  /\ hits = [r \in Replicas |-> hits[r]]
  /\ \A r \in Replicas :
       /\ DOMAIN hits[r] \subseteq Clients
       /\ \A c \in DOMAIN hits[r] :
            /\ hits[r][c].start \in Nat /\ hits[r][c].start <= clock
            /\ hits[r][c].count \in Nat
  /\ counters \in [Clients -> [bucket : Int, count : Nat]]
  /\ \A c \in Clients : counters[c].bucket <= Bucket
  /\ recent \in [Limiters -> [Clients -> Histories]]

InMemory ==
  \A r \in Replicas, c \in Clients :
    IF c \in Unexpired(r)
    THEN Counts(recent[r][c], clock - hits[r][c].start, hits[r][c].count)
    ELSE Uncounted(recent[r][c])

BucketAge == clock - Window * Bucket

InRedis == \A c \in Clients : Counts(recent["redis"][c], BucketAge, Count(c))

VerdictTrue ==
  /\ verdict.by \in Limiters /\ verdict.client \in Clients
  /\ RefusedOnlyWhenOver

RlInv == RlShape /\ InMemory /\ InRedis /\ VerdictTrue

LEMMA Buckets ==
  ASSUME clock \in Nat
  PROVE  Bucket \in Nat /\ BucketAge \in 0..(Window - 1)
<1>1. Window \in Nat /\ Window > 0
  BY WindowHasTime
<1>2. QED
  BY <1>1 DEF Bucket, BucketAge

LEMMA BucketsTick ==
  ASSUME clock \in Nat, clock' = clock + 1
  PROVE  \/ /\ Bucket' = Bucket /\ BucketAge' = BucketAge + 1
            /\ BucketAge + 1 < Window
         \/ Bucket' = Bucket + 1 /\ BucketAge' = 0 /\ BucketAge + 1 = Window
<1>1. Window \in Nat /\ Window > 0
  BY WindowHasTime
<1>2. QED
  BY <1>1 DEF Bucket, BucketAge

LEMMA NoHistory ==
  LET none == [a \in Ages |-> NoRequest]
  IN  none \in Histories /\ Uncounted(none)
<1> DEFINE none == [a \in Ages |-> NoRequest]
<1>1. NoRequest \in [asked : Nat, passed : Nat]
      /\ NoRequest.asked = 0 /\ NoRequest.passed = 0
  BY DEF NoRequest
<1>2. \A a \in Ages : none[a] = NoRequest
  OBVIOUS
<1>3. none \in [Ages -> [asked : Nat, passed : Nat]]
  BY <1>1
<1>4. none \in Histories
  BY <1>1, <1>2, <1>3 DEF Histories
<1>5. Uncounted(none)
  BY <1>1, <1>2, AgesOfWindow DEF Uncounted
<1>6. QED
  BY <1>4, <1>5

LEMMA RlInvInit == RlInit => RlInv
<1> SUFFICES ASSUME RlInit PROVE RlInv
  OBVIOUS
<1> DEFINE none == [a \in Ages |-> NoRequest]
<1>1. none \in Histories /\ Uncounted(none) /\ Counts(none, 0, 0)
  BY NoHistory, UncountedAges
<1>2. \A l \in Limiters, c \in Clients : recent[l][c] = none
  BY DEF RlInit
<1>3. recent \in [Limiters -> [Clients -> Histories]]
  BY <1>1 DEF RlInit
<1> HIDE DEF none
<1>4. clock = 0 /\ Bucket = 0 /\ BucketAge = 0
  BY WindowHasTime DEF RlInit, Bucket, BucketAge
<1>5. /\ \A c \in Clients : counters[c].bucket = -1 /\ Count(c) = 0
      /\ counters \in [Clients -> [bucket : Int, count : Nat]]
  BY <1>4 DEF RlInit, Count
<1>6. /\ \A r \in Replicas : DOMAIN hits[r] = {} /\ Unexpired(r) = {}
      /\ hits = [r \in Replicas |-> hits[r]]
  BY DEF RlInit, Unexpired
<1>7. RlShape
  BY <1>3, <1>4, <1>5, <1>6, BoundsAreNats DEF RlInit, RlShape
<1>8. InMemory
  BY <1>1, <1>2, <1>6 DEF InMemory, Limiters
<1>9. InRedis
  BY <1>1, <1>2, <1>4, <1>5 DEF InRedis, Limiters
<1>10. VerdictTrue
  BY DEF RlInit, VerdictTrue, RefusedOnlyWhenOver, NoVerdict, Limiters, Clients
<1>11. QED
  BY <1>7, <1>8, <1>9, <1>10 DEF RlInv

(* An instant passes.                                                      *)
LEMMA TickInv ==
  ASSUME RlInv, ClockTicks
  PROVE  RlInv'
<1>1. /\ clock \in Nat /\ clock' = clock + 1 /\ clock' \in 0..MaxClock
      /\ UNCHANGED <<backend, hits, counters>>
  BY BoundsAreNats DEF RlInv, RlShape, ClockTicks
<1>2. \A l \in Limiters, c \in Clients : recent[l][c] \in Histories
  BY DEF RlInv, RlShape
<1>3. \A l \in Limiters, c \in Clients : recent'[l][c] = Older(recent[l][c])
  BY DEF ClockTicks, Older
<1>4. recent' \in [Limiters -> [Clients -> Histories]]
  <2>1. recent' = [l \in Limiters |-> [c \in Clients |-> Older(recent[l][c])]]
    BY DEF ClockTicks, Older
  <2>2. \A l \in Limiters, c \in Clients : Older(recent[l][c]) \in Histories
    BY <1>2, OlderTyped
  <2>3. QED
    BY <2>1, <2>2
<1>5. /\ Bucket \in Nat /\ BucketAge \in 0..(Window - 1)
      /\ \/ /\ Bucket' = Bucket /\ BucketAge' = BucketAge + 1
            /\ BucketAge + 1 < Window
         \/ Bucket' = Bucket + 1 /\ BucketAge' = 0 /\ BucketAge + 1 = Window
  BY <1>1, Buckets, BucketsTick
<1>6. RlShape'
  <2>1. \A r \in Replicas : \A c \in DOMAIN hits[r] : hits[r][c].start <= clock'
    BY <1>1 DEF RlInv, RlShape
  <2>2. \A c \in Clients : counters[c].bucket <= Bucket'
    <3>1. \A c \in Clients : counters[c].bucket \in Int /\ counters[c].bucket <= Bucket
      BY DEF RlInv, RlShape
    <3>2. QED
      BY <1>5, <3>1
  <2>3. QED
    BY <1>1, <1>4, <2>1, <2>2 DEF RlInv, RlShape
<1>7. ASSUME NEW r \in Replicas, NEW c \in Clients
      PROVE  IF c \in Unexpired(r)'
             THEN Counts(recent'[r][c], clock' - hits'[r][c].start, hits'[r][c].count)
             ELSE Uncounted(recent'[r][c])
  <2>1. r \in Limiters /\ recent[r][c] \in Histories
        /\ recent'[r][c] = Older(recent[r][c])
    BY <1>2, <1>3 DEF Limiters
  <2>2. CASE c \notin Unexpired(r)
    <3>1. c \notin Unexpired(r)'
      BY <1>1, <2>2, WindowHasTime DEF Unexpired, RlInv, RlShape
    <3>2. Uncounted(recent[r][c])
      BY <2>2 DEF RlInv, InMemory
    <3>3. QED
      BY <2>1, <3>1, <3>2, UncountedAges
  <2>3. CASE c \in Unexpired(r)
    <3>1. /\ c \in DOMAIN hits[r] /\ hits[r][c].start \in Nat
          /\ hits[r][c].start <= clock /\ clock - hits[r][c].start < Window
      BY <2>3 DEF Unexpired, RlInv, RlShape
    <3>2. PICK age \in Nat : age = clock - hits[r][c].start
      BY <1>1, <3>1
    <3>3. Counts(recent[r][c], age, hits[r][c].count)
      BY <2>3, <3>2 DEF RlInv, InMemory
    <3>4. clock' - hits'[r][c].start = age + 1
      BY <1>1, <3>1, <3>2
    <3>5. c \in Unexpired(r)' <=> age + 1 < Window
      BY <1>1, <3>1, <3>4 DEF Unexpired
    <3>6. ~(age + 1 < Window) => age + 1 = Window
      BY <3>1, <3>2, WindowHasTime
    <3>7. QED
      BY <1>1, <2>1, <3>3, <3>4, <3>5, <3>6, WindowAges
  <2>4. QED
    BY <2>2, <2>3
<1>8. ASSUME NEW c \in Clients
      PROVE  Counts(recent'["redis"][c], BucketAge', Count(c)')
  <2>1. /\ recent["redis"][c] \in Histories
        /\ recent'["redis"][c] = Older(recent["redis"][c])
        /\ Older(recent["redis"][c]) \in Histories
    BY <1>2, <1>3, OlderTyped DEF Limiters
  <2>2. Counts(recent["redis"][c], BucketAge, Count(c))
    BY DEF RlInv, InRedis
  <2>3. CASE /\ Bucket' = Bucket /\ BucketAge' = BucketAge + 1
             /\ BucketAge + 1 < Window
    <3>1. Count(c)' = Count(c)
      BY <1>1, <2>3 DEF Count
    <3>2. QED
      BY <2>1, <2>2, <2>3, <3>1, WindowAges
  <2>4. CASE Bucket' = Bucket + 1 /\ BucketAge' = 0 /\ BucketAge + 1 = Window
    <3>1. Count(c)' = 0
      <4>1. counters[c].bucket \in Int /\ counters[c].bucket <= Bucket
        BY DEF RlInv, RlShape
      <4>2. QED
        BY <1>1, <1>5, <2>4, <4>1 DEF Count
    <3>2. Uncounted(Older(recent["redis"][c]))
      BY <2>1, <2>2, <2>4, WindowAges
    <3>3. QED
      BY <2>1, <2>4, <3>1, <3>2, UncountedAges
  <2>5. QED
    BY <1>5, <2>3, <2>4
<1>9. VerdictTrue'
  BY DEF ClockTicks, VerdictTrue, RefusedOnlyWhenOver, NoVerdict, Limiters, Clients
<1>10. QED
  BY <1>6, <1>7, <1>8, <1>9 DEF RlInv, InMemory, InRedis

(* The history of one client is extended by an answer.                     *)
Extends(l, c, n) ==
  recent' = [recent EXCEPT ![l][c] = Extended(recent[l][c], n)]

LEMMA HistoryExtended ==
  ASSUME RlInv, NEW l \in Limiters, NEW c \in Clients, NEW n \in {0, 1},
         Extends(l, c, n)
  PROVE  /\ recent' \in [Limiters -> [Clients -> Histories]]
         /\ recent[l][c] \in Histories
         /\ recent'[l][c] = Extended(recent[l][c], n)
         /\ \A m \in Limiters, d \in Clients :
              m # l \/ d # c => recent'[m][d] = recent[m][d]
<1>1. recent \in [Limiters -> [Clients -> Histories]] /\ recent[l][c] \in Histories
  BY DEF RlInv, RlShape
<1>2. Extended(recent[l][c], n) \in Histories
  BY <1>1, ExtendedTyped
<1>3. QED
  BY <1>1, <1>2 DEF Extends

(* A request is answered from the count of its window.                     *)
LEMMA CountedAnswer ==
  ASSUME RlInv, NEW l \in Limiters, NEW c \in Clients, NEW count \in Nat,
         Answered(l, c, count + 1 <= Limit, count + 1 <= Limit)
  PROVE  /\ \E n \in {0, 1} :
              /\ n = 0 \/ count + 1 <= Limit
              /\ Extends(l, c, n)
         /\ verdict'.by = l /\ verdict'.client = c
         /\ ~verdict'.allowed => count + 1 > Limit
<1>1. PICK n \in {0, 1} : n = IF count + 1 <= Limit THEN 1 ELSE 0
  OBVIOUS
<1>2. n = 0 \/ count + 1 <= Limit
  BY <1>1
<1>3. Extends(l, c, n)
  BY <1>1 DEF RlInv, RlShape, Answered, Extended, Extends
<1>4. /\ verdict'.by = l /\ verdict'.client = c
      /\ ~verdict'.allowed => ~(count + 1 <= Limit)
  BY DEF Answered
<1>5. ~verdict'.allowed => count + 1 > Limit
  BY <1>4, AgesOfWindow
<1>6. \E m \in {0, 1} :
        /\ m = 0 \/ count + 1 <= Limit
        /\ Extends(l, c, m)
  BY <1>2, <1>3
<1>7. QED
  BY <1>4, <1>5, <1>6

(* An entry is counted up in a replica's memory.                           *)
LEMMA AllowAtInv ==
  ASSUME RlInv, NEW r \in Replicas, NEW c \in Clients, AllowAt(r, c),
         UNCHANGED <<clock, backend>>
  PROVE  RlInv'
<1> DEFINE kept == Unexpired(r)
           entry == IF c \in kept THEN hits[r][c] ELSE [start |-> clock, count |-> 0]
<1>1. /\ hits' = [hits EXCEPT ![r] = [d \in kept \cup {c} |->
           IF d = c THEN [start |-> entry.start, count |-> entry.count + 1]
           ELSE hits[r][d]]]
      /\ counters' = counters
      /\ Answered(r, c, entry.count + 1 <= Limit, entry.count + 1 <= Limit)
  BY DEF AllowAt, Hit
<1>2. /\ clock \in Nat /\ Limit \in Nat /\ Window \in Nat /\ Window >= 1
      /\ hits = [q \in Replicas |-> hits[q]]
      /\ \A q \in Replicas :
           /\ DOMAIN hits[q] \subseteq Clients
           /\ \A d \in DOMAIN hits[q] :
                /\ hits[q][d].start \in Nat /\ hits[q][d].start <= clock
                /\ hits[q][d].count \in Nat
  BY AgesOfWindow, BoundsAreNats DEF RlInv, RlShape
<1>3. /\ kept \subseteq DOMAIN hits[r]
      /\ entry.start \in Nat /\ entry.start <= clock /\ entry.count \in Nat
      /\ clock - entry.start < Window
  <2>1. CASE c \in kept
    BY <1>2, <2>1 DEF Unexpired
  <2>2. CASE c \notin kept
    BY <1>2, <2>2 DEF Unexpired
  <2>3. QED
    BY <2>1, <2>2
<1>4. Counts(recent[r][c], clock - entry.start, entry.count)
  <2>1. r \in Limiters /\ recent[r][c] \in Histories
    BY DEF RlInv, RlShape, Limiters
  <2>2. CASE c \in kept
    BY <2>2 DEF RlInv, InMemory
  <2>3. CASE c \notin kept
    <3>1. Uncounted(recent[r][c])
      BY <2>3 DEF RlInv, InMemory
    <3>2. clock - entry.start = 0 /\ entry.count = 0
      BY <1>2, <2>3
    <3>3. QED
      BY <2>1, <3>1, <3>2, UncountedAges
  <2>4. QED
    BY <2>2, <2>3
<1> HIDE DEF entry
<1>5. /\ hits' = [q \in Replicas |-> hits'[q]]
      /\ \A q \in Replicas \ {r} : hits'[q] = hits[q]
      /\ DOMAIN hits'[r] = kept \cup {c}
      /\ hits'[r][c].start = entry.start /\ hits'[r][c].count = entry.count + 1
      /\ \A d \in kept \ {c} : hits'[r][d] = hits[r][d]
  BY <1>1, <1>2
<1>6. /\ \A q \in Replicas \ {r} : Unexpired(q)' = Unexpired(q)
      /\ Unexpired(r)' = kept \cup {c}
  <2>1. \A d \in kept : clock - hits[r][d].start < Window
    BY DEF Unexpired
  <2>2. QED
    BY <1>3, <1>5, <2>1 DEF Unexpired
<1>7. r \in Limiters /\ "redis" \in Limiters /\ r # "redis"
      /\ recent[r][c] \in Histories
  BY RedisIsNoReplica DEF Limiters, RlInv, RlShape
<1>8. PICK n \in {0, 1} :
        /\ n = 0 \/ entry.count + 1 <= Limit
        /\ Extends(r, c, n)
  BY <1>1, <1>3, <1>7, CountedAnswer
<1>9. /\ recent' \in [Limiters -> [Clients -> Histories]]
      /\ \A m \in Limiters, d \in Clients :
           m # r \/ d # c => recent'[m][d] = recent[m][d]
      /\ Counts(recent'[r][c], clock - entry.start, entry.count + 1)
      /\ entry.count + 1 <= recent'[r][c][Window].asked
  <2>1. /\ recent' \in [Limiters -> [Clients -> Histories]]
        /\ recent'[r][c] = Extended(recent[r][c], n)
        /\ \A m \in Limiters, d \in Clients :
             m # r \/ d # c => recent'[m][d] = recent[m][d]
    BY <1>7, <1>8, HistoryExtended
  <2>2. /\ Counts(Extended(recent[r][c], n), clock - entry.start, entry.count + 1)
        /\ entry.count + 1 <= Extended(recent[r][c], n)[Window].asked
    BY <1>4, <1>7, <1>8, WindowCounts
  <2>3. QED
    BY <2>1, <2>2
<1>10. RlShape'
  <2>1. \A q \in Replicas :
          /\ DOMAIN hits'[q] \subseteq Clients
          /\ \A d \in DOMAIN hits'[q] :
               /\ hits'[q][d].start \in Nat /\ hits'[q][d].start <= clock
               /\ hits'[q][d].count \in Nat
    <3>1. ASSUME NEW q \in Replicas, q # r
          PROVE  /\ DOMAIN hits'[q] \subseteq Clients
                 /\ \A d \in DOMAIN hits'[q] :
                      /\ hits'[q][d].start \in Nat /\ hits'[q][d].start <= clock
                      /\ hits'[q][d].count \in Nat
      BY <1>2, <1>5, <3>1
    <3>2. /\ DOMAIN hits'[r] \subseteq Clients
          /\ \A d \in DOMAIN hits'[r] :
               /\ hits'[r][d].start \in Nat /\ hits'[r][d].start <= clock
               /\ hits'[r][d].count \in Nat
      BY <1>2, <1>3, <1>5
    <3>3. QED
      BY <3>1, <3>2
  <2>2. Bucket' = Bucket
    BY DEF Bucket
  <2>3. /\ clock' \in 0..MaxClock /\ backend' \in {"memory", "redis"}
        /\ counters' \in [Clients -> [bucket : Int, count : Nat]]
        /\ \A d \in Clients : counters'[d].bucket <= Bucket'
    BY <1>1, <2>2 DEF RlInv, RlShape
  <2>4. /\ hits' = [q \in Replicas |-> hits'[q]]
        /\ recent' \in [Limiters -> [Clients -> Histories]]
        /\ \A q \in Replicas : \A d \in DOMAIN hits'[q] : hits'[q][d].start <= clock'
    BY <1>5, <1>9, <2>1
  <2>5. QED
    BY <2>1, <2>3, <2>4 DEF RlShape
<1>11. InMemory'
  <2> SUFFICES ASSUME NEW q \in Replicas, NEW d \in Clients
               PROVE  IF d \in Unexpired(q)'
                      THEN Counts(recent'[q][d], clock - hits'[q][d].start, hits'[q][d].count)
                      ELSE Uncounted(recent'[q][d])
    BY DEF InMemory
  <2>1. IF d \in Unexpired(q)
        THEN Counts(recent[q][d], clock - hits[q][d].start, hits[q][d].count)
        ELSE Uncounted(recent[q][d])
    BY DEF RlInv, InMemory
  <2>2. CASE q = r /\ d = c
    BY <1>5, <1>6, <1>9, <2>2
  <2>3. CASE q # r \/ d # c
    <3>1. recent'[q][d] = recent[q][d]
      BY <1>9, <2>3 DEF Limiters
    <3>2. d \in Unexpired(q)' <=> d \in Unexpired(q)
      BY <1>6, <2>3
    <3>3. d \in Unexpired(q) => hits'[q][d] = hits[q][d]
      BY <1>5, <2>3
    <3>4. QED
      BY <2>1, <3>1, <3>2, <3>3
  <2>4. QED
    BY <2>2, <2>3
<1>12. InRedis'
  <2>1. BucketAge' = BucketAge /\ \A d \in Clients : Count(d)' = Count(d)
    BY <1>1 DEF BucketAge, Bucket, Count
  <2>2. \A d \in Clients : recent'["redis"][d] = recent["redis"][d]
    BY <1>7, <1>9
  <2>3. QED
    BY <2>1, <2>2 DEF RlInv, InRedis
<1>13. VerdictTrue'
  <2>1. /\ verdict'.by = r /\ verdict'.client = c
        /\ ~verdict'.allowed => entry.count + 1 > Limit
    BY <1>1, <1>3, <1>7, CountedAnswer
  <2>2. recent'[r][c][Window].asked \in Nat
    BY <1>7, <1>9, AgesOfWindow, HistoryFields
  <2>3. ~verdict'.allowed => recent'[r][c][Window].asked > Limit
    BY <1>2, <1>3, <1>9, <2>1, <2>2
  <2>4. QED
    BY <1>7, <2>1, <2>3 DEF VerdictTrue, RefusedOnlyWhenOver
<1>14. QED
  BY <1>10, <1>11, <1>12, <1>13 DEF RlInv

(* The counter of a client in Redis is counted up, or a request is let     *)
(* through without it.                                                     *)
LEMMA RedisInv ==
  ASSUME RlInv, NEW c \in Clients, TryAllow(c) \/ FailOpen(c),
         UNCHANGED <<clock, backend>>
  PROVE  RlInv'
<1> DEFINE l == "redis"
<1>1. l \in Limiters /\ l \notin Replicas /\ recent[l][c] \in Histories
      /\ hits' = hits
  <2>1. l \in Limiters /\ l \notin Replicas
    BY RedisIsNoReplica DEF Limiters
  <2>2. recent[l][c] \in Histories
    BY <2>1 DEF RlInv, RlShape
  <2>3. hits' = hits
    BY DEF TryAllow, FailOpen
  <2>4. QED
    BY <2>1, <2>2, <2>3
<1> HIDE DEF l
<1>2. /\ Bucket' = Bucket /\ BucketAge' = BucketAge
      /\ Bucket \in Nat /\ Window \in Nat /\ Limit \in Nat
      /\ counters \in [Clients -> [bucket : Int, count : Nat]]
      /\ \A d \in Clients : counters[d].bucket <= Bucket /\ Count(d) \in Nat
  <2>1. /\ clock \in Nat /\ Window \in Nat /\ Limit \in Nat
        /\ counters \in [Clients -> [bucket : Int, count : Nat]]
        /\ \A d \in Clients : counters[d].bucket <= Bucket
    BY AgesOfWindow, BoundsAreNats DEF RlInv, RlShape
  <2>2. Bucket' = Bucket /\ BucketAge' = BucketAge
    BY DEF Bucket, BucketAge
  <2>3. Bucket \in Nat
    BY <2>1, Buckets
  <2>4. \A d \in Clients : Count(d) \in Nat
    BY <2>1 DEF Count
  <2>5. QED
    BY <2>1, <2>2, <2>3, <2>4
<1>3. /\ Incremented(c) \in [Clients -> [bucket : Int, count : Nat]]
      /\ Incremented(c)[c].bucket = Bucket /\ Incremented(c)[c].count = Count(c) + 1
      /\ \A d \in Clients \ {c} : Incremented(c)[d] = counters[d]
  BY <1>2 DEF Incremented
<1>4. /\ counters' \in {counters, Incremented(c)}
      /\ counters' \in [Clients -> [bucket : Int, count : Nat]]
      /\ \A d \in Clients : counters'[d].bucket <= Bucket
      /\ \A d \in Clients \ {c} : counters'[d] = counters[d]
      /\ counters' = Incremented(c) => Count(c)' = Count(c) + 1
      /\ counters' = counters => Count(c)' = Count(c)
      /\ \A d \in Clients \ {c} : Count(d)' = Count(d)
  <2>1. counters' \in {counters, Incremented(c)}
    BY DEF TryAllow, FailOpen
  <2>2. /\ counters' \in [Clients -> [bucket : Int, count : Nat]]
        /\ \A d \in Clients \ {c} : counters'[d] = counters[d]
        /\ counters'[c].bucket \in {counters[c].bucket, Bucket}
    BY <1>2, <1>3, <2>1
  <2>3. \A d \in Clients : counters'[d].bucket <= Bucket
    BY <1>2, <2>2
  <2>4. /\ counters' = Incremented(c) => Count(c)' = Count(c) + 1
        /\ counters' = counters => Count(c)' = Count(c)
        /\ \A d \in Clients \ {c} : Count(d)' = Count(d)
    BY <1>2, <1>3, <2>2 DEF Count
  <2>5. QED
    BY <2>1, <2>2, <2>3, <2>4
<1>5. Counts(recent[l][c], BucketAge, Count(c))
  BY DEF RlInv, InRedis, l
<1>6. PICK n \in {0, 1} :
        /\ Extends(l, c, n)
        /\ Counts(Extended(recent[l][c], n), BucketAge, Count(c)')
        /\ verdict'.by = l /\ verdict'.client = c
        /\ ~verdict'.allowed => Extended(recent[l][c], n)[Window].asked > Limit
  <2>1. CASE TryAllow(c)
    <3>1. /\ Answered(l, c, Count(c) + 1 <= Limit, Count(c) + 1 <= Limit)
          /\ Count(c)' = Count(c) + 1 /\ Count(c) \in Nat
      BY <1>2, <1>4, <2>1 DEF TryAllow, l
    <3>2. /\ verdict'.by = l /\ verdict'.client = c
          /\ ~verdict'.allowed => Count(c) + 1 > Limit
      BY <1>1, <3>1, CountedAnswer
    <3>3. PICK n \in {0, 1} :
            /\ n = 0 \/ Count(c) + 1 <= Limit
            /\ Extends(l, c, n)
      BY <1>1, <3>1, CountedAnswer
    <3>4. /\ Counts(Extended(recent[l][c], n), BucketAge, Count(c) + 1)
          /\ Count(c) + 1 <= Extended(recent[l][c], n)[Window].asked
      BY <1>1, <1>5, <3>3, WindowCounts
    <3>5. Extended(recent[l][c], n)[Window].asked \in Nat
      BY <1>1, AgesOfWindow, ExtendedTyped, HistoryFields
    <3>6. ~verdict'.allowed => Extended(recent[l][c], n)[Window].asked > Limit
      BY <1>2, <3>1, <3>2, <3>4, <3>5
    <3>7. QED
      BY <3>1, <3>2, <3>3, <3>4, <3>6
  <2>2. CASE FailOpen(c)
    <3>1. Answered(l, c, TRUE, FALSE)
      BY <2>2 DEF FailOpen, l
    <3>2. Extends(l, c, 0)
      BY <3>1 DEF RlInv, RlShape, Answered, Extended, Extends
    <3>3. verdict'.by = l /\ verdict'.client = c /\ verdict'.allowed
      BY <3>1 DEF Answered
    <3>4. /\ Counts(Extended(recent[l][c], 0), BucketAge, Count(c))
          /\ Counts(Extended(recent[l][c], 0), BucketAge, Count(c) + 1)
      BY <1>1, <1>5, WindowCounts
    <3>5. Counts(Extended(recent[l][c], 0), BucketAge, Count(c)')
      BY <1>4, <3>4
    <3>6. QED
      BY <3>2, <3>3, <3>5
  <2>3. QED
    BY <2>1, <2>2
<1>7. /\ recent' \in [Limiters -> [Clients -> Histories]]
      /\ recent'[l][c] = Extended(recent[l][c], n)
      /\ \A m \in Limiters, d \in Clients :
           m # l \/ d # c => recent'[m][d] = recent[m][d]
  BY <1>1, <1>6, HistoryExtended
<1>8. RlShape'
  BY <1>1, <1>2, <1>4, <1>7 DEF RlInv, RlShape
<1>9. InMemory'
  <2>1. /\ \A r \in Replicas : Unexpired(r)' = Unexpired(r)
        /\ \A r \in Replicas, d \in Clients : recent'[r][d] = recent[r][d]
    BY <1>1, <1>7 DEF Unexpired, Limiters
  <2>2. QED
    BY <1>1, <2>1 DEF RlInv, InMemory
<1>10. InRedis'
  <2>1. ASSUME NEW d \in Clients
        PROVE  Counts(recent'[l][d], BucketAge, Count(d)')
    <3>1. CASE d = c
      BY <1>6, <1>7, <3>1
    <3>2. CASE d # c
      BY <1>1, <1>4, <1>7, <3>2 DEF RlInv, InRedis, l
    <3>3. QED
      BY <3>1, <3>2
  <2>2. QED
    BY <1>2, <2>1 DEF InRedis, l
<1>11. VerdictTrue'
  BY <1>1, <1>6, <1>7 DEF VerdictTrue, RefusedOnlyWhenOver
<1>12. QED
  BY <1>8, <1>9, <1>10, <1>11 DEF RlInv

LEMMA RlInvStep == RlInv /\ [RlNext]_rlVars => RlInv'
<1> SUFFICES ASSUME RlInv, [RlNext]_rlVars PROVE RlInv'
  OBVIOUS
<1>1. ASSUME NEW r \in Replicas, NEW forwarded \in Addresses \cup {NoAddress},
             NEW peer \in Addresses \cup {NoAddress}, RateLimit(r, forwarded, peer)
      PROVE  RlInv'
  <2>1. PICK c \in Clients : c = ClientKey(forwarded, peer)
    BY DEF ClientKey, Clients
  <2>2. /\ AllowAt(r, c) \/ TryAllow(c) \/ FailOpen(c)
        /\ UNCHANGED <<clock, backend>>
    BY <1>1, <2>1 DEF RateLimit
  <2>3. QED
    BY <2>2, AllowAtInv, RedisInv
<1>2. CASE UNCHANGED rlVars
  BY <1>2 DEF rlVars, RlInv, RlShape, InMemory, InRedis, VerdictTrue, Unexpired,
     Bucket, BucketAge, Count, RefusedOnlyWhenOver
<1>3. QED
  BY <1>1, <1>2, TickInv DEF RlNext

LEMMA RlInvariance == RlSpec => []RlInv
BY RlInvInit, RlInvStep, PTL DEF RlSpec

(* The windows, the counters and the history keep their types.             *)
THEOREM LimiterTyped == RlSpec => []RlTypeOK
<1>1. RlInv => RlTypeOK
  <2> SUFFICES ASSUME RlInv PROVE RlTypeOK
    OBVIOUS
  <2>1. \A l \in Limiters, c \in Clients, a \in Ages :
          recent[l][c][a].passed <= recent[l][c][a].asked
    <3>1. \A l \in Limiters, c \in Clients : recent[l][c] \in Histories
      BY DEF RlInv, RlShape
    <3>2. QED
      BY <3>1, HistoryFields
  <2>2. QED
    BY <2>1 DEF RlInv, RlShape, RlTypeOK, Bucket
<1>2. QED
  BY <1>1, RlInvariance, PTL

(* ADR-017: nobody is refused for what others asked, or for what it asked  *)
(* before the last window's time.                                          *)
THEOREM RefusedAsked == RlSpec => []RefusedOnlyWhenOver
<1>1. RlInv => RefusedOnlyWhenOver
  BY DEF RlInv, VerdictTrue
<1>2. QED
  BY <1>1, RlInvariance, PTL

(* ADR-037: fixed windows, of a replica or of Redis, let no more than      *)
(* twice the limit through in any window's time.                           *)
THEOREM TwiceAtMost == RlSpec => []AtMostTwice
<1>1. RlInv => AtMostTwice
  <2> SUFFICES ASSUME RlInv, NEW l \in Limiters, NEW c \in Clients
               PROVE  recent[l][c][Window].passed <= 2 * Limit
    BY DEF AtMostTwice
  <2>1. recent[l][c] \in Histories
    BY DEF RlInv, RlShape
  <2>2. recent[l][c][Window].passed \in Nat
    BY <2>1, AgesOfWindow, HistoryFields
  <2>3. CASE Uncounted(recent[l][c])
    BY <2>2, <2>3, AgesOfWindow DEF Uncounted
  <2>4. ASSUME NEW age, NEW count, Counts(recent[l][c], age, count)
        PROVE  recent[l][c][Window].passed <= 2 * Limit
    <3>1. age + 1 \in Ages
      BY <2>4, AgesOfWindow DEF Counts
    <3>2. recent[l][c][age + 1].passed \in Nat
      BY <2>1, <3>1, HistoryFields
    <3>3. QED
      BY <2>2, <2>4, <3>2, AgesOfWindow DEF Counts
  <2>5. QED
    BY <2>3, <2>4 DEF RlInv, InMemory, InRedis, Limiters
<1>2. QED
  BY <1>1, RlInvariance, PTL
=============================================================================
