-------------------------- MODULE BatchGradingProofs -------------------------
(***************************************************************************)
(* Theorems about BatchGrading for every number of essays, tasks, handlers *)
(* and versions: first for every mix of requests and faults; then, when    *)
(* one teacher works with the grading panel, that no essay ever has two    *)
(* tasks, so the counters of the hash are exact, a batch is closed only    *)
(* when it is settled, and the tasks implement EssayLifecycle.             *)
(***************************************************************************)
EXTENDS BatchGrading, FiniteSetTheorems, TLAPS

---------------------------------------------------------------------------
(* The operators on the progress hash *)

LEMMA InitializeProgressType ==
  ASSUME NEW batch \in SUBSET Essays
  PROVE  InitializeProgress(batch) \in Progress
<1>1. Cardinality(batch) \in Nat
  BY EssaysAssumption, FS_Subset, FS_CardinalityType
<1>. QED
  BY <1>1 DEF InitializeProgress, Progress, EssayField

LEMMA MarkEssayGradingFacts ==
  ASSUME NEW p \in Progress, NEW e \in Essays
  PROVE  /\ MarkEssayGrading(p, e) \in Progress
         /\ MarkEssayGrading(p, e).complete = p.complete
         /\ \A f \in Essays :
              MarkEssayGrading(p, e).field[f] = "complete" => p.field[f] = "complete"
  BY DEF Progress, EssayField, MarkEssayGrading

\* The one operator that adds to complete: one essay, and at most one.
LEMMA MarkEssayCompleteFacts ==
  ASSUME NEW p \in Progress, NEW e \in Essays
  PROVE  /\ MarkEssayComplete(p, e) \in Progress
         /\ MarkEssayComplete(p, e).complete \in {p.complete, p.complete + 1}
         /\ \A f \in Essays :
              MarkEssayComplete(p, e).field[f] = "complete" => f = e \/ p.field[f] = "complete"
<1>1. CASE p.total = 0 \/ p.field[e] = "complete"
  BY <1>1 DEF Progress, MarkEssayComplete
<1>2. CASE ~ (p.total = 0 \/ p.field[e] = "complete")
  <2>1. MarkEssayComplete(p, e) =
          [total |-> p.total,
           complete |-> IF p.field[e] = "none" THEN p.complete ELSE p.complete + 1,
           failed |-> p.failed,
           field |-> [p.field EXCEPT ![e] = "complete"]]
    BY <1>2 DEF Progress, MarkEssayComplete
  <2>. QED
    BY <2>1 DEF Progress, EssayField
<1>. QED
  BY <1>1, <1>2

LEMMA MarkEssayFailedFacts ==
  ASSUME NEW p \in Progress, NEW e \in Essays
  PROVE  /\ MarkEssayFailed(p, e) \in Progress
         /\ MarkEssayFailed(p, e).complete = p.complete
         /\ \A f \in Essays :
              MarkEssayFailed(p, e).field[f] = "complete" => p.field[f] = "complete"
<1>1. CASE p.total = 0 \/ p.field[e] = "failed"
  BY <1>1 DEF Progress, MarkEssayFailed
<1>2. CASE ~ (p.total = 0 \/ p.field[e] = "failed")
  <2>1. MarkEssayFailed(p, e) =
          [total |-> p.total,
           complete |-> p.complete,
           failed |-> IF p.field[e] = "none" THEN p.failed ELSE p.failed + 1,
           field |-> [p.field EXCEPT ![e] = "failed"]]
    BY <1>2 DEF Progress, MarkEssayFailed
  <2>. QED
    BY <2>1 DEF Progress, EssayField
<1>. QED
  BY <1>1, <1>2

LEMMA ResetEssayForRetryFacts ==
  ASSUME NEW p \in Progress, NEW e \in Essays
  PROVE  /\ ResetEssayForRetry(p, e) \in Progress
         /\ ResetEssayForRetry(p, e).complete = p.complete
         /\ \A f \in Essays :
              ResetEssayForRetry(p, e).field[f] = "complete" => p.field[f] = "complete"
<1>1. CASE p.field[e] # "failed"
  BY <1>1 DEF Progress, ResetEssayForRetry
<1>2. CASE p.field[e] = "failed"
  <2>1. ResetEssayForRetry(p, e) =
          [total |-> p.total, complete |-> p.complete, failed |-> p.failed - 1,
           field |-> [p.field EXCEPT ![e] = "queued"]]
    BY <1>2 DEF Progress, ResetEssayForRetry
  <2>. QED
    BY <2>1 DEF Progress, EssayField
<1>. QED
  BY <1>1, <1>2

---------------------------------------------------------------------------
(* Type correctness *)

\* Storing a well-formed call in a slot keeps the slots well-formed.
LEMMA SetTask ==
  ASSUME TypeInv, NEW t \in Tasks, NEW r \in Task,
         r.pc # "idle" => r.essay \in Essays,
         r.pc \in {"claim", "llm"} => r.version \in Versions,
         task' = [task EXCEPT ![t] = r]
  PROVE  task' \in [Tasks -> Task] /\ JobsAreSet'
  BY DEF TypeInv, TypeOK, JobsAreSet, Versions

\* Moving a call to another step of the task; it has a version when it must.
LEMMA GoToStep ==
  ASSUME TypeInv, NEW t \in Tasks, NEW label, task[t].pc # "idle",
         label \in {"queued", "load", "version", "llm", "report", "revert",
                    "revertWrite", "reportFailed", "review"},
         label = "llm" => task[t].version \in Versions,
         GoTo(t, label)
  PROVE  task' \in [Tasks -> Task] /\ JobsAreSet'
<1>. DEFINE r == [task[t] EXCEPT !.pc = label]
<1>1. r \in Task /\ r.pc = label /\ r.essay = task[t].essay /\ r.version = task[t].version
  BY DEF TypeInv, TypeOK, Task
<1>2. task' = [task EXCEPT ![t] = r]
  BY DEF GoTo, TypeInv, TypeOK
<1>. QED
  BY <1>1, <1>2, SetTask DEF TypeInv, JobsAreSet

LEMMA FinishStep ==
  ASSUME TypeInv, NEW t \in Tasks, FinishTask(t)
  PROVE  task' \in [Tasks -> Task] /\ JobsAreSet'
<1>1. IdleTask \in Task /\ IdleTask.pc = "idle"
  BY BatchAssumption DEF IdleTask, Task, Versions
<1>. QED
  BY <1>1, SetTask DEF FinishTask

LEMMA EnqueueStep ==
  ASSUME TypeInv, NEW e \in Essays, Enqueue(e)
  PROVE  task' \in [Tasks -> Task] /\ JobsAreSet'
<1>1. /\ Message(e) \in Task /\ Message(e).pc = "queued"
      /\ Message(e).essay = e
  BY BatchAssumption DEF Message, Task, Versions
<1>. QED
  BY <1>1, SetTask DEF Enqueue

\* The same for the handlers.
LEMMA SetClient ==
  ASSUME TypeInv, NEW c \in Clients, NEW r \in Client,
         r.pc = "patch" => r.seen \in DOMAIN NextStatus,
         client' = [client EXCEPT ![c] = r]
  PROVE  client' \in [Clients -> Client] /\ HandlersHaveRead'
  BY DEF TypeInv, TypeOK, HandlersHaveRead

LEMMA RespondStep ==
  ASSUME TypeInv, NEW c \in Clients, Respond(c)
  PROVE  client' \in [Clients -> Client] /\ HandlersHaveRead'
<1>1. IdleClient \in Client /\ IdleClient.pc = "idle"
  BY DEF IdleClient, Client, AssignmentStatus
<1>. QED
  BY <1>1, SetClient DEF Respond

LEMMA BudgetStep ==
  ASSUME TypeInv, NEW kind
  PROVE  /\ Request(kind) => requestsLeft' \in 0..MaxRequests
         /\ Fault(kind) => faultsLeft' \in 0..MaxFaults
  BY BatchAssumption DEF TypeInv, TypeOK, Request, Fault

\* Every action by name, once for all the proofs by cases below.
LEMMA NextCases ==
  ASSUME [Next]_vars
  PROVE  \/ \E c \in Clients :
              \/ TriggerGrading(c) \/ RetryGrading(c) \/ PatchStatus(c)
              \/ SelectEssays(c) \/ RefuseEmptyBatch(c) \/ InitProgress(c)
              \/ EnqueueGrading(c) \/ CommitTrigger(c) \/ ResetProgress(c)
              \/ EnqueueRetry(c) \/ CommitPatch(c) \/ AbortRequest(c)
         \/ \E e \in Essays : Resubmit(e)
         \/ \E t \in Tasks :
              \/ StartTask(t) \/ LoadEssay(t) \/ RejectTask(t) \/ LoadVersion(t)
              \/ ClaimEssay(t) \/ WriteGrade(t) \/ RejectDuplicateGrade(t)
              \/ RetryAfterLLMError(t) \/ GiveUpAfterLLMError(t) \/ InternalError(t)
              \/ ReadForRevert(t) \/ WriteRevert(t) \/ ReportFailed(t)
              \/ ReportComplete(t) \/ TransitionToReview(t)
              \/ LoseReport(t) \/ CrashWorker(t) \/ Redeliver(t)
         \/ ExpireProgress
         \/ UNCHANGED vars
  BY DEF Next, NewRequest, ServeRequest, RunTask

LEMMA TypeInit == Init => TypeInv
<1>. SUFFICES ASSUME Init PROVE TypeInv
  OBVIOUS
<1>1. IdleTask \in Task /\ IdleClient \in Client
  BY BatchAssumption DEF IdleTask, Task, IdleClient, Client, AssignmentStatus
<1>2. NoProgress \in Progress
  BY DEF NoProgress, Progress, EssayField
<1>. QED
  BY <1>1, <1>2, BatchAssumption
  DEF Init, TypeInv, TypeOK, JobsAreSet, HandlersHaveRead, IdleTask, IdleClient,
      AssignmentStatus, EssayStatus, Versions

LEMMA TypeStep == TypeInv /\ [Next]_vars => TypeInv'
<1>. SUFFICES ASSUME TypeInv, [Next]_vars PROVE TypeInv'
  OBVIOUS
<1>. USE DEF TypeInv, TypeOK
<1>1. ASSUME NEW c \in Clients, TriggerGrading(c) PROVE TypeInv'
  <2>. DEFINE r == [client[c] EXCEPT !.pc = "select", !.seen = aStatus]
  <2>1. r \in Client /\ r.pc = "select"
    BY DEF Client
  <2>2. client' = [client EXCEPT ![c] = r]
    BY <1>1 DEF TriggerGrading
  <2>3. client' \in [Clients -> Client] /\ HandlersHaveRead'
    BY <2>1, <2>2, SetClient
  <2>. QED
    BY <1>1, <2>3, BudgetStep DEF TriggerGrading, db, JobsAreSet
<1>2. ASSUME NEW c \in Clients, RetryGrading(c) PROVE TypeInv'
  <2>1. PICK e \in Essays : client' = [client EXCEPT ![c].pc = "reset", ![c].rows = {e}]
    BY <1>2 DEF RetryGrading, QueuedEssays
  <2>. DEFINE r == [client[c] EXCEPT !.pc = "reset", !.rows = {e}]
  <2>2. r \in Client /\ r.pc = "reset"
    BY DEF Client
  <2>3. client' = [client EXCEPT ![c] = r]
    BY <2>1
  <2>4. client' \in [Clients -> Client] /\ HandlersHaveRead'
    BY <2>2, <2>3, SetClient
  <2>. QED
    BY <1>2, <2>4, BudgetStep DEF RetryGrading, db, JobsAreSet
<1>3. ASSUME NEW c \in Clients, PatchStatus(c) PROVE TypeInv'
  <2>. DEFINE r == [client[c] EXCEPT !.pc = "patch", !.seen = aStatus]
  <2>1. r \in Client /\ r.seen \in DOMAIN NextStatus
    BY <1>3 DEF Client, PatchStatus
  <2>2. client' = [client EXCEPT ![c] = r]
    BY <1>3 DEF PatchStatus
  <2>3. client' \in [Clients -> Client] /\ HandlersHaveRead'
    BY <2>1, <2>2, SetClient
  <2>. QED
    BY <1>3, <2>3, BudgetStep DEF PatchStatus, db, JobsAreSet
<1>4. ASSUME NEW c \in Clients, SelectEssays(c) PROVE TypeInv'
  <2>1. PICK rows \in SUBSET Essays :
          client' = [client EXCEPT ![c].pc = "init", ![c].rows = rows]
    BY <1>4 DEF SelectEssays, QueuedEssays
  <2>. DEFINE r == [client[c] EXCEPT !.pc = "init", !.rows = rows]
  <2>2. r \in Client /\ r.pc = "init"
    BY DEF Client
  <2>3. client' = [client EXCEPT ![c] = r]
    BY <2>1
  <2>4. client' \in [Clients -> Client] /\ HandlersHaveRead'
    BY <2>2, <2>3, SetClient
  <2>. QED
    BY <1>4, <2>4 DEF SelectEssays, db, budget, JobsAreSet
<1>5. ASSUME NEW c \in Clients, RefuseEmptyBatch(c) \/ AbortRequest(c) PROVE TypeInv'
  BY <1>5, RespondStep, BudgetStep DEF RefuseEmptyBatch, AbortRequest, db, budget, JobsAreSet
<1>6. ASSUME NEW c \in Clients, InitProgress(c) PROVE TypeInv'
  <2>1. InitializeProgress(client[c].rows) \in Progress
    BY InitializeProgressType DEF Client
  <2>. QED
    BY <1>6, <2>1 DEF InitProgress, db, budget, JobsAreSet, HandlersHaveRead, Client
<1>7. ASSUME NEW c \in Clients, EnqueueGrading(c) PROVE TypeInv'
  <2>1. task' \in [Tasks -> Task] /\ JobsAreSet'
    BY <1>7, EnqueueStep DEF EnqueueGrading, Client
  <2>2. PICK e \in client[c].rows :
          client' = [client EXCEPT ![c].rows = @ \ {e},
                       ![c].pc = IF client[c].rows = {e} THEN "commit" ELSE "enqueue"]
    BY <1>7 DEF EnqueueGrading
  <2>. DEFINE r == [client[c] EXCEPT !.rows = @ \ {e},
                      !.pc = IF client[c].rows = {e} THEN "commit" ELSE "enqueue"]
  <2>3. r \in Client /\ r.pc # "patch" /\ client' = [client EXCEPT ![c] = r]
    BY <2>2 DEF Client
  <2>4. client' \in [Clients -> Client] /\ HandlersHaveRead'
    BY <2>3, SetClient
  <2>. QED
    BY <1>7, <2>1, <2>4 DEF EnqueueGrading, db, budget
<1>8. ASSUME NEW c \in Clients, CommitTrigger(c) PROVE TypeInv'
  BY <1>8, RespondStep DEF CommitTrigger, budget, JobsAreSet, AssignmentStatus
<1>9. ASSUME NEW c \in Clients, ResetProgress(c) PROVE TypeInv'
  <2>1. progress' \in Progress
    BY <1>9, ResetEssayForRetryFacts DEF ResetProgress, Client
  <2>. QED
    BY <1>9, <2>1 DEF ResetProgress, db, budget, JobsAreSet, HandlersHaveRead, Client
<1>10. ASSUME NEW c \in Clients, EnqueueRetry(c) PROVE TypeInv'
  <2>1. task' \in [Tasks -> Task] /\ JobsAreSet'
    BY <1>10, EnqueueStep DEF EnqueueRetry, Client
  <2>. QED
    BY <1>10, <2>1, RespondStep DEF EnqueueRetry, db, budget
<1>11. ASSUME NEW c \in Clients, CommitPatch(c) PROVE TypeInv'
  <2>1. \A x \in DOMAIN NextStatus : NextStatus[x] \in AssignmentStatus
    BY DEF NextStatus, AssignmentStatus
  <2>2. aStatus' \in AssignmentStatus
    BY <1>11, <2>1 DEF CommitPatch, HandlersHaveRead
  <2>. QED
    BY <1>11, <2>2, RespondStep DEF CommitPatch, budget, JobsAreSet
<1>12. ASSUME NEW e \in Essays, Resubmit(e) PROVE TypeInv'
  BY <1>12, BudgetStep, BatchAssumption
  DEF Resubmit, JobsAreSet, HandlersHaveRead, Versions, EssayStatus
<1>13. ASSUME NEW t \in Tasks, StartTask(t) PROVE TypeInv'
  <2>1. task[t].essay \in Essays
    BY <1>13 DEF StartTask, JobsAreSet
  <2>2. progress' \in Progress /\ faultsLeft' \in 0..MaxFaults
    BY <1>13, <2>1, MarkEssayGradingFacts, BudgetStep DEF StartTask
  <2>3. task' \in [Tasks -> Task] /\ JobsAreSet'
    BY <1>13, GoToStep DEF StartTask
  <2>. QED
    BY <1>13, <2>2, <2>3 DEF StartTask, db, HandlersHaveRead
<1>14. ASSUME NEW t \in Tasks, LoadEssay(t) PROVE TypeInv'
  BY <1>14, GoToStep DEF LoadEssay, db, budget, HandlersHaveRead
<1>15. ASSUME NEW t \in Tasks, RejectTask(t) PROVE TypeInv'
  BY <1>15, FinishStep DEF RejectTask, db, budget, HandlersHaveRead
<1>16. ASSUME NEW t \in Tasks, LoadVersion(t) PROVE TypeInv'
  <2>. DEFINE r == [task[t] EXCEPT !.pc = "claim", !.version = latest[task[t].essay]]
  <2>1. task[t].essay \in Essays
    BY <1>16 DEF LoadVersion, JobsAreSet
  <2>2. r \in Task /\ r.pc = "claim" /\ r.essay = task[t].essay /\ r.version \in Versions
    BY <2>1 DEF Task
  <2>3. task' = [task EXCEPT ![t] = r]
    BY <1>16 DEF LoadVersion
  <2>4. task' \in [Tasks -> Task] /\ JobsAreSet'
    BY <2>1, <2>2, <2>3, SetTask
  <2>. QED
    BY <1>16, <2>4 DEF LoadVersion, db, budget, HandlersHaveRead
<1>17. ASSUME NEW t \in Tasks, ClaimEssay(t) PROVE TypeInv'
  <2>1. task' \in [Tasks -> Task] /\ JobsAreSet'
    BY <1>17, GoToStep DEF ClaimEssay, JobsAreSet
  <2>. QED
    BY <1>17, <2>1 DEF ClaimEssay, budget, HandlersHaveRead, EssayStatus
<1>18. ASSUME NEW t \in Tasks, WriteGrade(t) PROVE TypeInv'
  <2>1. task' \in [Tasks -> Task] /\ JobsAreSet'
    BY <1>18, GoToStep DEF WriteGrade
  <2>2. grades' \subseteq Essays \X Versions
    BY <1>18 DEF WriteGrade, JobsAreSet
  <2>. QED
    BY <1>18, <2>1, <2>2 DEF WriteGrade, budget, HandlersHaveRead, EssayStatus
<1>19. ASSUME NEW t \in Tasks, RejectDuplicateGrade(t) PROVE TypeInv'
  BY <1>19, FinishStep DEF RejectDuplicateGrade, budget, HandlersHaveRead, EssayStatus
<1>20. ASSUME NEW t \in Tasks, RetryAfterLLMError(t) PROVE TypeInv'
  <2>. DEFINE r == [task[t] EXCEPT !.pc = "queued", !.version = 0, !.attempt = @ + 1]
  <2>1. r \in Task /\ r.pc = "queued" /\ r.essay \in Essays
    BY <1>20, BatchAssumption DEF RetryAfterLLMError, JobsAreSet, Task
  <2>2. task' = [task EXCEPT ![t] = r]
    BY <1>20 DEF RetryAfterLLMError
  <2>3. task' \in [Tasks -> Task] /\ JobsAreSet'
    BY <2>1, <2>2, SetTask
  <2>. QED
    BY <1>20, <2>3 DEF RetryAfterLLMError, db, budget, HandlersHaveRead
<1>21. ASSUME NEW t \in Tasks, GiveUpAfterLLMError(t) \/ InternalError(t) PROVE TypeInv'
  <2>1. task' \in [Tasks -> Task] /\ JobsAreSet'
    BY <1>21, GoToStep DEF GiveUpAfterLLMError, InternalError
  <2>. QED
    BY <1>21, <2>1 DEF GiveUpAfterLLMError, InternalError, db, budget, HandlersHaveRead
<1>22. ASSUME NEW t \in Tasks, ReadForRevert(t) PROVE TypeInv'
  <2>1. task' \in [Tasks -> Task] /\ JobsAreSet'
    BY <1>22, GoToStep DEF ReadForRevert
  <2>. QED
    BY <1>22, <2>1 DEF ReadForRevert, db, budget, HandlersHaveRead
<1>23. ASSUME NEW t \in Tasks, WriteRevert(t) PROVE TypeInv'
  <2>1. task' \in [Tasks -> Task] /\ JobsAreSet'
    BY <1>23, GoToStep DEF WriteRevert
  <2>. QED
    BY <1>23, <2>1 DEF WriteRevert, budget, HandlersHaveRead, EssayStatus
<1>24. ASSUME NEW t \in Tasks, ReportFailed(t) \/ ReportComplete(t) PROVE TypeInv'
  <2>1. task[t].essay \in Essays
    BY <1>24 DEF ReportFailed, ReportComplete, JobsAreSet
  <2>2. progress' \in Progress
    BY <1>24, <2>1, MarkEssayFailedFacts, MarkEssayCompleteFacts
    DEF ReportFailed, ReportComplete, Report
  <2>3. task' \in [Tasks -> Task] /\ JobsAreSet'
    BY <1>24, GoToStep, FinishStep DEF ReportFailed, ReportComplete, Report
  <2>. QED
    BY <1>24, <2>2, <2>3 DEF ReportFailed, ReportComplete, db, budget, HandlersHaveRead
<1>25. ASSUME NEW t \in Tasks, TransitionToReview(t) PROVE TypeInv'
  BY <1>25, FinishStep DEF TransitionToReview, budget, HandlersHaveRead, AssignmentStatus
<1>26. ASSUME NEW t \in Tasks, LoseReport(t) \/ CrashWorker(t) PROVE TypeInv'
  BY <1>26, FinishStep, BudgetStep DEF LoseReport, CrashWorker, db, HandlersHaveRead
<1>27. ASSUME NEW t \in Tasks, Redeliver(t) PROVE TypeInv'
  <2>1. task[t] \in Task /\ task[t].pc = "queued" /\ task[t].essay \in Essays
    BY <1>27 DEF Redeliver, JobsAreSet
  <2>2. task' \in [Tasks -> Task] /\ JobsAreSet'
    BY <1>27, <2>1, SetTask DEF Redeliver
  <2>. QED
    BY <1>27, <2>2, BudgetStep DEF Redeliver, db, HandlersHaveRead
<1>28. ASSUME ExpireProgress PROVE TypeInv'
  BY <1>28, BudgetStep DEF ExpireProgress, NoProgress, Progress, EssayField, db,
                           JobsAreSet, HandlersHaveRead
<1>29. ASSUME UNCHANGED vars PROVE TypeInv'
  BY <1>29 DEF vars, db, budget, JobsAreSet, HandlersHaveRead
<1>. QED
  BY NextCases, <1>1, <1>2, <1>3, <1>4, <1>5, <1>6, <1>7, <1>8, <1>9, <1>10, <1>11,
     <1>12, <1>13, <1>14, <1>15, <1>16, <1>17, <1>18, <1>19, <1>20, <1>21, <1>22,
     <1>23, <1>24, <1>25, <1>26, <1>27, <1>28, <1>29

\* Every variable keeps its type, and a running task always has its essay.
THEOREM TypeCorrect == Spec => []TypeInv
<1>. QED
  BY TypeInit, TypeStep, PTL DEF Spec

\* No request, task or fault takes a row, the hash, a message or a handler out
\* of its type; in particular Celery makes at most MaxRetries retries.
THEOREM BatchTypesHold == Spec => []TypeOK
<1>1. TypeInv => TypeOK
  BY DEF TypeInv
<1>. QED
  BY <1>1, TypeCorrect, PTL

---------------------------------------------------------------------------
(* PostgreSQL and Redis agree about what has been graded *)

\* A step that neither writes a grade nor reports one.
Quiet ==
  /\ grades' = grades
  /\ \A e \in Essays : essayStatus'[e] = "graded" => essayStatus[e] = "graded"
  /\ \A e \in Essays : progress'.field[e] = "complete" => progress.field[e] = "complete"
  /\ progress'.complete <= progress.complete
  /\ \A t \in Tasks : task'[t].pc = "report"
                        => task[t].pc = "report" /\ task'[t].essay = task[t].essay

TaskQuiet ==
  \A t \in Tasks : task'[t].pc = "report"
                     => task[t].pc = "report" /\ task'[t].essay = task[t].essay

\* No step of a task but WriteGrade takes it to "report".
LEMMA TaskQuietSteps ==
  ASSUME TypeInv, NEW t \in Tasks
  PROVE  /\ \A label : GoTo(t, label) /\ label # "report" => TaskQuiet
         /\ FinishTask(t) => TaskQuiet
         /\ LoadVersion(t) \/ RetryAfterLLMError(t) \/ Redeliver(t) => TaskQuiet
  BY DEF TypeInv, TypeOK, Task, TaskQuiet, GoTo, FinishTask, IdleTask,
         LoadVersion, RetryAfterLLMError, Redeliver

LEMMA HandlerQuiet ==
  ASSUME TypeInv, NEW c \in Clients,
         \/ TriggerGrading(c) \/ RetryGrading(c) \/ PatchStatus(c)
         \/ SelectEssays(c) \/ RefuseEmptyBatch(c) \/ InitProgress(c)
         \/ EnqueueGrading(c) \/ CommitTrigger(c) \/ ResetProgress(c)
         \/ EnqueueRetry(c) \/ CommitPatch(c) \/ AbortRequest(c)
  PROVE  Quiet
<1>1. progress.complete \in Nat
  BY DEF TypeInv, TypeOK, Progress
<1>2. CASE InitProgress(c)
  BY <1>1, <1>2 DEF InitProgress, InitializeProgress, Quiet, db
<1>3. CASE ResetProgress(c)
  <2>1. PICK e \in Essays : progress' = ResetEssayForRetry(progress, e)
    BY <1>3 DEF ResetProgress, TypeInv, TypeOK, Client
  <2>. QED
    BY <1>1, <1>3, <2>1, ResetEssayForRetryFacts DEF ResetProgress, Quiet, db, TypeInv, TypeOK
<1>4. CASE EnqueueGrading(c) \/ EnqueueRetry(c)
  <2>1. PICK e \in Essays, u \in Tasks : task' = [task EXCEPT ![u] = Message(e)]
    BY <1>4 DEF EnqueueGrading, EnqueueRetry, Enqueue, TypeInv, TypeOK, Client
  <2>2. TaskQuiet
    BY <2>1 DEF Message, TypeInv, TypeOK, TaskQuiet
  <2>. QED
    BY <1>1, <1>4, <2>2 DEF EnqueueGrading, EnqueueRetry, Quiet, TaskQuiet, db
<1>5. CASE \/ TriggerGrading(c) \/ RetryGrading(c) \/ PatchStatus(c) \/ SelectEssays(c)
           \/ RefuseEmptyBatch(c) \/ CommitTrigger(c) \/ CommitPatch(c) \/ AbortRequest(c)
  BY <1>1, <1>5 DEF TriggerGrading, RetryGrading, PatchStatus, SelectEssays,
     RefuseEmptyBatch, CommitTrigger, CommitPatch, AbortRequest, Quiet, db
<1>. QED
  BY <1>2, <1>3, <1>4, <1>5

LEMMA TaskStepQuiet ==
  ASSUME TypeInv, NEW t \in Tasks,
         \/ StartTask(t) \/ LoadEssay(t) \/ RejectTask(t) \/ LoadVersion(t)
         \/ ClaimEssay(t) \/ RejectDuplicateGrade(t)
         \/ RetryAfterLLMError(t) \/ GiveUpAfterLLMError(t) \/ InternalError(t)
         \/ ReadForRevert(t) \/ WriteRevert(t) \/ ReportFailed(t)
         \/ TransitionToReview(t)
         \/ LoseReport(t) \/ CrashWorker(t) \/ Redeliver(t)
  PROVE  Quiet
<1>1. progress.complete \in Nat
  BY DEF TypeInv, TypeOK, Progress
<1>2. CASE StartTask(t) \/ ReportFailed(t)
  <2>1. task[t].essay \in Essays
    BY <1>2 DEF StartTask, ReportFailed, TypeInv, JobsAreSet
  <2>2. TaskQuiet
    BY <1>2, TaskQuietSteps DEF StartTask, ReportFailed, Report
  <2>3. progress \in Progress
    BY DEF TypeInv, TypeOK
  <2>4. \/ progress' = MarkEssayGrading(progress, task[t].essay)
        \/ progress' = MarkEssayFailed(progress, task[t].essay)
        \/ progress' = progress
    BY <1>2 DEF StartTask, ReportFailed, Report
  <2>5. /\ progress'.complete = progress.complete
        /\ \A e \in Essays : progress'.field[e] = "complete" => progress.field[e] = "complete"
    <3>1. CASE progress' = MarkEssayGrading(progress, task[t].essay)
      BY <2>1, <2>3, <3>1, MarkEssayGradingFacts
    <3>2. CASE progress' = MarkEssayFailed(progress, task[t].essay)
      BY <2>1, <2>3, <3>2, MarkEssayFailedFacts
    <3>3. CASE progress' = progress
      BY <3>3
    <3>. QED
      BY <2>4, <3>1, <3>2, <3>3
  <2>. QED
    BY <1>1, <1>2, <2>2, <2>5 DEF StartTask, ReportFailed, Quiet, TaskQuiet, db
<1>3. CASE ClaimEssay(t) \/ RejectDuplicateGrade(t) \/ WriteRevert(t)
  <2>1. TaskQuiet
    BY <1>3, TaskQuietSteps DEF ClaimEssay, RejectDuplicateGrade, WriteRevert
  <2>. QED
    BY <1>1, <1>3, <2>1
    DEF ClaimEssay, RejectDuplicateGrade, WriteRevert, Quiet, TaskQuiet, TypeInv, TypeOK
<1>4. CASE \/ LoadEssay(t) \/ RejectTask(t) \/ LoadVersion(t) \/ RetryAfterLLMError(t)
           \/ GiveUpAfterLLMError(t) \/ InternalError(t) \/ ReadForRevert(t)
           \/ TransitionToReview(t) \/ LoseReport(t) \/ CrashWorker(t) \/ Redeliver(t)
  <2>1. TaskQuiet
    BY <1>4, TaskQuietSteps DEF LoadEssay, RejectTask, GiveUpAfterLLMError, InternalError,
       ReadForRevert, TransitionToReview, LoseReport, CrashWorker
  <2>. QED
    BY <1>1, <1>4, <2>1 DEF LoadEssay, RejectTask, LoadVersion, RetryAfterLLMError,
       GiveUpAfterLLMError, InternalError, ReadForRevert, TransitionToReview, LoseReport,
       CrashWorker, Redeliver, Quiet, TaskQuiet, db
<1>. QED
  BY <1>2, <1>3, <1>4

\* Every step is quiet, writes a grade or reports one.
LEMMA StepKinds ==
  ASSUME TypeInv, [Next]_vars
  PROVE  Quiet \/ \E t \in Tasks : WriteGrade(t) \/ ReportComplete(t)
<1>1. progress.complete \in Nat
  BY DEF TypeInv, TypeOK, Progress
<1>2. ASSUME NEW e \in Essays, Resubmit(e) PROVE Quiet
  BY <1>1, <1>2 DEF Resubmit, Quiet, TypeInv, TypeOK
<1>3. ASSUME ExpireProgress PROVE Quiet
  BY <1>1, <1>3 DEF ExpireProgress, NoProgress, Quiet, db
<1>4. ASSUME UNCHANGED vars PROVE Quiet
  BY <1>1, <1>4 DEF vars, db, Quiet
<1>. QED
  BY NextCases, HandlerQuiet, TaskStepQuiet, <1>2, <1>3, <1>4

LEMMA ReportingIsFinite ==
  /\ IsFiniteSet(Reporting) /\ Cardinality(Reporting) \in Nat
  /\ IsFiniteSet(Reporting') /\ Cardinality(Reporting') \in Nat
<1>1. Reporting \subseteq Tasks /\ Reporting' \subseteq Tasks
  BY DEF Reporting
<1>. QED
  BY <1>1, BatchAssumption, FS_Subset, FS_CardinalityType

LEMMA GradesIsFinite ==
  ASSUME TypeInv
  PROVE  IsFiniteSet(grades) /\ Cardinality(grades) \in Nat
<1>1. IsFiniteSet(Versions)
  BY BatchAssumption, FS_Interval DEF Versions
<1>2. IsFiniteSet(Essays \X Versions)
  BY <1>1, EssaysAssumption, FS_Product
<1>. QED
  BY <1>2, FS_Subset, FS_CardinalityType DEF TypeInv, TypeOK

LEMMA InvInit == Init => IInv
<1>. SUFFICES ASSUME Init PROVE IInv
  OBVIOUS
<1>1. TypeInv
  BY TypeInit
<1>2. Reporting = {}
  BY DEF Init, Reporting, IdleTask
<1>3. Cardinality(Reporting) = 0 /\ Cardinality(grades) = 0 /\ progress.complete = 0
  BY <1>2, FS_EmptySet DEF Init, NoProgress
<1>. QED
  BY <1>1, <1>2, <1>3 DEF Init, IInv, GradedEssayHasGrade, CompleteMeansGraded,
     ReportsHaveGrades, CompletesAndReports, NoProgress

\* A quiet step keeps the invariant: nothing new is claimed to be graded.
LEMMA InvQuiet ==
  ASSUME IInv, TypeInv', Quiet
  PROVE  IInv'
<1>1. \A e \in Essays : HasGrade(e) => HasGrade(e)'
  BY DEF Quiet, HasGrade
<1>2. GradedEssayHasGrade' /\ CompleteMeansGraded'
  BY <1>1 DEF IInv, Quiet, GradedEssayHasGrade, CompleteMeansGraded
<1>3. Reporting' \subseteq Reporting
  BY DEF Quiet, Reporting
<1>4. ReportsHaveGrades'
  <2>1. SUFFICES ASSUME NEW t \in Reporting'
                 PROVE  HasGrade(task[t].essay)'
    BY DEF ReportsHaveGrades
  <2>2. task'[t].essay = task[t].essay /\ HasGrade(task[t].essay)
    BY <1>3 DEF Quiet, Reporting, IInv, ReportsHaveGrades
  <2>. QED
    BY <2>2 DEF HasGrade, Quiet
<1>5. CompletesAndReports'
  <2>1. Cardinality(Reporting') <= Cardinality(Reporting)
    BY <1>3, ReportingIsFinite, FS_Subset
  <2>2. progress.complete \in Nat /\ progress'.complete \in Nat
    BY DEF IInv, TypeInv, TypeOK, Progress
  <2>3. progress.complete + Cardinality(Reporting) <= Cardinality(grades)
    BY DEF IInv, CompletesAndReports
  <2>4. grades' = grades /\ progress'.complete <= progress.complete
    BY DEF Quiet
  <2>5. Cardinality(grades) \in Nat
    BY GradesIsFinite DEF IInv
  <2>6. progress'.complete + Cardinality(Reporting') <= Cardinality(grades)
    BY <2>1, <2>2, <2>3, <2>4, <2>5, ReportingIsFinite
  <2>. QED
    BY <2>4, <2>6 DEF CompletesAndReports
<1>. QED
  BY <1>2, <1>4, <1>5 DEF IInv

\* Writing a grade moves its task to "report": one grade more, one report more.
LEMMA InvWriteGrade ==
  ASSUME IInv, TypeInv', NEW t \in Tasks, WriteGrade(t)
  PROVE  IInv'
<1>. DEFINE g == <<task[t].essay, task[t].version>>
<1>1. /\ g \notin grades /\ grades' = grades \union {g} /\ progress' = progress
      /\ task[t].essay \in Essays /\ task[t].version \in Versions
      /\ task \in [Tasks -> Task]
  BY DEF WriteGrade, IInv, TypeInv, TypeOK, JobsAreSet
<1>2. /\ t \notin Reporting
      /\ Reporting' = Reporting \union {t}
      /\ \A u \in Reporting' : task'[u].essay = task[u].essay
  BY <1>1 DEF WriteGrade, GoTo, Reporting, Task
<1>3. \A e \in Essays : HasGrade(e) \/ e = task[t].essay => HasGrade(e)'
  BY <1>1 DEF HasGrade
<1>4. GradedEssayHasGrade' /\ CompleteMeansGraded'
  <2>1. GradedEssayHasGrade'
    BY <1>1, <1>3 DEF IInv, TypeInv, TypeOK, WriteGrade, GradedEssayHasGrade
  <2>2. CompleteMeansGraded'
    BY <1>1, <1>3 DEF IInv, CompleteMeansGraded
  <2>. QED
    BY <2>1, <2>2
<1>5. ReportsHaveGrades'
  <2>1. SUFFICES ASSUME NEW u \in Reporting'
                 PROVE  HasGrade(task[u].essay)'
    BY DEF ReportsHaveGrades
  <2>2. CASE u = t
    BY <1>1, <1>2, <1>3, <2>2 DEF HasGrade
  <2>3. CASE u # t
    <3>1. u \in Reporting /\ HasGrade(task[u].essay) /\ task'[u].essay = task[u].essay
      BY <1>2, <2>3 DEF IInv, ReportsHaveGrades
    <3>. QED
      BY <1>1, <3>1 DEF HasGrade
  <2>. QED
    BY <2>2, <2>3
<1>6. CompletesAndReports'
  <2>1. Cardinality(Reporting') = Cardinality(Reporting) + 1
    BY <1>2, ReportingIsFinite, FS_AddElement
  <2>2. Cardinality(grades') = Cardinality(grades) + 1 /\ Cardinality(grades) \in Nat
    BY <1>1, GradesIsFinite, FS_AddElement DEF IInv
  <2>3. progress.complete \in Nat
    BY DEF IInv, TypeInv, TypeOK, Progress
  <2>. QED
    BY <1>1, <2>1, <2>2, <2>3, ReportingIsFinite DEF IInv, CompletesAndReports
<1>. QED
  BY <1>4, <1>5, <1>6 DEF IInv

\* Reporting a grade to Redis moves one from the reports to the counter.
LEMMA InvReportComplete ==
  ASSUME IInv, TypeInv', NEW t \in Tasks, ReportComplete(t)
  PROVE  IInv'
<1>1. /\ progress' = MarkEssayComplete(progress, task[t].essay)
      /\ progress \in Progress /\ task[t].essay \in Essays
      /\ grades' = grades /\ essayStatus' = essayStatus
      /\ t \in Reporting /\ task \in [Tasks -> Task]
  BY DEF ReportComplete, Report, IInv, TypeInv, TypeOK, JobsAreSet, Reporting, db
<1>2. /\ Reporting' = Reporting \ {t}
      /\ \A u \in Reporting' : task'[u].essay = task[u].essay
  BY <1>1 DEF ReportComplete, Report, GoTo, FinishTask, IdleTask, Reporting, Task
<1>3. HasGrade(task[t].essay) /\ \A e : HasGrade(e)' <=> HasGrade(e)
  BY <1>1 DEF IInv, ReportsHaveGrades, HasGrade
<1>4. GradedEssayHasGrade'
  BY <1>1, <1>3 DEF IInv, GradedEssayHasGrade
<1>5. CompleteMeansGraded'
  BY <1>1, <1>3, MarkEssayCompleteFacts DEF IInv, CompleteMeansGraded
<1>6. ReportsHaveGrades'
  <2>1. SUFFICES ASSUME NEW u \in Reporting'
                 PROVE  HasGrade(task[u].essay)'
    BY DEF ReportsHaveGrades
  <2>2. task'[u].essay = task[u].essay /\ HasGrade(task[u].essay)
    BY <1>2 DEF IInv, ReportsHaveGrades
  <2>. QED
    BY <1>1, <2>2 DEF HasGrade
<1>7. CompletesAndReports'
  <2>1. Cardinality(Reporting') = Cardinality(Reporting) - 1
    BY <1>1, <1>2, ReportingIsFinite, FS_RemoveElement
  <2>2. progress'.complete \in {progress.complete, progress.complete + 1}
    BY <1>1, MarkEssayCompleteFacts
  <2>3. progress.complete \in Nat /\ Cardinality(grades) \in Nat
    BY <1>1, GradesIsFinite DEF Progress, IInv
  <2>. QED
    BY <1>1, <2>1, <2>2, <2>3, ReportingIsFinite DEF IInv, CompletesAndReports
<1>. QED
  BY <1>4, <1>5, <1>6, <1>7 DEF IInv

LEMMA InvStep == IInv /\ [Next]_vars => IInv'
<1>. SUFFICES ASSUME IInv, [Next]_vars PROVE IInv'
  OBVIOUS
<1>1. TypeInv /\ TypeInv'
  BY TypeStep DEF IInv
<1>. QED
  BY <1>1, StepKinds, InvQuiet, InvWriteGrade, InvReportComplete

LEMMA InvCorrect == Spec => []IInv
<1>. QED
  BY InvInit, InvStep, PTL DEF Spec

\* Every essay shown as graded has a stored grade, whatever tasks overlap,
\* are lost, retried or delivered twice.
THEOREM GradedEssaysHaveGrades == Spec => []GradedEssayHasGrade
<1>1. IInv => GradedEssayHasGrade
  BY DEF IInv
<1>. QED
  BY <1>1, InvCorrect, PTL

\* Redis shows an essay as complete only after its grade is committed.
THEOREM CompleteEssaysHaveGrades == Spec => []CompleteMeansGraded
<1>1. IInv => CompleteMeansGraded
  BY DEF IInv
<1>. QED
  BY <1>1, InvCorrect, PTL

\* The complete counter never exceeds the number of stored grades.
THEOREM CompletesAreGrades == Spec => []CompleteWithinGrades
<1>1. IInv => CompleteWithinGrades
  <2>. SUFFICES ASSUME IInv PROVE CompleteWithinGrades
    OBVIOUS
  <2>1. progress.complete \in Nat /\ Cardinality(grades) \in Nat
    BY GradesIsFinite DEF IInv, TypeInv, TypeOK, Progress
  <2>. QED
    BY <2>1, ReportingIsFinite DEF IInv, CompletesAndReports, CompleteWithinGrades
<1>. QED
  BY <1>1, InvCorrect, PTL

---------------------------------------------------------------------------
(* One teacher and the panel *)

\* Requests come from one browser's panel, which waits for each answer; the
\* broker does not deliver twice and the hash outlives the batch.
OneTeacher ==
  /\ PanelOnly = TRUE
  /\ \A c, d \in Clients : c = d
  /\ "redelivery" \notin Faults /\ "expiry" \notin Faults

---------------------------------------------------------------------------
(* The inductive invariant *)

\* A task in "review" has reported its essay and may meet a new task of it.
Working == {t \in Tasks : task[t].pc \notin {"idle", "review"}}

Open(e) == progress.field[e] \in {"queued", "grading"}

OneTaskEach ==
  \A t, u \in Working : task[t].essay = task[u].essay => t = u

WorkIsOpen == \A t \in Working : Open(task[t].essay)

\* What a handler is about to enqueue has no task.
Ready(c) ==
  /\ client[c].pc \in {"select", "init"} => Working = {}
  /\ client[c].pc = "reset" =>
       \E e \in Essays : client[c].rows = {e} /\ progress.field[e] = "failed"
  /\ client[c].pc = "enqueueRetry" => \E e \in Essays : client[c].rows = {e}
  /\ client[c].pc \in {"enqueue", "enqueueRetry"} =>
       \A e \in client[c].rows : Open(e) /\ \A t \in Working : task[t].essay # e

NewTasksAreFree == \A c \in Clients : Ready(c)

Batch(field) == {e \in Essays : field[e] # "none"}

Having(field, value) == {e \in Essays : field[e] = value}

TotalIsBatch == progress.total = Cardinality(Batch(progress.field))

CountsInv == ExactCounters /\ TotalIsBatch

TasksInv == OneTaskEach /\ WorkIsOpen /\ NewTasksAreFree

\* Grades are of versions that exist, and the newest version has one only when
\* the essay is graded.
GradesOfVersions == \A e \in Essays, v \in Versions : <<e, v>> \in grades => v <= latest[e]

NewestIsOpen == \A e \in Essays : essayStatus[e] # "graded" => <<e, latest[e]>> \notin grades

\* What a task has read of its essay is still so.
Current(t) ==
  /\ task[t].pc \in {"version", "claim"} => essayStatus[task[t].essay] = "queued"
  /\ task[t].pc \in {"claim", "llm"} => /\ task[t].version <= latest[task[t].essay]
                                        /\ <<task[t].essay, task[t].version>> \notin grades
  /\ task[t].pc = "revertWrite" => essayStatus[task[t].essay] # "graded"

ReadsAreCurrent == \A t \in Working : Current(t)

GradesInv == GradesOfVersions /\ NewestIsOpen /\ ReadsAreCurrent

PanelInv == OneTeacher /\ TypeInv /\ TasksInv /\ CountsInv /\ GradesInv

---------------------------------------------------------------------------
(* Counting the fields of the hash *)

LEMMA HavingIsFinite ==
  ASSUME NEW field, NEW value
  PROVE  /\ IsFiniteSet(Having(field, value)) /\ Cardinality(Having(field, value)) \in Nat
         /\ IsFiniteSet(Batch(field)) /\ Cardinality(Batch(field)) \in Nat
<1>1. Having(field, value) \subseteq Essays /\ Batch(field) \subseteq Essays
  BY DEF Having, Batch
<1>. QED
  BY <1>1, EssaysAssumption, FS_Subset, FS_CardinalityType

\* Setting one field of the batch moves one essay between two counts.
LEMMA SetFieldCounts ==
  ASSUME NEW field \in [Essays -> EssayField], NEW e \in Essays, NEW new \in EssayField \ {"none"},
         field[e] # "none", field[e] # new
  PROVE  LET after == [field EXCEPT ![e] = new]
         IN  /\ Cardinality(Having(after, new)) = Cardinality(Having(field, new)) + 1
             /\ Cardinality(Having(after, field[e])) = Cardinality(Having(field, field[e])) - 1
             /\ \A value \in EssayField \ {new, field[e]} : Having(after, value) = Having(field, value)
             /\ Batch(after) = Batch(field)
<1>. DEFINE after == [field EXCEPT ![e] = new]
            old == field[e]
<1>1. after[e] = new /\ \A f \in Essays \ {e} : after[f] = field[f]
  OBVIOUS
<1>. HIDE DEF after
<1>2. Having(after, new) = Having(field, new) \union {e} /\ e \notin Having(field, new)
  BY <1>1 DEF Having
<1>3. Having(after, old) = Having(field, old) \ {e} /\ e \in Having(field, old)
  BY <1>1 DEF Having
<1>4. \A value \in EssayField \ {new, old} : Having(after, value) = Having(field, value)
  BY <1>1 DEF Having
<1>5. Batch(after) = Batch(field)
  BY <1>1 DEF Batch
<1>6. Cardinality(Having(after, new)) = Cardinality(Having(field, new)) + 1
  BY <1>2, HavingIsFinite, FS_AddElement
<1>7. Cardinality(Having(after, old)) = Cardinality(Having(field, old)) - 1
  BY <1>3, HavingIsFinite, FS_RemoveElement
<1>. QED
  BY <1>4, <1>5, <1>6, <1>7 DEF after

\* While an essay is open, the counters do not reach the total.
LEMMA OpenLeavesRoom ==
  ASSUME NEW p \in Progress, NEW e \in Essays, p.field[e] \in {"queued", "grading"},
         p.complete = Cardinality(Having(p.field, "complete")),
         p.failed = Cardinality(Having(p.field, "failed")),
         p.total = Cardinality(Batch(p.field))
  PROVE  /\ p.total > 0
         /\ p.complete + p.failed < p.total
<1>. DEFINE field == p.field
            done == Having(field, "complete")
            failed == Having(field, "failed")
<1>2. e \in Batch(field) /\ e \notin done \union failed
  BY DEF Batch, Having
<1>3. done \union failed \subseteq Batch(field) \ {e} /\ done \intersect failed = {}
  BY <1>2 DEF Batch, Having
<1>4. Cardinality(done \union failed) = Cardinality(done) + Cardinality(failed)
  <2>1. /\ IsFiniteSet(done) /\ IsFiniteSet(failed)
        /\ Cardinality(done) \in Nat /\ Cardinality(failed) \in Nat
    BY HavingIsFinite
  <2>2. done \intersect failed = {}
    BY <1>3
  <2>. HIDE DEF done, failed
  <2>3. Cardinality(done \intersect failed) = 0
    BY <2>2, FS_EmptySet
  <2>4. Cardinality(done \union failed)
          = Cardinality(done) + Cardinality(failed) - Cardinality(done \intersect failed)
    BY <2>1, FS_Union
  <2>. QED
    BY <2>1, <2>3, <2>4
<1>5. Cardinality(Batch(field) \ {e}) = Cardinality(Batch(field)) - 1
  BY <1>2, HavingIsFinite, FS_RemoveElement
<1>6. Cardinality(done \union failed) <= Cardinality(Batch(field) \ {e})
  BY <1>3, HavingIsFinite, FS_RemoveElement, FS_Subset
<1>7. p.complete + p.failed < p.total
  BY <1>4, <1>5, <1>6, HavingIsFinite
<1>. QED
  BY <1>7, HavingIsFinite

LEMMA OpenMeansProcessing ==
  ASSUME TypeInv, CountsInv, NEW e \in Essays, Open(e)
  PROVE  /\ progress.total > 0
         /\ progress.complete + progress.failed < progress.total
         /\ BatchStatus(progress) = "processing"
<1>1. progress \in Progress
  BY DEF TypeInv, TypeOK
<1>2. /\ progress.complete = Cardinality(Having(progress.field, "complete"))
      /\ progress.failed = Cardinality(Having(progress.field, "failed"))
      /\ progress.total = Cardinality(Batch(progress.field))
  BY DEF CountsInv, ExactCounters, TotalIsBatch, Having
<1>3. progress.total > 0 /\ progress.complete + progress.failed < progress.total
  BY <1>1, <1>2, OpenLeavesRoom DEF Open
<1>4. progress # NoProgress
  BY <1>3 DEF NoProgress
<1>. QED
  BY <1>3, <1>4 DEF BatchStatus

---------------------------------------------------------------------------
(* The operators on the hash, for an essay that is open *)

LEMMA CompleteOpen ==
  ASSUME TypeInv, CountsInv, NEW e \in Essays, Open(e),
         progress' = MarkEssayComplete(progress, e)
  PROVE  /\ progress'.field = [progress.field EXCEPT ![e] = "complete"]
         /\ CountsInv'
<1>1. progress \in Progress /\ progress.total # 0
  BY OpenMeansProcessing DEF TypeInv, TypeOK
<1>2. progress.field[e] \in {"queued", "grading"} /\ progress.field \in [Essays -> EssayField]
  BY <1>1 DEF Open, Progress
<1>3. progress' = [progress EXCEPT !.field[e] = "complete", !.complete = progress.complete + 1]
  BY <1>1, <1>2 DEF MarkEssayComplete, Progress
<1>. DEFINE after == [progress.field EXCEPT ![e] = "complete"]
<1>4. /\ progress'.field = after /\ progress'.complete = progress.complete + 1
      /\ progress'.failed = progress.failed /\ progress'.total = progress.total
  BY <1>1, <1>3 DEF Progress
<1>5. /\ Cardinality(Having(after, "complete")) = Cardinality(Having(progress.field, "complete")) + 1
      /\ Having(after, "failed") = Having(progress.field, "failed")
      /\ Batch(after) = Batch(progress.field)
  BY <1>2, SetFieldCounts DEF EssayField
<1>. QED
  BY <1>4, <1>5 DEF CountsInv, ExactCounters, TotalIsBatch, Having

LEMMA FailOpen ==
  ASSUME TypeInv, CountsInv, NEW e \in Essays, Open(e),
         progress' = MarkEssayFailed(progress, e)
  PROVE  /\ progress'.field = [progress.field EXCEPT ![e] = "failed"]
         /\ CountsInv'
<1>1. progress \in Progress /\ progress.total # 0
  BY OpenMeansProcessing DEF TypeInv, TypeOK
<1>2. progress.field[e] \in {"queued", "grading"} /\ progress.field \in [Essays -> EssayField]
  BY <1>1 DEF Open, Progress
<1>3. progress' = [progress EXCEPT !.field[e] = "failed", !.failed = progress.failed + 1]
  BY <1>1, <1>2 DEF MarkEssayFailed, Progress
<1>. DEFINE after == [progress.field EXCEPT ![e] = "failed"]
<1>4. /\ progress'.field = after /\ progress'.failed = progress.failed + 1
      /\ progress'.complete = progress.complete /\ progress'.total = progress.total
  BY <1>1, <1>3 DEF Progress
<1>5. /\ Cardinality(Having(after, "failed")) = Cardinality(Having(progress.field, "failed")) + 1
      /\ Having(after, "complete") = Having(progress.field, "complete")
      /\ Batch(after) = Batch(progress.field)
  BY <1>2, SetFieldCounts DEF EssayField
<1>. QED
  BY <1>4, <1>5 DEF CountsInv, ExactCounters, TotalIsBatch, Having

LEMMA GradeOpen ==
  ASSUME TypeInv, CountsInv, NEW e \in Essays, Open(e),
         progress' = MarkEssayGrading(progress, e)
  PROVE  /\ progress'.field = [progress.field EXCEPT ![e] = "grading"]
         /\ CountsInv'
<1>1. progress \in Progress
  BY DEF TypeInv, TypeOK
<1>2. progress.field[e] \in {"queued", "grading"} /\ progress.field \in [Essays -> EssayField]
  BY <1>1 DEF Open, Progress
<1>. DEFINE after == [progress.field EXCEPT ![e] = "grading"]
<1>3. /\ progress'.field = after /\ progress'.failed = progress.failed
      /\ progress'.complete = progress.complete /\ progress'.total = progress.total
  BY <1>1 DEF MarkEssayGrading, Progress
<1>4. /\ Having(after, "complete") = Having(progress.field, "complete")
      /\ Having(after, "failed") = Having(progress.field, "failed")
      /\ Batch(after) = Batch(progress.field)
  BY <1>2 DEF Having, Batch
<1>. QED
  BY <1>3, <1>4 DEF CountsInv, ExactCounters, TotalIsBatch, Having

LEMMA ResetFailed ==
  ASSUME TypeInv, CountsInv, NEW e \in Essays, progress.field[e] = "failed",
         progress' = ResetEssayForRetry(progress, e)
  PROVE  /\ progress'.field = [progress.field EXCEPT ![e] = "queued"]
         /\ CountsInv'
<1>1. progress \in Progress /\ progress.field \in [Essays -> EssayField]
  BY DEF TypeInv, TypeOK, Progress
<1>2. progress' = [progress EXCEPT !.field[e] = "queued", !.failed = progress.failed - 1]
  BY <1>1 DEF ResetEssayForRetry, Progress
<1>. DEFINE after == [progress.field EXCEPT ![e] = "queued"]
<1>3. /\ progress'.field = after /\ progress'.failed = progress.failed - 1
      /\ progress'.complete = progress.complete /\ progress'.total = progress.total
  BY <1>1, <1>2 DEF Progress
<1>4. /\ Cardinality(Having(after, "failed")) = Cardinality(Having(progress.field, "failed")) - 1
      /\ Having(after, "complete") = Having(progress.field, "complete")
      /\ Batch(after) = Batch(progress.field)
  BY <1>1, SetFieldCounts DEF EssayField
<1>. QED
  BY <1>3, <1>4 DEF CountsInv, ExactCounters, TotalIsBatch, Having

LEMMA InitializeCounts ==
  ASSUME NEW rows \in SUBSET Essays, progress' = InitializeProgress(rows)
  PROVE  CountsInv' /\ \A e \in rows : Open(e)'
<1>1. /\ progress'.total = Cardinality(rows) /\ progress'.complete = 0 /\ progress'.failed = 0
      /\ progress'.field = [e \in Essays |-> IF e \in rows THEN "queued" ELSE "none"]
  BY DEF InitializeProgress
<1>2. /\ Batch(progress'.field) = rows
      /\ Having(progress'.field, "complete") = {} /\ Having(progress'.field, "failed") = {}
  BY <1>1 DEF Batch, Having
<1>3. CountsInv'
  BY <1>1, <1>2, FS_EmptySet DEF CountsInv, ExactCounters, TotalIsBatch, Having
<1>4. \A e \in rows : Open(e)'
  BY <1>1 DEF Open
<1>. QED
  BY <1>3, <1>4


---------------------------------------------------------------------------
(* The tasks' part of the invariant *)

\* A task that works goes on, stops or sets out to close the batch; the hash
\* moves in the field of its essay only.
LEMMA WorkStep ==
  ASSUME TypeInv, TasksInv, NEW t \in Working, NEW r,
         task' = [task EXCEPT ![t] = r], client' = client,
         \A f \in Essays \ {task[t].essay} : progress'.field[f] = progress.field[f],
         r.pc \in {"idle", "review"} \/ (/\ r.essay = task[t].essay
                                        /\ progress'.field[task[t].essay] \in {"queued", "grading"})
  PROVE  TasksInv'
<1>. DEFINE e == task[t].essay
<1>1. t \in Tasks /\ e \in Essays /\ task \in [Tasks -> Task] /\ client \in [Clients -> Client]
  BY DEF Working, TypeInv, TypeOK, JobsAreSet
<1>2. \A u \in Working' : u \in Working /\ task'[u].essay = task[u].essay
  BY <1>1 DEF Working
<1>3. \A u \in Working' : u # t => task[u].essay \in Essays \ {e}
  BY <1>1, <1>2 DEF TasksInv, OneTaskEach, Working, TypeInv, JobsAreSet
<1>4. OneTaskEach'
  BY <1>2 DEF TasksInv, OneTaskEach
<1>5. WorkIsOpen'
  <2>1. ASSUME NEW u \in Working', u # t PROVE Open(task[u].essay)'
    <3>1. task'[u].essay = task[u].essay /\ Open(task[u].essay)
      BY <1>2, <2>1 DEF TasksInv, WorkIsOpen
    <3>. QED
      BY <1>3, <2>1, <3>1 DEF Open
  <2>2. ASSUME t \in Working' PROVE Open(task[t].essay)'
    <3>1. task'[t] = r /\ r.pc \notin {"idle", "review"}
      BY <1>1, <2>2 DEF Working
    <3>. QED
      BY <3>1 DEF Open
  <2>. QED
    BY <2>1, <2>2 DEF WorkIsOpen
<1>6. NewTasksAreFree'
  <2>1. SUFFICES ASSUME NEW c \in Clients PROVE Ready(c)'
    BY DEF NewTasksAreFree
  <2>2. Ready(c)
    BY DEF TasksInv, NewTasksAreFree
  <2>3. client[c].rows \subseteq Essays
    BY <1>1 DEF Client
  <2>4. Open(e)
    BY DEF TasksInv, WorkIsOpen
  <2>5. client[c].pc \notin {"select", "init"}
    BY <2>2 DEF Ready
  <2>6. CASE client[c].pc = "reset"
    <3>1. PICK f \in Essays : client[c].rows = {f} /\ progress.field[f] = "failed"
      BY <2>2, <2>6 DEF Ready
    <3>2. f # e
      BY <2>4, <3>1 DEF Open
    <3>. QED
      BY <2>6, <3>1, <3>2 DEF Ready
  <2>7. CASE client[c].pc \in {"enqueue", "enqueueRetry"}
    <3>1. ASSUME NEW f \in client[c].rows PROVE Open(f)' /\ \A u \in Working' : task'[u].essay # f
      <4>1. Open(f) /\ \A u \in Working : task[u].essay # f
        BY <2>2, <2>7 DEF Ready
      <4>2. f \in Essays \ {e}
        BY <2>3, <4>1
      <4>. QED
        BY <1>2, <4>1, <4>2 DEF Open
    <3>2. client[c].pc = "enqueueRetry" => \E f \in Essays : client[c].rows = {f}
      BY <2>2 DEF Ready
    <3>. QED
      BY <2>7, <3>1, <3>2 DEF Ready
  <2>8. CASE client[c].pc \notin {"select", "init", "reset", "enqueue", "enqueueRetry"}
    BY <2>8 DEF Ready
  <2>. QED
    BY <2>5, <2>6, <2>7, <2>8
<1>. QED
  BY <1>4, <1>5, <1>6 DEF TasksInv

\* A task that has already set out to close the batch leaves its slot.
LEMMA RestStep ==
  ASSUME TypeInv, TasksInv, NEW t \in Tasks, t \notin Working,
         FinishTask(t), client' = client, progress' = progress
  PROVE  TasksInv' /\ Working' = Working /\ \A u \in Working : task'[u] = task[u]
<1>1. task \in [Tasks -> Task]
  BY DEF TypeInv, TypeOK
<1>2. Working' = Working /\ \A u \in Working : task'[u] = task[u]
  BY <1>1 DEF Working, FinishTask, IdleTask
<1>3. OneTaskEach' /\ WorkIsOpen'
  BY <1>2 DEF TasksInv, OneTaskEach, WorkIsOpen, Open
<1>4. ASSUME NEW c \in Clients PROVE Ready(c)'
  <2>1. Ready(c)
    BY DEF TasksInv, NewTasksAreFree
  <2>. QED
    BY <1>2, <2>1 DEF Ready, Open
<1>. QED
  BY <1>2, <1>3, <1>4 DEF TasksInv, NewTasksAreFree

---------------------------------------------------------------------------
(* The grades' part of the invariant *)

\* A task moves on; in the database only what belongs to its essay changes.
LEMMA ReadsKept ==
  ASSUME TypeInv, TasksInv, ReadsAreCurrent, NEW t \in Working, NEW r,
         task' = [task EXCEPT ![t] = r], latest' = latest,
         \A f \in Essays \ {task[t].essay} :
           /\ essayStatus'[f] = essayStatus[f]
           /\ \A v \in Versions : <<f, v>> \in grades' <=> <<f, v>> \in grades,
         r.pc \in {"idle", "review"} \/ Current(t)'
  PROVE  ReadsAreCurrent'
<1>1. t \in Tasks /\ task \in [Tasks -> Task]
  BY DEF Working, TypeInv, TypeOK
<1>2. SUFFICES ASSUME NEW u \in Working' PROVE Current(u)'
  BY DEF ReadsAreCurrent
<1>3. CASE u = t
  BY <1>1, <1>3 DEF Working
<1>4. CASE u # t
  <2>1. u \in Working /\ task'[u] = task[u]
    BY <1>1, <1>4 DEF Working
  <2>2. task[u].essay \in Essays \ {task[t].essay}
    BY <1>4, <2>1 DEF TasksInv, OneTaskEach, Working, TypeInv, JobsAreSet
  <2>3. task[u].pc \in {"claim", "llm"} => task[u].version \in Versions
    BY <2>1 DEF Working, TypeInv, JobsAreSet
  <2>4. Current(u)
    BY <2>1 DEF ReadsAreCurrent
  <2>. QED
    BY <2>1, <2>2, <2>3, <2>4 DEF Current
<1>. QED
  BY <1>3, <1>4

---------------------------------------------------------------------------
(* The steps of a task *)

LEMMA GoToWork ==
  ASSUME TypeInv, NEW t \in Working, NEW label, GoTo(t, label)
  PROVE  \E r : /\ task' = [task EXCEPT ![t] = r] /\ task'[t] = r
                /\ r.pc = label /\ r.essay = task[t].essay /\ r.version = task[t].version
<1>. DEFINE r == [task[t] EXCEPT !.pc = label]
<1>1. t \in Tasks /\ task \in [Tasks -> Task] /\ task[t] \in Task
  BY DEF Working, TypeInv, TypeOK
<1>2. r.pc = label /\ r.essay = task[t].essay /\ r.version = task[t].version
  BY <1>1 DEF Task
<1>3. task' = [task EXCEPT ![t] = r] /\ task'[t] = r
  BY <1>1 DEF GoTo
<1>. QED
  BY <1>2, <1>3

\* A step of a task that changes neither the database nor the hash.
LEMMA QuietWork ==
  ASSUME PanelInv, TypeInv', NEW t \in Working, NEW r,
         task' = [task EXCEPT ![t] = r], UNCHANGED <<db, progress, client>>,
         r.pc = "idle" \/ (r.essay = task[t].essay /\ Current(t)')
  PROVE  PanelInv'
<1>1. task[t].essay \in Essays /\ progress.field[task[t].essay] \in {"queued", "grading"}
  BY DEF Working, PanelInv, TypeInv, JobsAreSet, TasksInv, WorkIsOpen, Open
<1>2. /\ progress' = progress /\ client' = client /\ essayStatus' = essayStatus
      /\ latest' = latest /\ grades' = grades
  BY DEF db
<1>3. TasksInv'
  BY <1>1, <1>2, WorkStep DEF PanelInv
<1>4. CountsInv'
  BY <1>2 DEF PanelInv, CountsInv, ExactCounters, TotalIsBatch, Batch
<1>5. ReadsAreCurrent'
  BY <1>2, ReadsKept DEF PanelInv, GradesInv
<1>6. GradesOfVersions' /\ NewestIsOpen'
  BY <1>2 DEF PanelInv, GradesInv, GradesOfVersions, NewestIsOpen
<1>. QED
  BY <1>3, <1>4, <1>5, <1>6 DEF PanelInv, OneTeacher, GradesInv

LEMMA PanelFinish ==
  ASSUME PanelInv, TypeInv', NEW t \in Tasks, FinishTask(t), UNCHANGED <<db, progress, client>>
  PROVE  PanelInv'
<1>1. /\ progress' = progress /\ client' = client /\ essayStatus' = essayStatus
      /\ latest' = latest /\ grades' = grades
  BY DEF db
<1>2. CASE t \in Working
  <2>1. task' = [task EXCEPT ![t] = IdleTask] /\ IdleTask.pc = "idle"
    BY DEF FinishTask, IdleTask
  <2>. QED
    BY <1>2, <2>1, QuietWork
<1>3. CASE t \notin Working
  <2>1. TasksInv' /\ Working' = Working /\ \A u \in Working : task'[u] = task[u]
    BY <1>1, <1>3, RestStep DEF PanelInv
  <2>2. CountsInv'
    BY <1>1 DEF PanelInv, CountsInv, ExactCounters, TotalIsBatch, Batch
  <2>3. ReadsAreCurrent'
    BY <1>1, <2>1 DEF PanelInv, GradesInv, ReadsAreCurrent, Current
  <2>4. GradesOfVersions' /\ NewestIsOpen'
    BY <1>1 DEF PanelInv, GradesInv, GradesOfVersions, NewestIsOpen
  <2>. QED
    BY <2>1, <2>2, <2>3, <2>4 DEF PanelInv, OneTeacher, GradesInv
<1>. QED
  BY <1>2, <1>3

\* The task closes the batch: the assignment changes, and nothing else.
LEMMA PanelClose ==
  ASSUME PanelInv, TypeInv', NEW t \in Tasks, TransitionToReview(t)
  PROVE  PanelInv'
<1>1. /\ progress' = progress /\ client' = client /\ essayStatus' = essayStatus
      /\ latest' = latest /\ grades' = grades
  BY DEF TransitionToReview
<1>2. TasksInv' /\ Working' = Working /\ \A u \in Working : task'[u] = task[u]
  BY <1>1, RestStep DEF PanelInv, TransitionToReview, Working
<1>3. CountsInv'
  BY <1>1 DEF PanelInv, CountsInv, ExactCounters, TotalIsBatch, Batch
<1>4. ReadsAreCurrent'
  BY <1>1, <1>2 DEF PanelInv, GradesInv, ReadsAreCurrent, Current
<1>5. GradesOfVersions' /\ NewestIsOpen'
  BY <1>1 DEF PanelInv, GradesInv, GradesOfVersions, NewestIsOpen
<1>. QED
  BY <1>2, <1>3, <1>4, <1>5 DEF PanelInv, OneTeacher, GradesInv

LEMMA PanelMoves ==
  ASSUME PanelInv, TypeInv', NEW t \in Tasks,
         \/ LoadEssay(t) \/ LoadVersion(t) \/ RetryAfterLLMError(t) \/ GiveUpAfterLLMError(t)
         \/ InternalError(t) \/ ReadForRevert(t)
  PROVE  PanelInv'
<1>1. t \in Working /\ task \in [Tasks -> Task] /\ task[t] \in Task /\ task[t].essay \in Essays
  BY DEF LoadEssay, LoadVersion, RetryAfterLLMError, GiveUpAfterLLMError, InternalError,
     ReadForRevert, Working, PanelInv, TypeInv, TypeOK, JobsAreSet
<1>2. UNCHANGED <<db, progress, client>> /\ essayStatus' = essayStatus /\ latest' = latest
      /\ grades' = grades
  BY DEF LoadEssay, LoadVersion, RetryAfterLLMError, GiveUpAfterLLMError, InternalError,
     ReadForRevert, db
<1>. DEFINE e == task[t].essay
<1>3. CASE LoadEssay(t)
  <2>1. GoTo(t, "version") /\ essayStatus[e] = "queued"
    BY <1>3 DEF LoadEssay
  <2>2. PICK r : /\ task' = [task EXCEPT ![t] = r] /\ task'[t] = r
                 /\ r.pc = "version" /\ r.essay = e
    BY <1>1, <2>1, GoToWork DEF PanelInv
  <2>3. Current(t)'
    BY <1>2, <2>1, <2>2 DEF Current
  <2>. QED
    BY <1>1, <1>2, <2>2, <2>3, QuietWork
<1>4. CASE LoadVersion(t)
  <2>. DEFINE r == [task[t] EXCEPT !.pc = "claim", !.version = latest[e]]
  <2>1. task' = [task EXCEPT ![t] = r] /\ task'[t] = r
    BY <1>1, <1>4 DEF LoadVersion
  <2>2. r.pc = "claim" /\ r.essay = e /\ r.version = latest[e]
    BY <1>1 DEF Task
  <2>3. essayStatus[e] = "queued"
    BY <1>1, <1>4 DEF LoadVersion, PanelInv, GradesInv, ReadsAreCurrent, Current
  <2>4. <<e, latest[e]>> \notin grades /\ latest[e] <= latest[e]
    BY <1>1, <2>3, BatchAssumption
    DEF PanelInv, GradesInv, NewestIsOpen, TypeInv, TypeOK, Versions
  <2>5. Current(t)'
    <3>1. task'[t].pc = "claim" /\ task'[t].essay = e /\ task'[t].version = latest[e]
      BY <2>1, <2>2
    <3>. QED
      BY <1>2, <2>3, <2>4, <3>1 DEF Current
  <2>. QED
    BY <1>1, <1>2, <2>1, <2>2, <2>5, QuietWork
<1>5. CASE RetryAfterLLMError(t)
  <2>. DEFINE r == [task[t] EXCEPT !.pc = "queued", !.version = 0, !.attempt = @ + 1]
  <2>1. task' = [task EXCEPT ![t] = r] /\ task'[t] = r
    BY <1>1, <1>5 DEF RetryAfterLLMError
  <2>2. r.pc = "queued" /\ r.essay = e
    BY <1>1 DEF Task
  <2>3. Current(t)'
    BY <2>1, <2>2 DEF Current
  <2>. QED
    BY <1>1, <1>2, <2>1, <2>2, <2>3, QuietWork
<1>6. CASE GiveUpAfterLLMError(t) \/ InternalError(t)
  <2>1. GoTo(t, "revert")
    BY <1>6 DEF GiveUpAfterLLMError, InternalError
  <2>2. PICK r : /\ task' = [task EXCEPT ![t] = r] /\ task'[t] = r
                 /\ r.pc = "revert" /\ r.essay = e
    BY <1>1, <2>1, GoToWork DEF PanelInv
  <2>3. Current(t)'
    BY <2>2 DEF Current
  <2>. QED
    BY <1>1, <1>2, <2>2, <2>3, QuietWork
<1>7. CASE ReadForRevert(t)
  <2>. DEFINE label == IF essayStatus[e] = "grading" THEN "revertWrite" ELSE "reportFailed"
  <2>1. GoTo(t, label)
    BY <1>7 DEF ReadForRevert
  <2>2. PICK r : /\ task' = [task EXCEPT ![t] = r] /\ task'[t] = r
                 /\ r.pc = label /\ r.essay = e
    BY <1>1, <2>1, GoToWork DEF PanelInv
  <2>3. Current(t)'
    <3>1. CASE essayStatus[e] = "grading"
      BY <1>2, <2>2, <3>1 DEF Current
    <3>2. CASE essayStatus[e] # "grading"
      BY <1>2, <2>2, <3>2 DEF Current
    <3>. QED
      BY <3>1, <3>2
  <2>. QED
    BY <1>1, <1>2, <2>2, <2>3, QuietWork
<1>. QED
  BY <1>3, <1>4, <1>5, <1>6, <1>7

\* A step of a task that writes the outcome of its essay to the hash.
LEMMA HashWork ==
  ASSUME PanelInv, TypeInv', NEW t \in Working, NEW r, NEW mark \in {"grading", "complete", "failed"},
         task' = [task EXCEPT ![t] = r], task'[t] = r, UNCHANGED <<db, client>>,
         progress'.field = [progress.field EXCEPT ![task[t].essay] = mark], CountsInv',
         r.pc \in {"idle", "review"} \/ (mark = "grading" /\ r.pc = "load" /\ r.essay = task[t].essay)
  PROVE  PanelInv'
<1>1. /\ t \in Tasks /\ task[t].essay \in Essays /\ progress.field \in [Essays -> EssayField]
  BY DEF Working, PanelInv, TypeInv, TypeOK, JobsAreSet, Progress
<1>2. /\ client' = client /\ essayStatus' = essayStatus /\ latest' = latest /\ grades' = grades
  BY DEF db
<1>3. /\ \A f \in Essays \ {task[t].essay} : progress'.field[f] = progress.field[f]
      /\ progress'.field[task[t].essay] = mark
  BY <1>1
<1>4. TasksInv'
  BY <1>2, <1>3, WorkStep DEF PanelInv
<1>5. Current(t)' \/ r.pc \in {"idle", "review"}
  BY DEF Current
<1>6. ReadsAreCurrent'
  BY <1>2, <1>5, ReadsKept DEF PanelInv, GradesInv
<1>7. GradesOfVersions' /\ NewestIsOpen'
  BY <1>2 DEF PanelInv, GradesInv, GradesOfVersions, NewestIsOpen
<1>. QED
  BY <1>4, <1>6, <1>7 DEF PanelInv, OneTeacher, GradesInv

LEMMA PanelStart ==
  ASSUME PanelInv, TypeInv', NEW t \in Tasks, StartTask(t)
  PROVE  PanelInv'
<1>. DEFINE e == task[t].essay
<1>1. /\ t \in Working /\ e \in Essays /\ Open(e)
      /\ UNCHANGED <<db, client>> /\ GoTo(t, "load")
  BY DEF StartTask, Working, PanelInv, TypeInv, JobsAreSet, TasksInv, WorkIsOpen
<1>2. PICK r : /\ task' = [task EXCEPT ![t] = r] /\ task'[t] = r
               /\ r.pc = "load" /\ r.essay = e
  BY <1>1, GoToWork DEF PanelInv
<1>3. CASE progress' = MarkEssayGrading(progress, e)
  <2>1. progress'.field = [progress.field EXCEPT ![e] = "grading"] /\ CountsInv'
    BY <1>1, <1>3, GradeOpen DEF PanelInv
  <2>. QED
    BY <1>1, <1>2, <2>1, HashWork
<1>4. CASE UNCHANGED progress
  <2>1. Current(t)'
    BY <1>2 DEF Current
  <2>2. UNCHANGED <<db, progress, client>>
    BY <1>1, <1>4
  <2>. QED
    BY <1>1, <1>2, <2>1, <2>2, QuietWork
<1>. QED
  BY <1>3, <1>4 DEF StartTask

LEMMA PanelReport ==
  ASSUME PanelInv, TypeInv', NEW t \in Tasks, ReportFailed(t) \/ ReportComplete(t)
  PROVE  PanelInv'
<1>. DEFINE e == task[t].essay
<1>1. /\ t \in Working /\ e \in Essays /\ Open(e) /\ UNCHANGED <<db, client>>
  BY DEF ReportFailed, ReportComplete, Working, PanelInv, TypeInv, JobsAreSet, TasksInv, WorkIsOpen
<1>2. PICK mark \in {"complete", "failed"} :
        progress'.field = [progress.field EXCEPT ![e] = mark] /\ CountsInv'
  <2>1. CASE ReportFailed(t)
    <3>1. progress' = MarkEssayFailed(progress, e)
      BY <2>1 DEF ReportFailed, Report
    <3>. QED
      BY <1>1, <3>1, FailOpen DEF PanelInv
  <2>2. CASE ReportComplete(t)
    <3>1. progress' = MarkEssayComplete(progress, e)
      BY <2>2 DEF ReportComplete, Report
    <3>. QED
      BY <1>1, <3>1, CompleteOpen DEF PanelInv
  <2>. QED
    BY <2>1, <2>2
<1>3. GoTo(t, "review") \/ FinishTask(t)
  BY DEF ReportFailed, ReportComplete, Report
<1>4. PICK r : /\ task' = [task EXCEPT ![t] = r] /\ task'[t] = r /\ r.pc \in {"idle", "review"}
  <2>1. CASE GoTo(t, "review")
    BY <1>1, <2>1, GoToWork DEF PanelInv
  <2>2. CASE FinishTask(t)
    <3>1. t \in Tasks /\ task \in [Tasks -> Task]
      BY <1>1 DEF Working, PanelInv, TypeInv, TypeOK
    <3>2. task' = [task EXCEPT ![t] = IdleTask] /\ IdleTask.pc = "idle"
      BY <2>2 DEF FinishTask, IdleTask
    <3>. QED
      BY <3>1, <3>2
  <2>. QED
    BY <1>3, <2>1, <2>2
<1>. QED
  BY <1>1, <1>2, <1>4, HashWork

\* A step of a task that writes to the database rows of its essay.
LEMMA RowWork ==
  ASSUME PanelInv, TypeInv', NEW t \in Tasks, NEW label \in {"llm", "report", "reportFailed"},
         task[t].pc \notin {"idle", "review"}, GoTo(t, label),
         UNCHANGED <<latest, progress, client>>,
         NEW status, essayStatus' = [essayStatus EXCEPT ![task[t].essay] = status],
         \/ grades' = grades /\ status # "graded" /\ essayStatus[task[t].essay] # "graded"
         \/ /\ status = "graded" /\ task[t].version \in 1..latest[task[t].essay]
            /\ grades' = grades \union {<<task[t].essay, task[t].version>>},
         label = "llm" => /\ task[t].version <= latest[task[t].essay]
                          /\ <<task[t].essay, task[t].version>> \notin grades'
  PROVE  PanelInv'
<1>. DEFINE e == task[t].essay
<1>1. /\ t \in Working /\ e \in Essays /\ progress.field[e] \in {"queued", "grading"}
      /\ essayStatus \in [Essays -> EssayStatus] /\ latest \in [Essays -> Versions]
      /\ grades \subseteq Essays \X Versions
  BY DEF Working, PanelInv, TypeInv, TypeOK, JobsAreSet, TasksInv, WorkIsOpen, Open
<1>2. PICK r : /\ task' = [task EXCEPT ![t] = r] /\ task'[t] = r
               /\ r.pc = label /\ r.essay = e /\ r.version = task[t].version
  BY <1>1, GoToWork DEF PanelInv
<1>3. TasksInv'
  BY <1>1, <1>2, WorkStep DEF PanelInv
<1>4. CountsInv'
  BY DEF PanelInv, CountsInv, ExactCounters, TotalIsBatch, Batch
<1>5. \A f \in Essays \ {e} :
        /\ essayStatus'[f] = essayStatus[f]
        /\ \A v \in Versions : <<f, v>> \in grades' <=> <<f, v>> \in grades
  BY <1>1
<1>6. Current(t)'
  BY <1>2 DEF Current
<1>7. ReadsAreCurrent'
  BY <1>1, <1>2, <1>5, <1>6, ReadsKept DEF PanelInv, GradesInv
<1>8. GradesOfVersions'
  <2>1. SUFFICES ASSUME NEW f \in Essays, NEW v \in Versions, <<f, v>> \in grades'
                 PROVE  v <= latest[f]
    BY DEF GradesOfVersions
  <2>2. CASE <<f, v>> \in grades
    BY <2>2 DEF PanelInv, GradesInv, GradesOfVersions
  <2>3. CASE <<f, v>> \notin grades
    <3>1. f = e /\ v = task[t].version /\ v \in 1..latest[e]
      BY <2>1, <2>3
    <3>. QED
      BY <3>1, <1>1, BatchAssumption DEF Versions
  <2>. QED
    BY <2>2, <2>3
<1>9. NewestIsOpen'
  <2>1. SUFFICES ASSUME NEW f \in Essays, essayStatus'[f] # "graded"
                 PROVE  <<f, latest[f]>> \notin grades'
    BY DEF NewestIsOpen
  <2>2. CASE f = e
    <3>1. grades' = grades /\ essayStatus[e] # "graded"
      BY <1>1, <2>1, <2>2
    <3>. QED
      BY <1>1, <2>2, <3>1 DEF PanelInv, GradesInv, NewestIsOpen
  <2>3. CASE f # e
    BY <1>1, <1>5, <2>1, <2>3 DEF PanelInv, GradesInv, NewestIsOpen
  <2>. QED
    BY <2>2, <2>3
<1>. QED
  BY <1>3, <1>4, <1>7, <1>8, <1>9 DEF PanelInv, OneTeacher, GradesInv

LEMMA PanelWrites ==
  ASSUME PanelInv, TypeInv', NEW t \in Tasks,
         ClaimEssay(t) \/ WriteGrade(t) \/ RejectDuplicateGrade(t) \/ WriteRevert(t)
  PROVE  PanelInv'
<1>. DEFINE e == task[t].essay
<1>1. /\ t \in Working /\ e \in Essays /\ latest \in [Essays -> Versions]
      /\ essayStatus \in [Essays -> EssayStatus]
      /\ task[t].pc \in {"claim", "llm"} => task[t].version \in Versions
  BY DEF ClaimEssay, WriteGrade, RejectDuplicateGrade, WriteRevert, Working, PanelInv, TypeInv,
     TypeOK, JobsAreSet
<1>2. Current(t)
  BY <1>1 DEF PanelInv, GradesInv, ReadsAreCurrent
<1>3. task[t].pc \notin {"idle", "review"}
  BY <1>1 DEF Working
<1>4. CASE ClaimEssay(t)
  <2>1. /\ essayStatus[e] = "queued" /\ task[t].version <= latest[e]
        /\ <<e, task[t].version>> \notin grades
    BY <1>2, <1>4 DEF ClaimEssay, Current
  <2>2. /\ GoTo(t, "llm") /\ UNCHANGED <<latest, progress, client>> /\ grades' = grades
        /\ essayStatus' = [essayStatus EXCEPT ![e] = "grading"]
    BY <1>4 DEF ClaimEssay
  <2>. QED
    BY <1>3, <2>1, <2>2, RowWork
<1>5. CASE WriteGrade(t)
  <2>1. task[t].version \in 1..latest[e]
    BY <1>1, <1>2, <1>5, BatchAssumption DEF WriteGrade, Current, Versions
  <2>2. /\ GoTo(t, "report") /\ UNCHANGED <<latest, progress, client>>
        /\ essayStatus' = [essayStatus EXCEPT ![e] = "graded"]
        /\ grades' = grades \union {<<e, task[t].version>>}
    BY <1>5 DEF WriteGrade
  <2>. QED
    BY <1>3, <2>1, <2>2, RowWork
<1>6. CASE RejectDuplicateGrade(t)
  BY <1>2, <1>6 DEF RejectDuplicateGrade, Current
<1>7. CASE WriteRevert(t)
  <2>1. essayStatus[e] # "graded"
    BY <1>2, <1>7 DEF WriteRevert, Current
  <2>2. /\ GoTo(t, "reportFailed") /\ UNCHANGED <<latest, progress, client>> /\ grades' = grades
        /\ essayStatus' = [essayStatus EXCEPT ![e] = "queued"]
    BY <1>7 DEF WriteRevert
  <2>. QED
    BY <1>3, <2>1, <2>2, RowWork
<1>. QED
  BY <1>4, <1>5, <1>6, <1>7

---------------------------------------------------------------------------
(* The steps of the handler, of the students and of the environment *)

\* No two handlers: what holds of this one holds of all.
LEMMA OneHandler ==
  ASSUME OneTeacher, NEW c \in Clients, Ready(c)'
  PROVE  NewTasksAreFree'
  BY DEF OneTeacher, NewTasksAreFree

\* A step of the handler that creates no task and does not touch the hash.
LEMMA HandlerMoves ==
  ASSUME PanelInv, TypeInv', NEW c \in Clients, Ready(c)',
         UNCHANGED <<essayStatus, latest, grades, progress, task>>
  PROVE  PanelInv'
<1>1. Working' = Working
  BY DEF Working
<1>2. OneTaskEach' /\ WorkIsOpen'
  BY <1>1 DEF PanelInv, TasksInv, OneTaskEach, WorkIsOpen, Open
<1>3. TasksInv'
  BY <1>2, OneHandler DEF PanelInv, TasksInv
<1>4. CountsInv'
  BY DEF PanelInv, CountsInv, ExactCounters, TotalIsBatch, Batch
<1>5. GradesInv'
  BY <1>1 DEF PanelInv, GradesInv, GradesOfVersions, NewestIsOpen, ReadsAreCurrent, Current
<1>. QED
  BY <1>3, <1>4, <1>5 DEF PanelInv, OneTeacher

LEMMA PanelHandler ==
  ASSUME PanelInv, TypeInv', NEW c \in Clients,
         \/ TriggerGrading(c) \/ RetryGrading(c) \/ PatchStatus(c)
         \/ SelectEssays(c) \/ RefuseEmptyBatch(c) \/ CommitTrigger(c)
         \/ CommitPatch(c) \/ AbortRequest(c)
  PROVE  PanelInv'
<1>1. client \in [Clients -> Client] /\ Ready(c)
  BY DEF PanelInv, TypeInv, TypeOK, TasksInv, NewTasksAreFree
<1>2. UNCHANGED <<essayStatus, latest, grades, progress, task>> /\ Working' = Working
  BY DEF TriggerGrading, RetryGrading, PatchStatus, SelectEssays, RefuseEmptyBatch,
     CommitTrigger, CommitPatch, AbortRequest, db, Working
<1>3. CASE TriggerGrading(c)
  <2>1. client'[c].pc = "select"
    BY <1>1, <1>3 DEF TriggerGrading, Client
  <2>2. BatchStatus(progress) # "processing"
    BY <1>3 DEF TriggerGrading, PanelOffersGrading, PanelInv, OneTeacher
  <2>3. Working = {}
    <3>1. SUFFICES ASSUME NEW t \in Working PROVE FALSE
      OBVIOUS
    <3>2. task[t].essay \in Essays /\ Open(task[t].essay)
      BY DEF Working, PanelInv, TypeInv, JobsAreSet, TasksInv, WorkIsOpen
    <3>. QED
      BY <2>2, <3>2, OpenMeansProcessing DEF PanelInv
  <2>4. Ready(c)'
    BY <1>2, <2>1, <2>3 DEF Ready
  <2>. QED
    BY <1>2, <2>4, HandlerMoves
<1>4. CASE RetryGrading(c)
  <2>1. PICK e \in Essays : /\ progress.field[e] = "failed"
                            /\ client' = [client EXCEPT ![c].pc = "reset", ![c].rows = {e}]
    BY <1>4 DEF RetryGrading, QueuedEssays, PanelOffersRetry, PanelInv, OneTeacher
  <2>2. client'[c].pc = "reset" /\ client'[c].rows = {e}
    BY <1>1, <2>1 DEF Client
  <2>3. Ready(c)'
    BY <1>2, <2>1, <2>2 DEF Ready
  <2>. QED
    BY <1>2, <2>3, HandlerMoves
<1>5. CASE PatchStatus(c)
  <2>1. client'[c].pc = "patch"
    BY <1>1, <1>5 DEF PatchStatus, Client
  <2>2. Ready(c)'
    BY <2>1 DEF Ready
  <2>. QED
    BY <1>2, <2>2, HandlerMoves
<1>6. CASE SelectEssays(c)
  <2>1. client'[c].pc = "init"
    BY <1>1, <1>6 DEF SelectEssays, Client
  <2>2. Ready(c)'
    BY <1>1, <1>2, <1>6, <2>1 DEF Ready, SelectEssays
  <2>. QED
    BY <1>2, <2>2, HandlerMoves
<1>7. CASE RefuseEmptyBatch(c) \/ CommitTrigger(c) \/ CommitPatch(c) \/ AbortRequest(c)
  <2>1. client'[c].pc = "idle"
    BY <1>1, <1>7 DEF RefuseEmptyBatch, CommitTrigger, CommitPatch, AbortRequest, Respond, IdleClient
  <2>2. Ready(c)'
    BY <2>1 DEF Ready
  <2>. QED
    BY <1>2, <2>2, HandlerMoves
<1>. QED
  BY <1>3, <1>4, <1>5, <1>6, <1>7

\* The hash is written anew: no task is at work on the batch it replaces.
LEMMA PanelInit ==
  ASSUME PanelInv, TypeInv', NEW c \in Clients, InitProgress(c)
  PROVE  PanelInv'
<1>1. /\ client \in [Clients -> Client] /\ client[c].rows \in SUBSET Essays /\ Ready(c)
      /\ client[c].pc = "init"
  BY DEF PanelInv, TypeInv, TypeOK, TasksInv, NewTasksAreFree, InitProgress, Client
<1>2. /\ essayStatus' = essayStatus /\ latest' = latest /\ grades' = grades /\ task' = task
  BY DEF InitProgress, db
<1>3. Working = {} /\ Working' = {}
  BY <1>1, <1>2 DEF Ready, Working
<1>4. CountsInv' /\ \A e \in client[c].rows : Open(e)'
  BY <1>1, InitializeCounts DEF InitProgress
<1>5. client'[c].pc = "enqueue" /\ client'[c].rows = client[c].rows
  BY <1>1 DEF InitProgress, Client
<1>6. Ready(c)'
  BY <1>3, <1>4, <1>5 DEF Ready, Open
<1>7. TasksInv'
  BY <1>3, <1>6, OneHandler DEF PanelInv, TasksInv, OneTaskEach, WorkIsOpen
<1>8. GradesInv'
  BY <1>2, <1>3 DEF PanelInv, GradesInv, GradesOfVersions, NewestIsOpen, ReadsAreCurrent
<1>. QED
  BY <1>4, <1>7, <1>8 DEF PanelInv, OneTeacher

\* A failed essay is counted out and queued again; it has no task.
LEMMA PanelReset ==
  ASSUME PanelInv, TypeInv', NEW c \in Clients, ResetProgress(c)
  PROVE  PanelInv'
<1>1. /\ client \in [Clients -> Client] /\ Ready(c) /\ client[c].pc = "reset"
      /\ progress.field \in [Essays -> EssayField]
  BY DEF PanelInv, TypeInv, TypeOK, TasksInv, NewTasksAreFree, ResetProgress, Progress
<1>2. PICK e \in Essays : client[c].rows = {e} /\ progress.field[e] = "failed"
  BY <1>1 DEF Ready
<1>3. progress' = ResetEssayForRetry(progress, e)
  BY <1>2 DEF ResetProgress
<1>4. progress'.field = [progress.field EXCEPT ![e] = "queued"] /\ CountsInv'
  BY <1>2, <1>3, ResetFailed DEF PanelInv
<1>5. /\ essayStatus' = essayStatus /\ latest' = latest /\ grades' = grades /\ task' = task
      /\ Working' = Working
  BY DEF ResetProgress, db, Working
<1>6. \A t \in Working : task[t].essay \in Essays \ {e} /\ Open(task[t].essay)
  BY <1>2 DEF Working, PanelInv, TypeInv, JobsAreSet, TasksInv, WorkIsOpen, Open
<1>7. client'[c].pc = "enqueueRetry" /\ client'[c].rows = {e}
  BY <1>1, <1>2 DEF ResetProgress, Client
<1>8. Open(e)' /\ \A f \in Essays \ {e} : progress'.field[f] = progress.field[f]
  BY <1>1, <1>4 DEF Open
<1>9. Ready(c)'
  BY <1>5, <1>6, <1>7, <1>8 DEF Ready, Open
<1>10. OneTaskEach' /\ WorkIsOpen'
  BY <1>5, <1>6, <1>8 DEF PanelInv, TasksInv, OneTaskEach, WorkIsOpen, Open
<1>11. GradesInv'
  BY <1>5 DEF PanelInv, GradesInv, GradesOfVersions, NewestIsOpen, ReadsAreCurrent, Current
<1>. QED
  BY <1>4, <1>9, <1>10, <1>11, OneHandler DEF PanelInv, OneTeacher, TasksInv

\* A task for an essay that has none.
LEMMA PanelEnqueue ==
  ASSUME PanelInv, TypeInv', NEW c \in Clients, EnqueueGrading(c) \/ EnqueueRetry(c)
  PROVE  PanelInv'
<1>1. /\ client \in [Clients -> Client] /\ task \in [Tasks -> Task] /\ Ready(c)
      /\ client[c].pc \in {"enqueue", "enqueueRetry"} /\ client[c].rows \subseteq Essays
  BY DEF PanelInv, TypeInv, TypeOK, TasksInv, NewTasksAreFree, EnqueueGrading, EnqueueRetry, Client
<1>2. /\ essayStatus' = essayStatus /\ latest' = latest /\ grades' = grades /\ progress' = progress
  BY DEF EnqueueGrading, EnqueueRetry, db
<1>3. PICK e \in client[c].rows :
        /\ Enqueue(e)
        /\ \/ client'[c].pc \in {"enqueue", "commit"} /\ client'[c].rows = client[c].rows \ {e}
           \/ client'[c].pc = "idle"
  <2>1. CASE EnqueueGrading(c)
    <3>1. PICK e \in client[c].rows :
            /\ Enqueue(e)
            /\ client' = [client EXCEPT
                 ![c].rows = @ \ {e},
                 ![c].pc = IF client[c].rows = {e} THEN "commit" ELSE "enqueue"]
      BY <2>1 DEF EnqueueGrading
    <3>2. client'[c].pc \in {"enqueue", "commit"} /\ client'[c].rows = client[c].rows \ {e}
      BY <1>1, <3>1 DEF Client
    <3>. QED
      BY <3>1, <3>2
  <2>2. CASE EnqueueRetry(c)
    <3>1. client'[c].pc = "idle"
      BY <1>1, <2>2 DEF EnqueueRetry, Respond, IdleClient
    <3>2. PICK e \in client[c].rows : Enqueue(e)
      BY <2>2 DEF EnqueueRetry
    <3>. QED
      BY <3>1, <3>2
  <2>. QED
    BY <2>1, <2>2
<1>4. PICK u \in Tasks : task[u].pc = "idle" /\ task' = [task EXCEPT ![u] = Message(e)]
  BY <1>3 DEF Enqueue
<1>5. /\ e \in Essays /\ Open(e) /\ \A t \in Working : task[t].essay # e
  BY <1>1, <1>3 DEF Ready
<1>6. /\ task'[u].pc = "queued" /\ task'[u].essay = e
      /\ \A t \in Tasks \ {u} : task'[t] = task[t]
  BY <1>1, <1>4 DEF Message
<1>7. u \notin Working /\ \A t \in Working' : t = u \/ (t \in Working /\ task'[t] = task[t])
  BY <1>4, <1>6 DEF Working
<1>8. OneTaskEach'
  BY <1>5, <1>6, <1>7 DEF PanelInv, TasksInv, OneTaskEach
<1>9. WorkIsOpen'
  BY <1>2, <1>5, <1>6, <1>7 DEF PanelInv, TasksInv, WorkIsOpen, Open
<1>10. Ready(c)'
  <2>1. CASE client'[c].pc \in {"enqueue", "commit"} /\ client'[c].rows = client[c].rows \ {e}
    <3>1. ASSUME NEW f \in client'[c].rows PROVE Open(f)' /\ \A t \in Working' : task'[t].essay # f
      <4>1. f \in client[c].rows /\ f # e
        BY <2>1
      <4>2. Open(f) /\ \A t \in Working : task[t].essay # f
        BY <1>1, <4>1 DEF Ready
      <4>. QED
        BY <1>2, <1>6, <1>7, <4>1, <4>2 DEF Open
    <3>. QED
      BY <2>1, <3>1 DEF Ready
  <2>2. CASE client'[c].pc = "idle"
    BY <2>2 DEF Ready
  <2>. QED
    BY <1>3, <2>1, <2>2
<1>11. CountsInv'
  BY <1>2 DEF PanelInv, CountsInv, ExactCounters, TotalIsBatch, Batch
<1>12. GradesInv'
  BY <1>2, <1>6, <1>7 DEF PanelInv, GradesInv, GradesOfVersions, NewestIsOpen, ReadsAreCurrent, Current
<1>. QED
  BY <1>8, <1>9, <1>10, <1>11, <1>12, OneHandler DEF PanelInv, OneTeacher, TasksInv

\* A new version opens the essay again; tasks at work on the old one go on.
LEMMA PanelResubmit ==
  ASSUME PanelInv, TypeInv', NEW e \in Essays, Resubmit(e)
  PROVE  PanelInv'
<1>1. /\ latest \in [Essays -> Versions] /\ essayStatus \in [Essays -> EssayStatus]
      /\ MaxVersions \in Nat /\ latest[e] < MaxVersions
  BY BatchAssumption DEF PanelInv, TypeInv, TypeOK, Resubmit
<1>2. /\ client' = client /\ grades' = grades /\ progress' = progress /\ task' = task
      /\ Working' = Working
  BY DEF Resubmit, Working
<1>3. /\ latest'[e] = latest[e] + 1 /\ essayStatus'[e] = "queued"
      /\ \A f \in Essays \ {e} : latest'[f] = latest[f] /\ essayStatus'[f] = essayStatus[f]
  BY <1>1 DEF Resubmit
<1>4. TasksInv'
  BY <1>2 DEF PanelInv, TasksInv, OneTaskEach, WorkIsOpen, NewTasksAreFree, Ready, Open
<1>5. CountsInv'
  BY <1>2 DEF PanelInv, CountsInv, ExactCounters, TotalIsBatch, Batch
<1>6. \A f \in Essays : latest[f] \in 1..MaxVersions /\ latest[f] <= latest'[f]
  BY <1>1, <1>3 DEF Versions
<1>7. GradesOfVersions'
  <2>1. SUFFICES ASSUME NEW f \in Essays, NEW v \in Versions, <<f, v>> \in grades
                 PROVE  v <= latest'[f]
    BY <1>2 DEF GradesOfVersions
  <2>2. v <= latest[f]
    BY <2>1 DEF PanelInv, GradesInv, GradesOfVersions
  <2>. QED
    BY <1>1, <1>3, <1>6, <2>2 DEF Versions
<1>8. NewestIsOpen'
  <2>1. SUFFICES ASSUME NEW f \in Essays, essayStatus'[f] # "graded"
                 PROVE  <<f, latest'[f]>> \notin grades
    BY <1>2 DEF NewestIsOpen
  <2>2. CASE f = e
    <3>1. latest[e] + 1 \in Versions /\ ~ (latest[e] + 1 <= latest[e])
      BY <1>1 DEF Versions
    <3>. QED
      BY <1>3, <2>2, <3>1 DEF PanelInv, GradesInv, GradesOfVersions
  <2>3. CASE f # e
    BY <1>3, <2>1, <2>3 DEF PanelInv, GradesInv, NewestIsOpen
  <2>. QED
    BY <2>2, <2>3
<1>9. ReadsAreCurrent'
  <2>1. SUFFICES ASSUME NEW t \in Working PROVE Current(t)'
    BY <1>2 DEF ReadsAreCurrent
  <2>2. task[t].essay \in Essays /\ Current(t)
        /\ (task[t].pc \in {"claim", "llm"} => task[t].version \in 1..MaxVersions)
    BY DEF Working, PanelInv, TypeInv, JobsAreSet, Versions, GradesInv, ReadsAreCurrent
  <2>3. essayStatus'[task[t].essay] \in {"queued", essayStatus[task[t].essay]}
    BY <1>3, <2>2
  <2>4. task[t].pc \in {"claim", "llm"} => task[t].version <= latest'[task[t].essay]
    <3>1. latest'[task[t].essay] \in {latest[task[t].essay], latest[task[t].essay] + 1}
      BY <1>3, <2>2
    <3>2. latest[task[t].essay] \in Int
      BY <1>6, <2>2
    <3>. QED
      BY <2>2, <3>1, <3>2 DEF Current
  <2>. QED
    BY <1>2, <2>2, <2>3, <2>4 DEF Current
<1>. QED
  BY <1>4, <1>5, <1>7, <1>8, <1>9 DEF PanelInv, OneTeacher, GradesInv

---------------------------------------------------------------------------
(* The invariant *)

LEMMA PanelInitially == OneTeacher /\ Init => PanelInv
<1>. SUFFICES ASSUME OneTeacher, Init PROVE PanelInv
  OBVIOUS
<1>1. TypeInv
  BY TypeInit
<1>2. Working = {}
  BY DEF Init, Working, IdleTask
<1>3. TasksInv
  BY <1>2 DEF Init, IdleClient, TasksInv, OneTaskEach, WorkIsOpen, NewTasksAreFree, Ready
<1>4. CountsInv
  <2>1. \A e \in Essays : progress.field[e] = "none"
    BY DEF Init, NoProgress
  <2>2. Batch(progress.field) = {} /\ {e \in Essays : progress.field[e] = "complete"} = {}
        /\ {e \in Essays : progress.field[e] = "failed"} = {}
    BY <2>1 DEF Batch
  <2>3. progress.total = 0 /\ progress.complete = 0 /\ progress.failed = 0
    BY DEF Init, NoProgress
  <2>. QED
    BY <2>2, <2>3, FS_EmptySet DEF CountsInv, ExactCounters, TotalIsBatch
<1>5. GradesInv
  BY <1>2 DEF Init, GradesInv, GradesOfVersions, NewestIsOpen, ReadsAreCurrent
<1>. QED
  BY <1>1, <1>3, <1>4, <1>5 DEF PanelInv

LEMMA PanelStep == PanelInv /\ [Next]_vars => PanelInv'
<1>. SUFFICES ASSUME PanelInv, [Next]_vars PROVE PanelInv'
  OBVIOUS
<1>1. TypeInv'
  BY TypeStep DEF PanelInv
<1>2. ASSUME NEW c \in Clients,
             \/ TriggerGrading(c) \/ RetryGrading(c) \/ PatchStatus(c)
             \/ SelectEssays(c) \/ RefuseEmptyBatch(c) \/ InitProgress(c)
             \/ EnqueueGrading(c) \/ CommitTrigger(c) \/ ResetProgress(c)
             \/ EnqueueRetry(c) \/ CommitPatch(c) \/ AbortRequest(c)
      PROVE  PanelInv'
  BY <1>1, <1>2, PanelHandler, PanelInit, PanelReset, PanelEnqueue
<1>3. ASSUME NEW t \in Tasks,
             \/ RejectTask(t) \/ LoseReport(t) \/ CrashWorker(t)
      PROVE  PanelInv'
  <2>1. FinishTask(t) /\ UNCHANGED <<db, progress, client>>
    BY <1>3 DEF RejectTask, LoseReport, CrashWorker
  <2>. QED
    BY <1>1, <2>1, PanelFinish
<1>4. ASSUME NEW t \in Tasks,
             \/ StartTask(t) \/ LoadEssay(t) \/ LoadVersion(t)
             \/ ClaimEssay(t) \/ WriteGrade(t) \/ RejectDuplicateGrade(t)
             \/ RetryAfterLLMError(t) \/ GiveUpAfterLLMError(t) \/ InternalError(t)
             \/ ReadForRevert(t) \/ WriteRevert(t) \/ ReportFailed(t)
             \/ ReportComplete(t) \/ TransitionToReview(t)
      PROVE  PanelInv'
  BY <1>1, <1>4, PanelStart, PanelMoves, PanelWrites, PanelReport, PanelClose
<1>5. ASSUME NEW t \in Tasks, Redeliver(t) PROVE FALSE
  BY <1>5 DEF Redeliver, Fault, PanelInv, OneTeacher
<1>6. ASSUME ExpireProgress PROVE FALSE
  BY <1>6 DEF ExpireProgress, Fault, PanelInv, OneTeacher
<1>7. CASE UNCHANGED vars
  <2>1. UNCHANGED <<essayStatus, latest, grades, progress, task, client>> /\ Working' = Working
    BY <1>7 DEF vars, db, Working
  <2>2. TasksInv'
    BY <2>1 DEF PanelInv, TasksInv, OneTaskEach, WorkIsOpen, NewTasksAreFree, Ready, Open
  <2>3. CountsInv'
    BY <2>1 DEF PanelInv, CountsInv, ExactCounters, TotalIsBatch, Batch
  <2>4. GradesInv'
    BY <2>1 DEF PanelInv, GradesInv, GradesOfVersions, NewestIsOpen, ReadsAreCurrent, Current
  <2>. QED
    BY <1>1, <2>2, <2>3, <2>4 DEF PanelInv, OneTeacher
<1>8. ASSUME NEW e \in Essays, Resubmit(e) PROVE PanelInv'
  BY <1>1, <1>8, PanelResubmit
<1>. QED
  BY <1>2, <1>3, <1>4, <1>5, <1>6, <1>7, <1>8, NextCases

LEMMA PanelCorrect == OneTeacher /\ Spec => []PanelInv
<1>. QED
  BY PanelInitially, PanelStep, PTL DEF Spec

\* The counters the panel shows are the numbers of essays with that outcome,
\* through every retry, resubmission, crash and lost report.
THEOREM CountersAreExact == OneTeacher /\ Spec => []ExactCounters
<1>1. PanelInv => ExactCounters
  BY DEF PanelInv, CountsInv
<1>. QED
  BY <1>1, PanelCorrect, PTL

\* An essay that is queued can be graded: the unique key on grades never
\* rejects the grade of its newest version.
THEOREM QueuedIsAlwaysGradable == OneTeacher /\ Spec => []QueuedIsGradable
<1>1. PanelInv => QueuedIsGradable
  BY DEF PanelInv, GradesInv, NewestIsOpen, QueuedIsGradable
<1>. QED
  BY <1>1, PanelCorrect, PTL

---------------------------------------------------------------------------
(* Closing a batch *)

LEMMA SetsOutOnlyByReport ==
  ASSUME TypeInv, [Next]_vars, NEW t \in Tasks, task[t].pc # "review", task'[t].pc = "review"
  PROVE  IsBatchComplete(progress')
<1>1. task \in [Tasks -> Task]
  BY DEF TypeInv, TypeOK
<1>2. ASSUME NEW u \in Tasks, NEW label, GoTo(u, label), label # "review" PROVE FALSE
  BY <1>1, <1>2 DEF GoTo, Task
<1>3. ASSUME NEW u \in Tasks, FinishTask(u) PROVE FALSE
  BY <1>1, <1>3 DEF FinishTask, IdleTask
<1>4. ASSUME task' = task PROVE FALSE
  BY <1>4
<1>5. ASSUME NEW e \in Essays, Enqueue(e) PROVE FALSE
  BY <1>1, <1>5 DEF Enqueue, Message
<1>6. ASSUME NEW u \in Tasks, LoadVersion(u) \/ RetryAfterLLMError(u) \/ Redeliver(u) PROVE FALSE
  BY <1>1, <1>6 DEF LoadVersion, RetryAfterLLMError, Redeliver, Task
<1>7. ASSUME NEW u \in Tasks, ReportFailed(u) \/ ReportComplete(u) PROVE IsBatchComplete(progress')
  BY <1>3, <1>7 DEF ReportFailed, ReportComplete, Report
<1>8. ASSUME NEW c \in Clients, EnqueueGrading(c) \/ EnqueueRetry(c) PROVE FALSE
  <2>1. client[c].rows \subseteq Essays
    BY DEF TypeInv, TypeOK, Client
  <2>. QED
    BY <1>5, <1>8, <2>1 DEF EnqueueGrading, EnqueueRetry
<1>9. ASSUME NEW c \in Clients,
             \/ TriggerGrading(c) \/ RetryGrading(c) \/ PatchStatus(c)
             \/ SelectEssays(c) \/ RefuseEmptyBatch(c) \/ InitProgress(c)
             \/ CommitTrigger(c) \/ ResetProgress(c) \/ CommitPatch(c) \/ AbortRequest(c)
      PROVE  FALSE
  BY <1>4, <1>9 DEF TriggerGrading, RetryGrading, PatchStatus, SelectEssays, RefuseEmptyBatch,
     InitProgress, CommitTrigger, ResetProgress, CommitPatch, AbortRequest
<1>10. ASSUME NEW u \in Tasks,
              \/ StartTask(u) \/ LoadEssay(u) \/ ClaimEssay(u) \/ WriteGrade(u)
              \/ GiveUpAfterLLMError(u) \/ InternalError(u) \/ WriteRevert(u)
       PROVE  FALSE
  BY <1>2, <1>10 DEF StartTask, LoadEssay, ClaimEssay, WriteGrade, GiveUpAfterLLMError,
     InternalError, WriteRevert
<1>11. ASSUME NEW u \in Tasks, ReadForRevert(u) PROVE FALSE
  <2>1. PICK label \in {"revertWrite", "reportFailed"} : GoTo(u, label)
    BY <1>11 DEF ReadForRevert
  <2>. QED
    BY <1>2, <2>1
<1>12. ASSUME NEW u \in Tasks,
              \/ RejectTask(u) \/ RejectDuplicateGrade(u) \/ TransitionToReview(u)
              \/ LoseReport(u) \/ CrashWorker(u)
       PROVE  FALSE
  BY <1>3, <1>12 DEF RejectTask, RejectDuplicateGrade, TransitionToReview, LoseReport, CrashWorker
<1>13. ASSUME (\E e \in Essays : Resubmit(e)) \/ ExpireProgress \/ UNCHANGED vars PROVE FALSE
  BY <1>4, <1>13 DEF Resubmit, ExpireProgress, vars
<1>. QED
  BY NextCases, <1>6, <1>7, <1>8, <1>9, <1>10, <1>11, <1>12, <1>13

\* The assignment is moved to review only at a moment when every essay of the
\* batch is complete or failed.
THEOREM ClosesAlwaysWhenSettled == OneTeacher /\ Spec => ClosesOnlyWhenSettled
<1>1. PanelInv /\ PanelInv' /\ [Next]_vars =>
        [(\E t \in Tasks : task[t].pc # "review" /\ task'[t].pc = "review")
           => \A e \in Essays : progress'.field[e] \in {"none", "complete", "failed"}]_vars
  <2>1. SUFFICES ASSUME PanelInv, PanelInv', [Next]_vars, NEW t \in Tasks, NEW e \in Essays,
                        task[t].pc # "review", task'[t].pc = "review"
                 PROVE  progress'.field[e] \in {"none", "complete", "failed"}
    OBVIOUS
  <2>2. IsBatchComplete(progress)'
    BY <2>1, SetsOutOnlyByReport DEF PanelInv, IsBatchComplete
  <2>3. TypeInv' /\ CountsInv'
    BY <2>1 DEF PanelInv
  <2>4. progress'.field[e] \notin {"queued", "grading"}
    <3>1. SUFFICES ASSUME progress'.field[e] \in {"queued", "grading"} PROVE FALSE
      OBVIOUS
    <3>2. progress' \in Progress
      BY <2>3 DEF TypeInv, TypeOK
    <3>3. /\ progress'.complete = Cardinality(Having(progress'.field, "complete"))
          /\ progress'.failed = Cardinality(Having(progress'.field, "failed"))
          /\ progress'.total = Cardinality(Batch(progress'.field))
      BY <2>3 DEF CountsInv, ExactCounters, TotalIsBatch, Having
    <3>4. progress'.complete + progress'.failed < progress'.total
      BY <3>1, <3>2, <3>3, OpenLeavesRoom
    <3>. QED
      BY <2>2, <3>2, <3>4 DEF IsBatchComplete, Progress
  <2>5. progress'.field[e] \in EssayField
    BY <2>3 DEF TypeInv, TypeOK, Progress
  <2>. QED
    BY <2>4, <2>5 DEF EssayField
<1>. QED
  BY <1>1, PanelCorrect, PTL DEF Spec, ClosesOnlyWhenSettled

---------------------------------------------------------------------------
(* The tasks implement the essay's lifecycle *)

HasClaim(e) == \E t \in Tasks : task[t].essay = e /\ task[t].pc = "llm"

\* The value of EssayLifecycle's claimed: an LLM call of the essay is running.
Claimed == [e \in Essays |-> HasClaim(e)]

LEMMA ClaimedStays ==
  ASSUME \A e \in Essays : HasClaim(e)' <=> HasClaim(e)
  PROVE  Claimed' = Claimed
<1>1. \A e \in Essays : HasClaim(e)' = HasClaim(e)
  BY DEF HasClaim
<1>. QED
  BY <1>1 DEF Claimed


\* A claim comes and goes with the one task that works on the essay.
LEMMA ClaimFollowsTask ==
  ASSUME TypeInv, OneTaskEach, NEW t \in Working, NEW r, task' = [task EXCEPT ![t] = r],
         r.essay = task[t].essay \/ r.pc # "llm"
  PROVE  /\ HasClaim(task[t].essay) <=> task[t].pc = "llm"
         /\ task[t].pc # "llm" /\ r.pc # "llm" => Claimed' = Claimed
         /\ task[t].pc = "llm" /\ r.pc # "llm" =>
              Claimed' = [Claimed EXCEPT ![task[t].essay] = FALSE]
         /\ task[t].pc # "llm" /\ r.pc = "llm" =>
              Claimed' = [Claimed EXCEPT ![task[t].essay] = TRUE]
<1>. DEFINE e == task[t].essay
<1>1. t \in Tasks /\ e \in Essays /\ task'[t] = r /\ \A u \in Tasks \ {t} : task'[u] = task[u]
  BY DEF Working, TypeInv, TypeOK, JobsAreSet
<1>2. \A u \in Tasks \ {t} : task[u].pc = "llm" => task[u].essay # e
  BY DEF Working, OneTaskEach
<1>3. HasClaim(e) <=> task[t].pc = "llm"
  BY <1>1, <1>2 DEF HasClaim
<1>4. ASSUME NEW f \in Essays
      PROVE  HasClaim(f)' <=> IF f = e THEN r.pc = "llm" ELSE HasClaim(f)
  <2>1. CASE f = e
    BY <1>1, <1>2, <2>1 DEF HasClaim
  <2>2. CASE f # e
    BY <1>1, <2>2 DEF HasClaim
  <2>. QED
    BY <2>1, <2>2
<1>5. \A f \in Essays \ {e} : HasClaim(f)' <=> HasClaim(f)
  BY <1>4
<1>6. ASSUME task[t].pc # "llm", r.pc # "llm" PROVE Claimed' = Claimed
  <2>1. \A f \in Essays : HasClaim(f)' <=> HasClaim(f)
    BY <1>3, <1>4, <1>6
  <2>. QED
    BY <2>1, ClaimedStays
<1>7. ASSUME NEW claim \in BOOLEAN, claim <=> r.pc = "llm"
      PROVE  Claimed' = [Claimed EXCEPT ![e] = claim]
  <2>1. claim = (r.pc = "llm")
    BY <1>7
  <2>2. e \in Essays /\ (HasClaim(e) \in BOOLEAN)
    BY <1>1 DEF HasClaim
  <2>. DEFINE claimedBy(f) == \E u \in Tasks : task'[u].essay = f /\ task'[u].pc = "llm"
  <2>3. Claimed' = [f \in Essays |-> IF f = e THEN claim ELSE HasClaim(f)]
    <3>1. Claimed' = [f \in Essays |-> claimedBy(f)]
      BY DEF Claimed, HasClaim
    <3>2. \A f \in Essays : claimedBy(f) = IF f = e THEN claim ELSE HasClaim(f)
      BY <1>4, <2>1 DEF HasClaim
    <3>. HIDE DEF claimedBy
    <3>. QED
      BY <3>1, <3>2
  <2>. QED
    BY <1>1, <2>3 DEF Claimed
<1>. QED
  BY <1>3, <1>6, <1>7

\* A slot that no task works in holds no claim, before and after.
LEMMA ClaimsOfOthersStay ==
  ASSUME TypeInv, NEW t \in Tasks, t \notin Working, NEW r, task' = [task EXCEPT ![t] = r],
         r.pc # "llm"
  PROVE  Claimed' = Claimed
<1>1. task'[t] = r /\ task[t].pc # "llm" /\ \A u \in Tasks \ {t} : task'[u] = task[u]
  BY DEF Working, TypeInv, TypeOK
<1>2. \A f \in Essays : HasClaim(f)' <=> HasClaim(f)
  BY <1>1 DEF HasClaim
<1>. QED
  BY <1>2, ClaimedStays

---------------------------------------------------------------------------

LEMMA LifecycleStutters ==
  ASSUME UNCHANGED <<essayStatus, latest, grades>>, Claimed' = Claimed
  PROVE  UNCHANGED Lifecycle!vars
  BY DEF Lifecycle!vars, Claimed, HasClaim

LEMMA LifecycleAbandons ==
  ASSUME NEW e \in Essays, UNCHANGED <<essayStatus, latest, grades>>, HasClaim(e),
         Claimed' = [Claimed EXCEPT ![e] = FALSE]
  PROVE  Lifecycle!Abandon(e)
<1>1. Claimed[e]
  BY DEF Claimed
<1>. QED
  BY <1>1 DEF Lifecycle!Abandon, Claimed, HasClaim

LEMMA LifecycleClaims ==
  ASSUME NEW e \in Essays, UNCHANGED <<latest, grades>>, essayStatus[e] = "queued",
         essayStatus' = [essayStatus EXCEPT ![e] = "grading"], ~ HasClaim(e),
         Claimed' = [Claimed EXCEPT ![e] = TRUE]
  PROVE  Lifecycle!Claim(e)
<1>1. ~ Claimed[e]
  BY DEF Claimed
<1>. QED
  BY <1>1 DEF Lifecycle!Claim, Claimed, HasClaim

LEMMA LifecycleGrades ==
  ASSUME NEW e \in Essays, UNCHANGED latest, HasClaim(e), NEW v \in 1..latest[e],
         <<e, v>> \notin grades, grades' = grades \union {<<e, v>>},
         essayStatus' = [essayStatus EXCEPT ![e] = "graded"],
         Claimed' = [Claimed EXCEPT ![e] = FALSE]
  PROVE  Lifecycle!Grade(e)
<1>1. Claimed[e]
  BY DEF Claimed
<1>. QED
  BY <1>1 DEF Lifecycle!Grade, Claimed, HasClaim

LEMMA LifecycleReleases ==
  ASSUME NEW e \in Essays, UNCHANGED <<latest, grades>>, ~ HasClaim(e),
         essayStatus[e] = "grading", essayStatus' = [essayStatus EXCEPT ![e] = "queued"],
         Claimed' = Claimed
  PROVE  Lifecycle!Release(e)
<1>1. ~ Claimed[e]
  BY DEF Claimed
<1>. QED
  BY <1>1 DEF Lifecycle!Release, Claimed, HasClaim

LEMMA LifecycleSubmits ==
  ASSUME NEW e \in Essays, Resubmit(e)
  PROVE  Lifecycle!Submit(e)
<1>1. Claimed' = Claimed
  BY DEF Resubmit, Claimed, HasClaim
<1>. QED
  BY <1>1 DEF Resubmit, Lifecycle!Submit, Claimed, HasClaim

\* A task's step with its new call: the facts of ClaimFollowsTask at hand.
LEMMA ClaimGoesWith ==
  ASSUME PanelInv, NEW t \in Working, NEW label, GoTo(t, label)
  PROVE  /\ HasClaim(task[t].essay) <=> task[t].pc = "llm"
         /\ task[t].pc # "llm" /\ label # "llm" => Claimed' = Claimed
         /\ task[t].pc = "llm" /\ label # "llm" =>
              Claimed' = [Claimed EXCEPT ![task[t].essay] = FALSE]
         /\ task[t].pc # "llm" /\ label = "llm" =>
              Claimed' = [Claimed EXCEPT ![task[t].essay] = TRUE]
<1>1. PICK r : task' = [task EXCEPT ![t] = r] /\ r.pc = label /\ r.essay = task[t].essay
  BY GoToWork DEF PanelInv
<1>. QED
  BY <1>1, ClaimFollowsTask DEF PanelInv, TasksInv

\* A task that leaves the database alone stutters, or abandons its claim.
LEMMA QuietTaskRefines ==
  ASSUME PanelInv, NEW t \in Tasks, UNCHANGED <<essayStatus, latest, grades>>,
         NEW r, task' = [task EXCEPT ![t] = r], r.pc # "llm"
  PROVE  [Lifecycle!Next]_(Lifecycle!vars)
<1>1. CASE t \notin Working
  BY <1>1, ClaimsOfOthersStay, LifecycleStutters DEF PanelInv
<1>2. CASE t \in Working /\ task[t].pc # "llm"
  BY <1>2, ClaimFollowsTask, LifecycleStutters DEF PanelInv, TasksInv
<1>3. CASE t \in Working /\ task[t].pc = "llm"
  <2>1. task[t].essay \in Essays
    BY <1>3 DEF PanelInv, TypeInv, JobsAreSet
  <2>2. /\ HasClaim(task[t].essay) <=> task[t].pc = "llm"
        /\ Claimed' = [Claimed EXCEPT ![task[t].essay] = FALSE]
    BY <1>3, ClaimFollowsTask DEF PanelInv, TasksInv
  <2>3. PICK e \in Essays : e = task[t].essay
    BY <2>1
  <2>4. Lifecycle!Abandon(e)
    BY <1>3, <2>2, <2>3, LifecycleAbandons
  <2>. QED
    BY <2>4 DEF Lifecycle!Next
<1>. QED
  BY <1>1, <1>2, <1>3

LEMMA TaskRefines ==
  ASSUME PanelInv, NEW t \in Tasks,
         \/ StartTask(t) \/ LoadEssay(t) \/ RejectTask(t) \/ LoadVersion(t)
         \/ ClaimEssay(t) \/ WriteGrade(t) \/ RejectDuplicateGrade(t)
         \/ RetryAfterLLMError(t) \/ GiveUpAfterLLMError(t) \/ InternalError(t)
         \/ ReadForRevert(t) \/ WriteRevert(t) \/ ReportFailed(t)
         \/ ReportComplete(t) \/ TransitionToReview(t)
         \/ LoseReport(t) \/ CrashWorker(t)
  PROVE  [Lifecycle!Next]_(Lifecycle!vars)
<1>. DEFINE e == task[t].essay
<1>1. TypeInv /\ task \in [Tasks -> Task] /\ task[t] \in Task
      /\ (task[t].pc # "idle" => e \in Essays)
  BY DEF PanelInv, TypeInv, TypeOK, JobsAreSet
<1>2. ASSUME NEW label, GoTo(t, label), label # "llm", UNCHANGED <<essayStatus, latest, grades>>
      PROVE  [Lifecycle!Next]_(Lifecycle!vars)
  <2>. DEFINE r == [task[t] EXCEPT !.pc = label]
  <2>1. task' = [task EXCEPT ![t] = r] /\ r.pc # "llm"
    BY <1>1, <1>2 DEF GoTo, Task
  <2>. QED
    BY <1>2, <2>1, QuietTaskRefines
<1>3. ASSUME FinishTask(t), UNCHANGED <<essayStatus, latest, grades>>
      PROVE  [Lifecycle!Next]_(Lifecycle!vars)
  <2>1. task' = [task EXCEPT ![t] = IdleTask] /\ IdleTask.pc # "llm"
    BY <1>3 DEF FinishTask, IdleTask
  <2>. QED
    BY <1>3, <2>1, QuietTaskRefines
<1>4. ASSUME t \in Working PROVE Current(t)
  BY <1>4 DEF PanelInv, GradesInv, ReadsAreCurrent
<1>5. CASE StartTask(t) \/ LoadEssay(t) \/ GiveUpAfterLLMError(t) \/ InternalError(t)
  <2>1. UNCHANGED <<essayStatus, latest, grades>>
    BY <1>5 DEF StartTask, LoadEssay, GiveUpAfterLLMError, InternalError, db
  <2>2. GoTo(t, "load") \/ GoTo(t, "version") \/ GoTo(t, "revert")
    BY <1>5 DEF StartTask, LoadEssay, GiveUpAfterLLMError, InternalError
  <2>. QED
    BY <1>2, <2>1, <2>2
<1>6. CASE ReadForRevert(t)
  <2>1. UNCHANGED <<essayStatus, latest, grades>>
    BY <1>6 DEF ReadForRevert, db
  <2>2. PICK label \in {"revertWrite", "reportFailed"} : GoTo(t, label)
    BY <1>6 DEF ReadForRevert
  <2>. QED
    BY <1>2, <2>1, <2>2
<1>7. CASE RejectTask(t) \/ TransitionToReview(t) \/ LoseReport(t) \/ CrashWorker(t)
  <2>1. UNCHANGED <<essayStatus, latest, grades>> /\ FinishTask(t)
    BY <1>7 DEF RejectTask, TransitionToReview, LoseReport, CrashWorker, db
  <2>. QED
    BY <1>3, <2>1
<1>8. CASE ReportFailed(t) \/ ReportComplete(t)
  <2>1. UNCHANGED <<essayStatus, latest, grades>> /\ (FinishTask(t) \/ GoTo(t, "review"))
    BY <1>8 DEF ReportFailed, ReportComplete, Report, db
  <2>. QED
    BY <1>2, <1>3, <2>1
<1>9. CASE LoadVersion(t)
  <2>. DEFINE r == [task[t] EXCEPT !.pc = "claim", !.version = latest[e]]
  <2>1. task' = [task EXCEPT ![t] = r] /\ r.pc # "llm"
    BY <1>1, <1>9 DEF LoadVersion, Task
  <2>. QED
    BY <1>9, <2>1, QuietTaskRefines DEF LoadVersion, db
<1>10. CASE RetryAfterLLMError(t)
  <2>. DEFINE r == [task[t] EXCEPT !.pc = "queued", !.version = 0, !.attempt = @ + 1]
  <2>1. task' = [task EXCEPT ![t] = r] /\ r.pc # "llm"
    BY <1>1, <1>10 DEF RetryAfterLLMError, Task
  <2>. QED
    BY <1>10, <2>1, QuietTaskRefines DEF RetryAfterLLMError, db
<1>11. CASE ClaimEssay(t)
  <2>1. t \in Working /\ e \in Essays /\ task[t].pc = "claim" /\ GoTo(t, "llm")
    BY <1>1, <1>11 DEF ClaimEssay, Working
  <2>2. essayStatus[e] = "queued"
    BY <1>4, <2>1 DEF Current
  <2>3. ~ HasClaim(e) /\ Claimed' = [Claimed EXCEPT ![e] = TRUE]
    BY <2>1, ClaimGoesWith
  <2>4. PICK f \in Essays : f = e
    BY <2>1
  <2>5. Lifecycle!Claim(f)
    BY <1>11, <2>2, <2>3, <2>4, LifecycleClaims DEF ClaimEssay
  <2>. QED
    BY <2>5 DEF Lifecycle!Next
<1>12. CASE WriteGrade(t)
  <2>1. t \in Working /\ e \in Essays /\ task[t].pc = "llm" /\ GoTo(t, "report")
    BY <1>1, <1>12 DEF WriteGrade, Working
  <2>2. task[t].version \in Versions /\ latest[e] \in Versions
    BY <2>1 DEF PanelInv, TypeInv, TypeOK, JobsAreSet
  <2>3. task[t].version \in 1..latest[e]
    BY <1>4, <2>1, <2>2, BatchAssumption DEF Current, Versions
  <2>4. HasClaim(e) /\ Claimed' = [Claimed EXCEPT ![e] = FALSE]
    BY <2>1, ClaimGoesWith
  <2>5. PICK f \in Essays : f = e
    BY <2>1
  <2>6. Lifecycle!Grade(f)
    BY <1>12, <2>3, <2>4, <2>5, LifecycleGrades DEF WriteGrade
  <2>. QED
    BY <2>6 DEF Lifecycle!Next
<1>13. CASE RejectDuplicateGrade(t)
  <2>1. t \in Working
    BY <1>1, <1>13 DEF RejectDuplicateGrade, Working
  <2>. QED
    BY <1>4, <1>13, <2>1 DEF RejectDuplicateGrade, Current
<1>14. CASE WriteRevert(t)
  <2>1. t \in Working /\ e \in Essays /\ task[t].pc = "revertWrite" /\ GoTo(t, "reportFailed")
    BY <1>1, <1>14 DEF WriteRevert, Working
  <2>2. essayStatus[e] # "graded" /\ essayStatus \in [Essays -> EssayStatus]
    BY <1>4, <2>1 DEF Current, PanelInv, TypeInv, TypeOK
  <2>3. ~ HasClaim(e) /\ Claimed' = Claimed
    BY <2>1, ClaimGoesWith
  <2>4. CASE essayStatus[e] = "grading"
    <3>1. PICK f \in Essays : f = e
      BY <2>1
    <3>2. Lifecycle!Release(f)
      BY <1>14, <2>3, <2>4, <3>1, LifecycleReleases DEF WriteRevert
    <3>. QED
      BY <3>2 DEF Lifecycle!Next
  <2>5. CASE essayStatus[e] = "queued"
    <3>1. UNCHANGED <<essayStatus, latest, grades>>
      BY <1>14, <2>2, <2>5 DEF WriteRevert
    <3>. QED
      BY <2>3, <3>1, LifecycleStutters
  <2>. QED
    BY <2>1, <2>2, <2>4, <2>5 DEF EssayStatus
<1>. QED
  BY <1>5, <1>6, <1>7, <1>8, <1>9, <1>10, <1>11, <1>12, <1>13, <1>14

LEMMA HandlerRefines ==
  ASSUME PanelInv, NEW c \in Clients,
         \/ TriggerGrading(c) \/ RetryGrading(c) \/ PatchStatus(c)
         \/ SelectEssays(c) \/ RefuseEmptyBatch(c) \/ InitProgress(c)
         \/ EnqueueGrading(c) \/ CommitTrigger(c) \/ ResetProgress(c)
         \/ EnqueueRetry(c) \/ CommitPatch(c) \/ AbortRequest(c)
  PROVE  UNCHANGED Lifecycle!vars
<1>1. UNCHANGED <<essayStatus, latest, grades>>
  BY DEF TriggerGrading, RetryGrading, PatchStatus, SelectEssays, RefuseEmptyBatch, InitProgress,
     EnqueueGrading, CommitTrigger, ResetProgress, EnqueueRetry, CommitPatch, AbortRequest, db
<1>2. CASE task' = task
  BY <1>1, <1>2, LifecycleStutters DEF Claimed, HasClaim
<1>3. CASE EnqueueGrading(c) \/ EnqueueRetry(c)
  <2>1. PICK e \in Essays, t \in Tasks : task[t].pc = "idle" /\ task' = [task EXCEPT ![t] = Message(e)]
    BY <1>3 DEF EnqueueGrading, EnqueueRetry, Enqueue, PanelInv, TypeInv, TypeOK, Client
  <2>2. t \notin Working /\ Message(e).pc # "llm"
    BY <2>1 DEF Working, Message
  <2>3. Claimed' = Claimed
    BY <2>1, <2>2, ClaimsOfOthersStay DEF PanelInv
  <2>. QED
    BY <1>1, <2>3, LifecycleStutters
<1>. QED
  BY <1>2, <1>3 DEF TriggerGrading, RetryGrading, PatchStatus, SelectEssays, RefuseEmptyBatch,
     InitProgress, CommitTrigger, ResetProgress, CommitPatch, AbortRequest

LEMMA LifecycleInit == Init => Lifecycle!Init
<1>. SUFFICES ASSUME Init PROVE Lifecycle!Init
  OBVIOUS
<1>1. \A e \in Essays : ~ \E t \in Tasks : task[t].essay = e /\ task[t].pc = "llm"
  BY DEF Init, IdleTask
<1>2. [e \in Essays |-> \E t \in Tasks : task[t].essay = e /\ task[t].pc = "llm"]
        = [e \in Essays |-> FALSE]
  BY <1>1
<1>. QED
  BY <1>2 DEF Init, Lifecycle!Init

LEMMA LifecycleStep == PanelInv /\ [Next]_vars => [Lifecycle!Next]_(Lifecycle!vars)
<1>. SUFFICES ASSUME PanelInv, [Next]_vars PROVE [Lifecycle!Next]_(Lifecycle!vars)
  OBVIOUS
<1>1. ASSUME NEW e \in Essays, Resubmit(e) PROVE Lifecycle!Next
  BY <1>1, LifecycleSubmits DEF Lifecycle!Next
<1>2. ASSUME NEW t \in Tasks, Redeliver(t) PROVE FALSE
  BY <1>2 DEF Redeliver, Fault, PanelInv, OneTeacher
<1>3. ASSUME ExpireProgress PROVE FALSE
  BY <1>3 DEF ExpireProgress, Fault, PanelInv, OneTeacher
<1>4. CASE UNCHANGED vars
  <2>1. UNCHANGED <<essayStatus, latest, grades>> /\ Claimed' = Claimed
    BY <1>4 DEF vars, db, Claimed, HasClaim
  <2>. QED
    BY <2>1, LifecycleStutters
<1>. QED
  BY <1>1, <1>2, <1>3, <1>4, NextCases, HandlerRefines, TaskRefines

\* The tasks, with their retries, reverts, crashes and lost reports, implement
\* the lifecycle in which one run at a time works on an essay, starts from
\* "queued" and reaches "graded" only with a new grade.
THEOREM BatchImplementsLifecycle == OneTeacher /\ Spec => ImplementsLifecycle
<1>. QED
  BY LifecycleInit, LifecycleStep, PanelCorrect, PTL DEF Spec, ImplementsLifecycle, Lifecycle!Spec
===========================================================================
