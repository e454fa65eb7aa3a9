---------------------------- MODULE BatchGrading ----------------------------
(***************************************************************************)
(* Batch grading of one assignment: the API handlers that trigger, retry   *)
(* and patch, the Celery tasks that grade one essay each, the PostgreSQL   *)
(* rows they share and the Redis progress hash.                            *)
(*                                                                         *)
(* Every action is one database transaction, one Redis command or script,  *)
(* or one message, because the code holds nothing across two of them: ORM  *)
(* attributes read in one statement are written back later without a       *)
(* version check, and other handlers and tasks run in between.             *)
(***************************************************************************)
EXTENDS GradingProgress

CONSTANTS
  Tasks,        \* slots for grade_essay messages, waiting or running
  Clients,      \* API request handlers running at the same time
  NoEssay,      \* "no essay": the job of a free slot
  MaxVersions,  \* bound: versions of an essay (resubmission_limit + 1)
  MaxRetries,   \* Celery's max_retries
  MaxRequests,  \* bound: requests made in a behaviour
  MaxFaults,    \* bound: infrastructure faults in a behaviour
  Requests,     \* the kinds of request made: "trigger", "retry", ...
  Faults,       \* the kinds of fault that happen: "llm", "crash", ...
  PanelOnly     \* requests come only from the grading panel's buttons

ASSUME BatchAssumption ==
  /\ IsFiniteSet(Tasks)
  /\ NoEssay \notin Essays
  /\ MaxVersions \in Nat \ {0}
  /\ MaxRetries \in Nat
  /\ MaxRequests \in Nat
  /\ MaxFaults \in Nat
  /\ Requests \subseteq {"trigger", "retry", "patch", "resubmit"}
  /\ Faults \subseteq {"llm", "internal", "crash", "redis", "expiry", "redelivery"}
  /\ PanelOnly \in BOOLEAN

VARIABLES
  aStatus,       \* assignments.status
  essayStatus,   \* essays.status
  latest,        \* essay -> highest essay_versions.version_number
  grades,        \* the <<essay, version>> pairs with a row in grades
  progress,      \* the Redis hash
  task,          \* slot -> the grade_essay call it holds
  client,        \* handler -> the request it serves
  requestsLeft,  \* requests still to be made
  faultsLeft     \* infrastructure faults still to happen

db     == <<aStatus, essayStatus, latest, grades>>
budget == <<requestsLeft, faultsLeft>>
vars   == <<db, progress, task, client, budget>>

---------------------------------------------------------------------------
(* Types *)

AssignmentStatus == {"draft", "open", "grading", "review", "complete", "returned"}

\* The statuses grading sets and reads; an essay that is still "unassigned" to
\* a student is not among Essays.
EssayStatus == {"queued", "grading", "graded"}

\* assignment.py, _VALID_TRANSITIONS
NextStatus == [draft |-> "open", open |-> "grading", grading |-> "review",
               review |-> "complete", complete |-> "returned"]

Versions == 1..MaxVersions

\* attempt is self.request.retries; version is the essay_version the running
\* attempt has loaded.
Task == [pc      : {"idle", "queued", "load", "version", "claim", "llm", "report",
                    "revert", "revertWrite", "reportFailed", "review"},
         essay   : Essays \union {NoEssay},
         attempt : 0..MaxRetries,
         version : Versions \union {0}]

\* seen is the assignment status the handler read; rows the essays it has
\* still to enqueue.
Client == [pc   : {"idle", "select", "init", "enqueue", "commit",
                   "reset", "enqueueRetry", "patch"},
           seen : AssignmentStatus,
           rows : SUBSET Essays]

IdleTask   == [pc |-> "idle", essay |-> NoEssay, attempt |-> 0, version |-> 0]
IdleClient == [pc |-> "idle", seen |-> "draft", rows |-> {}]

\* grade_essay.delay(essay)
Message(e) == [pc |-> "queued", essay |-> e, attempt |-> 0, version |-> 0]

TypeOK ==
  /\ aStatus \in AssignmentStatus
  /\ essayStatus \in [Essays -> EssayStatus]
  /\ latest \in [Essays -> Versions]
  /\ grades \subseteq Essays \X Versions
  /\ progress \in Progress
  /\ task \in [Tasks -> Task]
  /\ client \in [Clients -> Client]
  /\ requestsLeft \in 0..MaxRequests
  /\ faultsLeft \in 0..MaxFaults

Init ==
  /\ aStatus = "open"
  /\ essayStatus = [e \in Essays |-> "queued"]
  /\ latest = [e \in Essays |-> 1]
  /\ grades = {}
  /\ progress = NoProgress
  /\ task = [t \in Tasks |-> IdleTask]
  /\ client = [c \in Clients |-> IdleClient]
  /\ requestsLeft = MaxRequests
  /\ faultsLeft = MaxFaults

---------------------------------------------------------------------------
(* Helpers *)

\* An infrastructure fault of a kind the environment has, charged to the bound.
Fault(kind) ==
  /\ kind \in Faults
  /\ faultsLeft > 0
  /\ faultsLeft' = faultsLeft - 1

Request(kind) ==
  /\ kind \in Requests
  /\ requestsLeft > 0
  /\ requestsLeft' = requestsLeft - 1

QueuedEssays == {e \in Essays : essayStatus[e] = "queued"}

GoTo(t, label) == task' = [task EXCEPT ![t].pc = label]

FinishTask(t) == task' = [task EXCEPT ![t] = IdleTask]

Respond(c) == client' = [client EXCEPT ![c] = IdleClient]

Enqueue(e) == \E t \in Tasks : /\ task[t].pc = "idle"
                               /\ task' = [task EXCEPT ![t] = Message(e)]

\* Write a terminal outcome to the hash and go on to the transition if the
\* counters the script returns say that the batch is over.
Report(t, p) ==
  /\ progress' = p
  /\ IF IsBatchComplete(p) THEN GoTo(t, "review") ELSE FinishTask(t)

---------------------------------------------------------------------------
(* POST /assignments/{id}/grade: trigger_batch_grading *)

\* "Grade now" is offered while the panel shows no progress or a finished batch.
PanelOffersGrading == BatchStatus(progress) # "processing"

\* get_assignment and the status check.
TriggerGrading(c) ==
  /\ client[c].pc = "idle"
  /\ Request("trigger")
  /\ PanelOnly => PanelOffersGrading
  /\ aStatus \in {"open", "grading"}
  /\ client' = [client EXCEPT ![c].pc = "select", ![c].seen = aStatus]
  /\ UNCHANGED <<db, progress, task, faultsLeft>>

\* All queued essays, or those among essay_ids (the panel sends none).
SelectEssays(c) ==
  /\ client[c].pc = "select"
  /\ \E rows \in (SUBSET QueuedEssays) \ {{}} :
       /\ PanelOnly => rows = QueuedEssays
       /\ client' = [client EXCEPT ![c].pc = "init", ![c].rows = rows]
  /\ UNCHANGED <<db, progress, task, budget>>

RefuseEmptyBatch(c) ==
  /\ client[c].pc = "select"
  /\ QueuedEssays = {}
  /\ Respond(c)
  /\ UNCHANGED <<db, progress, task, budget>>

InitProgress(c) ==
  /\ client[c].pc = "init"
  /\ progress' = InitializeProgress(client[c].rows)
  /\ client' = [client EXCEPT ![c].pc = "enqueue"]
  /\ UNCHANGED <<db, task, budget>>

\* One grade_essay.delay; workers may take the message at once.
EnqueueGrading(c) ==
  /\ client[c].pc = "enqueue"
  /\ \E e \in client[c].rows :
       /\ Enqueue(e)
       /\ client' = [client EXCEPT
            ![c].rows = @ \ {e},
            ![c].pc = IF client[c].rows = {e} THEN "commit" ELSE "enqueue"]
  /\ UNCHANGED <<db, progress, budget>>

\* Only now is the status set in memory (open -> grading) committed.
CommitTrigger(c) ==
  /\ client[c].pc = "commit"
  /\ aStatus' = IF client[c].seen = "open" THEN "grading" ELSE aStatus
  /\ Respond(c)
  /\ UNCHANGED <<essayStatus, latest, grades, progress, task, budget>>

---------------------------------------------------------------------------
(* POST /essays/{id}/grade/retry: retry_essay_grading *)

\* "Retry" is offered on the essays the panel lists as failed.
PanelOffersRetry(e) == progress.field[e] = "failed"

RetryGrading(c) ==
  /\ client[c].pc = "idle"
  /\ Request("retry")
  /\ \E e \in QueuedEssays :
       /\ PanelOnly => PanelOffersRetry(e)
       /\ client' = [client EXCEPT ![c].pc = "reset", ![c].rows = {e}]
  /\ UNCHANGED <<db, progress, task, faultsLeft>>

ResetProgress(c) ==
  /\ client[c].pc = "reset"
  /\ \E e \in client[c].rows : progress' = ResetEssayForRetry(progress, e)
  /\ client' = [client EXCEPT ![c].pc = "enqueueRetry"]
  /\ UNCHANGED <<db, task, budget>>

EnqueueRetry(c) ==
  /\ client[c].pc = "enqueueRetry"
  /\ \E e \in client[c].rows : Enqueue(e)
  /\ Respond(c)
  /\ UNCHANGED <<db, progress, budget>>

---------------------------------------------------------------------------
(* PATCH /assignments/{id}: update_assignment, its status part *)

PatchStatus(c) ==
  /\ client[c].pc = "idle"
  /\ Request("patch")
  /\ aStatus \in DOMAIN NextStatus
  /\ client' = [client EXCEPT ![c].pc = "patch", ![c].seen = aStatus]
  /\ UNCHANGED <<db, progress, task, faultsLeft>>

CommitPatch(c) ==
  /\ client[c].pc = "patch"
  /\ aStatus' = NextStatus[client[c].seen]
  /\ Respond(c)
  /\ UNCHANGED <<essayStatus, latest, grades, progress, task, budget>>

---------------------------------------------------------------------------
(* POST /essays/{id}/resubmit: resubmit_essay.  One action: the essay row is *)
(* locked FOR UPDATE from the first read to the commit.                      *)

Resubmit(e) ==
  /\ Request("resubmit")
  /\ latest[e] < MaxVersions
  /\ latest' = [latest EXCEPT ![e] = @ + 1]
  /\ essayStatus' = [essayStatus EXCEPT ![e] = "queued"]
  /\ UNCHANGED <<aStatus, grades, progress, task, client, faultsLeft>>

---------------------------------------------------------------------------
(* The grade_essay task *)

\* A worker takes the message and marks the essay as grading, best effort.
StartTask(t) ==
  /\ task[t].pc = "queued"
  /\ \/ /\ progress' = MarkEssayGrading(progress, task[t].essay)
        /\ UNCHANGED faultsLeft
     \/ /\ Fault("redis")
        /\ UNCHANGED progress
  /\ GoTo(t, "load")
  /\ UNCHANGED <<db, client, requestsLeft>>

\* Mutant: the status guard is missing.
UnguardedLoadEssay(t) ==
  /\ task[t].pc = "load"
  /\ GoTo(t, "version")
  /\ UNCHANGED <<db, progress, client, budget>>

LoadEssay(t) ==
  /\ task[t].pc = "load"
  /\ essayStatus[task[t].essay] = "queued"
  /\ GoTo(t, "version")
  /\ UNCHANGED <<db, progress, client, budget>>

\* GradingInProgressError or ConflictError: the task ends, nothing is reverted
\* and Redis is not told.
RejectTask(t) ==
  /\ task[t].pc = "load"
  /\ essayStatus[task[t].essay] # "queued"
  /\ FinishTask(t)
  /\ UNCHANGED <<db, progress, client, budget>>

LoadVersion(t) ==
  /\ task[t].pc = "version"
  /\ task' = [task EXCEPT ![t].pc = "claim", ![t].version = latest[task[t].essay]]
  /\ UNCHANGED <<db, progress, client, budget>>

\* The guard was evaluated on the row read in LoadEssay.
ClaimEssay(t) ==
  /\ task[t].pc = "claim"
  /\ essayStatus' = [essayStatus EXCEPT ![task[t].essay] = "grading"]
  /\ GoTo(t, "llm")
  /\ UNCHANGED <<aStatus, latest, grades, progress, client, budget>>

\* Mutant: the status is committed without the grade.
WriteStatusOnly(t) ==
  /\ task[t].pc = "llm"
  /\ essayStatus' = [essayStatus EXCEPT ![task[t].essay] = "graded"]
  /\ GoTo(t, "report")
  /\ UNCHANGED <<aStatus, latest, grades, progress, client, budget>>

\* The LLM answered; grade, criterion scores and status commit together.
WriteGrade(t) ==
  /\ task[t].pc = "llm"
  /\ <<task[t].essay, task[t].version>> \notin grades
  /\ grades' = grades \union {<<task[t].essay, task[t].version>>}
  /\ essayStatus' = [essayStatus EXCEPT ![task[t].essay] = "graded"]
  /\ GoTo(t, "report")
  /\ UNCHANGED <<aStatus, latest, progress, client, budget>>

\* Mutant: a duplicate grade counts as a success.
AcceptDuplicateGrade(t) ==
  /\ task[t].pc = "llm"
  /\ <<task[t].essay, task[t].version>> \in grades
  /\ GoTo(t, "report")
  /\ UNCHANGED <<db, progress, client, budget>>

\* The unique constraint on essay_version_id rejects the grade; the status is
\* then set to queued whatever it is now, and the task ends with a conflict.
RejectDuplicateGrade(t) ==
  /\ task[t].pc = "llm"
  /\ <<task[t].essay, task[t].version>> \in grades
  /\ essayStatus' = [essayStatus EXCEPT ![task[t].essay] = "queued"]
  /\ FinishTask(t)
  /\ UNCHANGED <<aStatus, latest, grades, progress, client, budget>>

\* Mutant: one retry too many.
RetryOnceMore(t) ==
  /\ task[t].pc = "llm"
  /\ "llm" \in Faults
  /\ task' = [task EXCEPT ![t].pc = "queued", ![t].version = 0, ![t].attempt = @ + 1]
  /\ UNCHANGED <<db, progress, client, budget>>

\* self.retry: the message is queued again; the essay stays as it is.
RetryAfterLLMError(t) ==
  /\ task[t].pc = "llm"
  /\ "llm" \in Faults
  /\ task[t].attempt < MaxRetries
  /\ task' = [task EXCEPT ![t].pc = "queued", ![t].version = 0, ![t].attempt = @ + 1]
  /\ UNCHANGED <<db, progress, client, budget>>

GiveUpAfterLLMError(t) ==
  /\ task[t].pc = "llm"
  /\ "llm" \in Faults
  /\ task[t].attempt = MaxRetries
  /\ GoTo(t, "revert")
  /\ UNCHANGED <<db, progress, client, budget>>

\* Any other exception of the grading run (a database error, the soft time
\* limit), also after the grade is committed.
InternalError(t) ==
  /\ task[t].pc \in {"load", "version", "claim", "llm", "report"}
  /\ "internal" \in Faults
  /\ GoTo(t, "revert")
  /\ UNCHANGED <<db, progress, client, budget>>

\* Mutant: the essay is reverted whatever its status.
RevertUnread(t) ==
  /\ task[t].pc = "revert"
  /\ GoTo(t, "revertWrite")
  /\ UNCHANGED <<db, progress, client, budget>>

\* _revert_essay_to_queued reads the row ...
ReadForRevert(t) ==
  /\ task[t].pc = "revert"
  /\ GoTo(t, IF essayStatus[task[t].essay] = "grading"
             THEN "revertWrite" ELSE "reportFailed")
  /\ UNCHANGED <<db, progress, client, budget>>

\* Mutant: the failure is never reported to Redis.
RevertSilently(t) ==
  /\ task[t].pc = "revertWrite"
  /\ essayStatus' = [essayStatus EXCEPT ![task[t].essay] = "queued"]
  /\ FinishTask(t)
  /\ UNCHANGED <<aStatus, latest, grades, progress, client, budget>>

\* ... and writes it in a later statement.
WriteRevert(t) ==
  /\ task[t].pc = "revertWrite"
  /\ essayStatus' = [essayStatus EXCEPT ![task[t].essay] = "queued"]
  /\ GoTo(t, "reportFailed")
  /\ UNCHANGED <<aStatus, latest, grades, progress, client, budget>>

\* Mutant: a failure is reported as a success.
ReportFailedAsComplete(t) ==
  /\ task[t].pc = "reportFailed"
  /\ Report(t, MarkEssayComplete(progress, task[t].essay))
  /\ UNCHANGED <<db, client, budget>>

ReportFailed(t) ==
  /\ task[t].pc = "reportFailed"
  /\ Report(t, MarkEssayFailed(progress, task[t].essay))
  /\ UNCHANGED <<db, client, budget>>

ReportComplete(t) ==
  /\ task[t].pc = "report"
  /\ Report(t, MarkEssayComplete(progress, task[t].essay))
  /\ UNCHANGED <<db, client, budget>>

\* The conditional UPDATE ... WHERE status = 'grading'.
TransitionToReview(t) ==
  /\ task[t].pc = "review"
  /\ aStatus' = IF aStatus = "grading" THEN "review" ELSE aStatus
  /\ FinishTask(t)
  /\ UNCHANGED <<essayStatus, latest, grades, progress, client, budget>>

---------------------------------------------------------------------------
(* Faults *)

\* Redis is away when the outcome is reported: logged, and the task ends.
LoseReport(t) ==
  /\ task[t].pc \in {"report", "reportFailed"}
  /\ Fault("redis")
  /\ FinishTask(t)
  /\ UNCHANGED <<db, progress, client, requestsLeft>>

\* The worker process dies (hard time limit, restart).  Messages are
\* acknowledged before they run, so the task is gone; the same happens when
\* the error handler itself fails.
CrashWorker(t) ==
  /\ task[t].pc \notin {"idle", "queued"}
  /\ Fault("crash")
  /\ FinishTask(t)
  /\ UNCHANGED <<db, progress, client, requestsLeft>>

\* Redis or the broker is away, or the API process dies: what the request has
\* sent so far stays, its uncommitted status is rolled back.
AbortRequest(c) ==
  /\ client[c].pc # "idle"
  /\ Fault("redis")
  /\ Respond(c)
  /\ UNCHANGED <<db, progress, task, requestsLeft>>

\* At-least-once delivery: a waiting message is delivered a second time.
Redeliver(t) ==
  /\ task[t].pc = "queued"
  /\ Fault("redelivery")
  /\ \E u \in Tasks : task[u].pc = "idle" /\ task' = [task EXCEPT ![u] = task[t]]
  /\ UNCHANGED <<db, progress, client, requestsLeft>>

\* redis_grading_ttl_seconds pass without a write.
ExpireProgress ==
  /\ progress # NoProgress
  /\ Fault("expiry")
  /\ progress' = NoProgress
  /\ UNCHANGED <<db, task, client, requestsLeft>>

---------------------------------------------------------------------------
(* Specification *)

NewRequest(c) == TriggerGrading(c) \/ RetryGrading(c) \/ PatchStatus(c)

ServeRequest(c) ==
  \/ SelectEssays(c) \/ RefuseEmptyBatch(c) \/ InitProgress(c)
  \/ EnqueueGrading(c) \/ CommitTrigger(c)
  \/ ResetProgress(c) \/ EnqueueRetry(c)
  \/ CommitPatch(c)

RunTask(t) ==
  \/ StartTask(t) \/ LoadEssay(t) \/ RejectTask(t) \/ LoadVersion(t)
  \/ ClaimEssay(t) \/ WriteGrade(t) \/ RejectDuplicateGrade(t)
  \/ RetryAfterLLMError(t) \/ GiveUpAfterLLMError(t) \/ InternalError(t)
  \/ ReadForRevert(t) \/ WriteRevert(t)
  \/ ReportFailed(t) \/ ReportComplete(t) \/ TransitionToReview(t)

Next ==
  \/ \E c \in Clients : NewRequest(c) \/ ServeRequest(c) \/ AbortRequest(c)
  \/ \E e \in Essays : Resubmit(e)
  \/ \E t \in Tasks : RunTask(t) \/ LoseReport(t) \/ CrashWorker(t) \/ Redeliver(t)
  \/ ExpireProgress

\* Handlers and workers that can take a step eventually do: the event loop
\* and the worker pool serve everyone, and every LLM call ends by its own or
\* the task's time limit.  Requests and faults need not happen.
Fairness ==
  /\ \A c \in Clients : WF_vars(ServeRequest(c))
  /\ \A t \in Tasks : WF_vars(RunTask(t))

Spec     == Init /\ [][Next]_vars
FairSpec == Spec /\ Fairness

---------------------------------------------------------------------------
(* Properties *)

HasGrade(e) == \E v \in Versions : <<e, v>> \in grades

\* A task is at work on the essay, or will be.
HasTask(e) == \E t \in Tasks : task[t].essay = e

\* An essay the teacher sees as graded has a stored grade, whatever tasks
\* overlap, crash or are repeated (services/grading.py, steps 8 to 10).
GradedEssayHasGrade == \A e \in Essays : essayStatus[e] = "graded" => HasGrade(e)

\* Redis never runs ahead of PostgreSQL: an essay that the progress hash
\* shows as complete has a stored grade.
CompleteMeansGraded ==
  \A e \in Essays : progress.field[e] = "complete" => HasGrade(e)

\* The batch never reports more essays complete than grades were written.
CompleteWithinGrades == progress.complete <= Cardinality(grades)

---------------------------------------------------------------------------
(* Properties of one teacher using the panel: no essay has two tasks.       *)

\* The counters shown to the teacher are the numbers of essays with that
\* outcome, although they are kept apart from the per-essay fields, moved by
\* other tasks in any order and decremented by retries.
ExactCounters ==
  /\ progress.complete = Cardinality({e \in Essays : progress.field[e] = "complete"})
  /\ progress.failed = Cardinality({e \in Essays : progress.field[e] = "failed"})

\* An essay offered for grading can be graded: its newest version has no grade
\* that the unique constraint would hold against the next run.
QueuedIsGradable ==
  \A e \in Essays : essayStatus[e] = "queued" => <<e, latest[e]>> \notin grades

\* A task sets out to move the assignment to review only at a moment when
\* every essay of the batch is complete or failed.
ClosesOnlyWhenSettled ==
  [][(\E t \in Tasks : task[t].pc # "review" /\ task'[t].pc = "review")
       => \A e \in Essays : progress'.field[e] \in {"none", "complete", "failed"}]_vars

Lifecycle == INSTANCE EssayLifecycle
  WITH status <- essayStatus,
       claimed <- [e \in Essays |-> \E t \in Tasks : task[t].essay = e /\ task[t].pc = "llm"]

\* The tasks, their retries, reverts and crashes implement the lifecycle in
\* which one run at a time works on an essay.
ImplementsLifecycle == Lifecycle!Spec

\* While no LLM call has failed and no infrastructure fault has hit, the
\* counters of a batch reach its total, whatever exceptions end its tasks and
\* whatever is retried or resubmitted meanwhile: every task reports an outcome.
NoDisturbance == faultsLeft = MaxFaults /\ \A t \in Tasks : task[t].attempt = 0

BatchIsCounted ==
  []NoDisturbance => (progress.total > 0 ~> IsBatchComplete(progress))

---------------------------------------------------------------------------
(* The inductive strengthening of the invariants (BatchGradingProofs)       *)

\* A slot in use has an essay, and a version from the moment one is loaded.
JobsAreSet ==
  \A t \in Tasks :
    /\ task[t].pc # "idle" => task[t].essay \in Essays
    /\ task[t].pc \in {"claim", "llm"} => task[t].version \in Versions

HandlersHaveRead ==
  \A c \in Clients : client[c].pc = "patch" => client[c].seen \in DOMAIN NextStatus

TypeInv == TypeOK /\ JobsAreSet /\ HandlersHaveRead

\* The tasks whose grade is committed and not yet reported to Redis.
Reporting == {t \in Tasks : task[t].pc = "report"}

ReportsHaveGrades == \A t \in Reporting : HasGrade(task[t].essay)

\* Every grade is counted at most once, now or when its task reports it.
CompletesAndReports ==
  progress.complete + Cardinality(Reporting) <= Cardinality(grades)

IInv == /\ TypeInv
        /\ GradedEssayHasGrade
        /\ CompleteMeansGraded
        /\ ReportsHaveGrades
        /\ CompletesAndReports

---------------------------------------------------------------------------
(* What comments and docs say, and the code does not always do.             *)

\* tasks/grading.py:9-12: after the retries the essay is back in "queued"; it
\* is not left in "grading" with no task that will ever work on it.
GradingHasTask ==
  \A e \in Essays : essayStatus[e] = "grading" => HasTask(e)

\* tasks/grading.py:228-229: a graded essay is not downgraded to queued; only
\* a new version may put it back.
GradedIsNotDowngraded ==
  [][\A e \in Essays :
       essayStatus[e] = "graded" /\ essayStatus'[e] = "queued"
         => latest'[e] > latest[e]]_vars

\* tasks/grading.py:13-15: when all essays have finished, the assignment is
\* moved on from "grading".
FinishedBatchLeavesGrading ==
  /\ IsBatchComplete(progress)
  /\ \A t \in Tasks : task[t].pc = "idle"
  /\ \A c \in Clients : client[c].pc = "idle"
  => aStatus # "grading"
=============================================================================
