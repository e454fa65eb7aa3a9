# Verification of the rubric grading engine

TLA+ models of the rubric grading engine (FastAPI backend, Celery workers,
PostgreSQL, Redis, S3, Next.js frontend), TLC configurations that check them on
small instances, and theorems about them proved with TLAPS.

    tlc -workers 2 -config Any.cfg MCBatchGrading     # check a run
    tlapm BatchGradingProofs.tla                      # check proofs, also of
                                                      #   GradeReviewProofs, SumProofs,
                                                      #   RecommendationsProofs, EssayProofs,
                                                      #   AccountProofs, RecordsProofs,
                                                      #   PlatformProofs

`PROJECT.json` lists the runs, the mutations each property is tried against,
the source lines of every definition, the hazards and the theorems.
Paths below are relative to `src/backend/app/` unless they say otherwise.

1. The system · 2. Modules · 3. Runs · 4. Proofs · 5. Where code and
documentation differ · 6. What is left

## 1. The system

A teacher makes an assignment from a rubric (whose text is snapshotted), essays
are uploaded or composed in the browser, and the teacher triggers grading. Each
essay is graded by a Celery task that calls an LLM, validates the answer and
stores a grade with one score per criterion. The teacher reviews, overrides and
locks grades; a lock feeds skill profiles, groups and the worklist, and these
feed recommendations. Essays may be resubmitted, grades contested, and an
assignment exported.

| Component | State it keeps | Operations | Talks to |
|---|---|---|---|
| Batch trigger, retry (`services/batch_grading.py`) | `assignments.status` | trigger a batch, retry an essay, poll progress | PostgreSQL, Redis hash, Celery queue |
| Progress hash (`services/grading_progress.py`) | `total`, `complete`, `failed`, one field per essay; a TTL | initialise, mark grading / complete / failed, reset for retry, read | called by API and tasks |
| `grade_essay` task (`tasks/grading.py`) | the message and its retry count | run, retry, revert, report, close the batch | grading service, Redis, PostgreSQL |
| Grading service (`services/grading.py`) | `essays.status`, `grades`, `criterion_scores` | guard, claim, call LLM, write grade | LLM client, PostgreSQL |
| LLM client, parsers (`llm/`) | nothing | call with transport retries and one corrective retry; parse and clamp | the model |
| Revision comparison (`services/resubmission.py`) | one row per pair of grades | compute after the grade of a resubmission | grading service, LLM client |
| Assignment lifecycle (`services/assignment.py`) | `assignments.status`, snapshot | create, patch (forward-only status) | PostgreSQL |
| Rubrics, templates (`services/rubric.py`, `rubric_template.py`) | rubrics and criteria | create, update, delete, duplicate, save as template, snapshot | PostgreSQL |
| Essay intake (`services/essay.py`, `student_matching.py`) | `essays`, `essay_versions`, S3 objects | upload, match, assign, compose, resubmit | S3, embedding tasks |
| Writing process (`services/essay.py`, `composition_timeline.py`) | snapshots of a version, cached signals | autosave, analyse | PostgreSQL |
| Integrity, embeddings (`services/integrity.py`, `embedding.py`, `tasks/embedding.py`) | embeddings, reports | check once per version, compare, review, sum up | Celery, Originality.ai |
| Grade review (`services/grade.py`) | `grades.is_locked`, scores, `audit_logs` | feedback, override, lock | sends the lock pipeline |
| Regrade requests (`services/regrade_request.py`) | requests with a status | open (limited per grade), resolve | grade rows, audit log |
| Lock pipeline (`student_skill_profile.py`, `auto_grouping.py`) | profiles, groups | recompute after a lock; edit a group | Celery tasks |
| Worklist (`services/worklist.py`) | items with a status | refresh; complete, snooze, dismiss | reads profiles and groups |
| Interventions (`services/intervention_agent.py`) | recommendations with a status | scan every day; approve, dismiss | reads profiles |
| Instruction recommendations (`services/instruction_recommendation.py`) | cards with a status | generate for a student or a group; assign, dismiss | foreign keys into groups and items |
| Class insights, analytics, CSV (`class_insights.py`, `csv_export.py`) | nothing | aggregate the locked grades | PostgreSQL |
| Export (`services/export.py`, `tasks/export.py`) | record in Redis, archive in S3 | start, build, report, retry | Redis, S3 |
| Authentication, account (`services/auth.py`) | refresh tokens, links and counters in Redis; users | sign up, verify, log in, refresh, log out | Redis, mail tasks |
| Trial e-mails (`tasks/email.py`) | `audit_logs` | mail tasks, daily scan | SMTP |
| Browser client (`src/frontend/lib/api`, `lib/auth`) | an access token per tab | send, refresh once, send again | the API |
| Rosters (`student.py`, `roster_import.py`) | students, enrolments | import with preview, enrol, remove, edit | PostgreSQL |
| Media comments (`services/media_comment.py`) | rows and S3 objects | record, bank, apply, delete | S3 |
| Copilot, onboarding, contact, DPA | rows, counters | ask, count, write | LLM client, Redis |

### What is hard

* **Interleaving.** API handlers and workers share rows without version checks;
  the ORM reads a row in one statement and writes an attribute in a later one,
  so guards are evaluated on old values (`services/grading.py:206`,
  `services/assignment.py:325`, `services/grade.py:300`). The sessions run at READ
  COMMITTED with autoflush off (`db/session.py:91-96`), so a handler's queries
  see neither its own assignments nor one state of the database.
* **Several stores.** PostgreSQL, Redis, S3 and the queue are updated one after
  the other: tasks are sent before the transaction that justifies them commits
  (`services/batch_grading.py:159`), a file is uploaded before its row and
  removed before its row is.
* **Rows replaced under a reader.** The worklist and the groups are recomputed by
  delete and insert, while the teacher acts on rows of before, and other tables
  hold foreign keys into them.
* **Retries.** A Celery retry runs the task from its start against the state
  the failed attempt left behind (`tasks/grading.py:309`, `tasks/export.py:534`,
  `tasks/email.py:422`).
* **Crashes and delivery.** `acks_late` is not set, so a worker that dies loses
  its task; the broker may deliver a message twice.
* **Expiry.** The progress hash and the export record disappear after their TTL, and
  the functions that write them also run on a missing key; a counter gets its TTL in a
  second command.
* **Duplicated counters.** `complete` and `failed` are kept apart from the
  per-essay fields and decide when the batch closes.
* **Boundaries.** Weights validated with one rounding and stored with another,
  windows of whole days over a moment in time, scores out of range or missing.

### What makes each component correct

| Component | Properties | Outcome |
|---|---|---|
| Grading | a graded essay has a grade; a queued one can be graded; one run per essay; nothing is left in `grading` with no task | proved; the last fails (5.) |
| Progress | never ahead of PostgreSQL; counters exact; closes only when settled; reaches its total | proved; the last checked |
| Assignment | does not stay `grading` after the batch | fails (5.) |
| Grade review, regrade | one lock and one entry for it; the log explains every score and has every resolution that stands; the request limit; total is the sum of criteria; a request resolved once; no edit after the lock | proved; the last three fail (5.) |
| LLM answers, comparison | an answer fits the rubric; deltas of criteria sum to the delta of the totals | proved |
| Intake | every version has a file of its own and every file a version | proved |
| Writing process | snapshots stay; signals are those of the snapshots and add up | proved |
| Integrity | reports appear, keep their verdict, are summed up truly | proved; every pair reported fails (5.) |
| Lock pipeline | profile, groups and worklist reflect the last lock; a group's label tells its history and whether it is empty; the pipeline comes to rest | proved, but for the rest, which is checked; with two workers the first fails (5.) |
| Worklist | no duplicate active item; a decision survives refreshes; answers are true; signals follow the grades | proved |
| Recommendations | one pending intervention per signal; the log tells each status | proved |
| Insights | the screens agree with the locked grades and each other | proved, but for a grade locked while an override of it is under way |
| Export | complete means an archive; an export ends | the first proved, the second checked |
| Account | counters expire; a link verifies once; trial mails come once; the log is true | proved; the first fails if a request ends between two commands (5.) |
| Session | a refresh token is consumed once; one tab stays logged in | proved |
| Rosters | importing again adds nothing | proved |
| Rubrics | every set of criteria holds whole saves whose weights sum to 100 | proved; fails for the set as a whole (5.) |
| Media | a comment can be played until its deletion; no object without an owner | proved |

## 2. Modules

| Module | What it is |
|---|---|
| `GradingProgress` | pure operators on the Redis hash: each is one pipeline or Lua script of `services/grading_progress.py`, plus the two readings of the counters (`_is_batch_complete`, `_derive_batch_status`) |
| `BatchGrading` | the state machine of grading: handlers, tasks, rows, the hash, faults |
| `EssayLifecycle` | the abstract specification: an essay is claimed by one run, graded with a new grade, or abandoned and released; no tasks, no Redis |
| `GradeReview` | one grade under review: handlers, row locks, scores, requests, audit log |
| `SkillSignals` | pure functions: the weighted average and trend of a profile, the five triggers of the worklist, the signals of the intervention agent |
| `ClassPipeline` | what follows a lock: the three tasks, the worklist, the teacher's calls |
| `Recommendations` | extends it with interventions and instruction recommendations |
| `WritingProcess` | pure functions: sessions, pastes and rapid completions of a sequence of snapshots |
| `EssayIntake` | uploads, resubmissions, assignment, composition, autosave, signals cache |
| `IntegrityCheck` | the task that checks a version, its two providers, the teacher's review |
| `ExportJob` | the export's record, task and retries |
| `BrowserSession` | tabs, their refresh, the tokens Redis knows |
| `TeacherAccount` | sign-up, verification, rate counters, mails, the daily scan |
| `ClassRoster` | students of a class, enrolled by hand or imported |
| `RubricBook` | rubrics, copies, templates, snapshots |
| `MediaComments` | recorded comments and their objects |
| `LlmAnswer` | calls of the model, parsing, the grade and the comparison made of it |
| `ClassInsights` | three screens about locked grades |
| `Platform` | the ten modules from `EssayIntake` to `ClassInsights` in this list, side by side |
| `Rows` | what a loop over a list keeps of it: the elements at some positions, in order |
| `MC...` | small sets and symmetry for TLC |
| `BatchGradingProofs`, `GradeReviewProofs`, `RecommendationsProofs` | theorems about grading, review, and what follows a lock |
| `SumProofs` | lemmas about sums over finite sets and functions, which the other proof modules cite |
| `EssayProofs` | theorems about intake, writing process and integrity |
| `AccountProofs` | theorems about the teacher's account and the browser's session |
| `RecordsProofs` | theorems about media comments, exports, rosters, LLM answers, rubrics and insights |
| `PlatformProofs` | that every behaviour of `Platform` is one of each of its parts, and so the theorems about `PlatformSpec` |

`BatchGrading` hands over to `GradeReview`: the grade that `WriteGrade` stores is
the one whose review `GradeReview!Init` starts. Nothing flows back, since no
review operation touches the essay, the batch or the hash. The lock of a grade in
`GradeReview` sends the three messages with which `ClassPipeline!LockGrade`
starts. `Recommendations` extends `ClassPipeline`, whose rows it refers to by
foreign keys, and `ClassPipeline` extends `SkillSignals`; `EssayIntake` extends
`WritingProcess`. The parts of `Platform` share no rows, objects or keys that
their properties are about; a behaviour therefore takes the steps of one part,
chosen at the start, which leaves out only interleavings of steps that commute.

### Batch grading: state and code

`aStatus`, `essayStatus`, `latest` and `grades` are the columns
`assignments.status`, `essays.status`, the highest `essay_versions.version_number`
and the rows of `grades` (unique per version). `progress` is the hash
`grading:progress:{assignment_id}`. `task` holds the Celery messages, waiting
or running; a slot that is free is `idle`. `client` holds API requests in
progress, with what they have read: `seen` (the status of the assignment when
the handler loaded it) and `rows` (the essays it selected).

**Grain.** An action is one transaction, one Redis command or script, or one
message sent. Wherever the code may be overtaken between a read and the write
that uses it, the read and the write are two actions:

| Code | Actions |
|---|---|
| `trigger_batch_grading` | `TriggerGrading` (read and status check), `SelectEssays` / `RefuseEmptyBatch`, `InitProgress`, one `EnqueueGrading` per essay, `CommitTrigger` |
| `retry_essay_grading` | `RetryGrading` (guard), `ResetProgress`, `EnqueueRetry` |
| `update_assignment` (status) | `PatchStatus` (read, `_validate_transition`), `CommitPatch` |
| `resubmit_essay` | `Resubmit`, one action because the essay row is locked `FOR UPDATE` from the first read to the commit |
| `tasks.grade_essay` start | `StartTask` (the best-effort `mark_essay_grading`) |
| `services.grade_essay` | `LoadEssay` or `RejectTask`, `LoadVersion`, `ClaimEssay`, then `WriteGrade` or `RejectDuplicateGrade` |
| error branches of the task | `RetryAfterLLMError`, `GiveUpAfterLLMError`, `InternalError`, `ReadForRevert`, `WriteRevert`, `ReportFailed`, `LoseReport` |
| success branch | `ReportComplete`, `TransitionToReview` |

`LoadEssay` evaluates the `queued` guard although the code does it a few
statements later (line 206): the guard reads the attribute loaded at line 136,
which nothing refreshes, so it is the read that counts. `InternalError` stands
for every exception but an LLM error, before or after the grade is committed:
the soft time limit, a database error, a validation error.

**Faults** are `llm` (an LLM call fails), `internal` (an exception in a run),
`crash` (a worker dies), `redis` (Redis or the broker is away), `expiry` (the
hash outlives its TTL), `redelivery` (a waiting message is delivered twice). The
first two are ordinary outcomes of a call and are not bounded in number, except
by the retry limit; the others are charged to `MaxFaults`. An API request that
fails halfway is `AbortRequest`, whichever of Redis, the broker or the process
went away: what it sent stays, its uncommitted status is rolled back.

**`PanelOnly`** restricts requests to what `BatchGradingPanel.tsx` (in
`src/frontend/components/grading/`) offers to one teacher: "grade" while no
batch is processing, always with all queued essays, and "retry" on an essay shown
as failed. With `FALSE` the API is called in any order by several clients.

**Left out.** Display names and error texts in the hash, scores, confidence
values, strictness and prompts, tenant checks, logging. A missing key is a hash
with `total = 0` and no fields: the code reads both through `HGETALL` with default
zero.

### Grade review: state and code

`aiScore`, `teacherScore` and `finalScore` are the columns of
`criterion_scores`; `totalScore` and `isLocked` those of `grades`; `status` and
`target` those of `regrade_requests`; `audit` is `audit_logs` in the order of the
commits, `at` its `created_at`. `session` is what each running handler has read, and `gradeLock` and
`requestLock` are the rows held `FOR UPDATE`.

**Grain.** PostgreSQL runs the handlers at READ COMMITTED, so each `SELECT` sees
what is committed when it runs and is an action of its own. The sessions have
autoflush off (`db/session.py:95`): attributes set on ORM objects reach the
database in the flush at the end, so the commit is one action that makes all
writes of the handler appear. Two consequences shape the model:

* a query that follows an assignment in the same handler does not see it
  (`SumScores`);
* the flush writes a column only if its new value differs from the one the
  session loaded (`Flush`), so two overlapping edits can merge column by column.

**Time stamps.** `audit_logs.created_at` is `func.now()` (`models/audit_log.py:55-59`),
in PostgreSQL the start of the transaction, and the log is read in that order
(`services/grade.py:562-563`). A transaction starts with the query that looks up the
teacher, on the session of the handler (`dependencies.py:78`), hence `Begin` is an
action of its own, and anything may commit between it and the first query on the
grade. `session[c].began` is the stamp, and `IsLast` says which entry a reader of the
log takes for the newest. An entry can so be listed before another one that was
committed earlier: an edit before the lock it followed, or of two resolutions of one
request the one that stands before the one it has overwritten. Two transactions that
start in the same microsecond are left out.

| Code | Actions |
|---|---|
| `get_current_teacher`, in every handler | `Begin` |
| `override_criterion` | `StartOverride` (grade loaded, lock check), `ReadCriterion`, `SumScores`, `CommitOverride`; an edit of the feedback alone skips the sum |
| `update_grade_feedback` | `StartFeedback`, `CommitFeedback` |
| `lock_grade` | `StartLock`, `LockGrade` (the conditional `UPDATE`, whose row lock lasts to the commit) |
| `create_regrade_request` | `StartSubmit`, `LockGradeRow`, `CountRequests`, `InsertRequest` or `RefuseOverLimit` |
| `resolve_regrade_request` | `StartResolve` (request loaded, with its status), `LockRequestRow`, and with a new score `ReadCriterion`, `ReadGrade` or `RefuseLocked`, `SumScores`; `CommitResolution` |
| any handler that ends without a commit | `Abort` |

**`OneEditor`** says that two calls that set the score of the same criterion do
not overlap, as with one teacher in one window: the second begins after the first has
ended. Everything else still overlaps.
With `FALSE` the model has every overlap; `ScoresAreAudited` then fails (section 5).

**Left out.** Feedback texts (but not their log entries), the submission window, who the
teacher is, the tasks that a lock enqueues (they are in `ClassPipeline`), and calls that
are refused before they read anything another call changes.

### After a lock: `SkillSignals`, `ClassPipeline`, `Recommendations`

One teacher with one class and one skill. `locked` is the history of normalised
scores of each student's locked grades, `profile` the history the
`student_skill_profiles` row sums up, `group` the `student_groups` row of the
skill, `items` the `teacher_worklist_items`; `interventions` and
`recommendations` are the two tables of advice with the actions of their audit
entries. `queue` is the broker in the order of sending, `worker` and `call` what
each running task and handler has read. A row of a table that is recomputed has
the number of the run that made it as its id, so a row of the same signal in a
later list is another row.

| Code | Actions |
|---|---|
| `lock_grade` (messages) | `LockGrade`; each of the three `.delay` calls is best effort and may be lost |
| `tasks/skill_profile.py`, `student_skill_profile.py` | `ReadGrades`, `UpsertProfile` |
| `compute_and_persist_groups` | `ReadProfiles`, `LockClass` (class row, old groups), `ReplaceGroups` |
| `update_group_members` | `LoadGroup`, `EditGroup` |
| `generate_teacher_worklist`, `compute_and_persist_worklist` | `StartWorklist` (profiles), `ReadSignals` (groups, grades), `DeleteActive` (user row locked), `InsertItems` |
| `complete_`, `snooze_`, `dismiss_worklist_item` | `LoadItem`, `UpdateItem` (waits for a worker that deletes the row) |
| `scan_teacher_for_interventions` | `Beat`, `StartScan`, `ReadPending`, `Propose` |
| `approve_`, `dismiss_intervention` | `LoadAdvice`, `DecideIntervention` |
| `generate_group_`, `generate_student_recommendations` | `StartGroupAdvice`, `StartStudentAdvice`, then, after the LLM, `InsertAdvice` |
| `assign_`, `dismiss_recommendation` | `LoadAdvice`, `DecideRecommendation` |
| foreign keys of the cards | `ReplaceGroupsAndAdvice` (`ON DELETE CASCADE`), `InsertItemsAndDetach` (`SET NULL`) |
| a task that raises or dies | `FailTask`: sent again or lost |

`SkillSignals` keeps the arithmetic of the profile (the i-th assignment weighs i;
the trend is the mean of the newer half against that of the older) as sums over a
history of percentages; comparisons with thresholds are made with products of
integers, so nothing is rounded. Left out: several skills per grade and their
canonical names, ranking and details of an item, the date a snooze ends, and what
the LLM writes on a card.

### Intake and writing: `EssayIntake`, `WritingProcess`

`essay` are the rows of `essays` with their versions, `objects` the keys in the
bucket, `server` what each handler has read.

| Code | Actions |
|---|---|
| `ingest_essay` | `StartIngest`, `Upload`, `Extract` or `CleanUp`, `CommitIngest`; `MatchStudent` says which students a file may get |
| `resubmit_essay` | `StartResubmit` (essay row locked), `Upload`, `Extract` or `CleanUp`, `CommitResubmit` |
| `assign_essay_to_student` | `StartAssign`, `Assign` |
| `create_composed_essay` | `Compose` |
| `save_writing_snapshot` | `LockSnapshots` (version row locked), `SaveSnapshot` |
| `get_process_signals` | `ReadSignals`, `StoreSignals` |
| a failing or dying handler | `Die`, `CleanUp` |

`WritingProcess!Timeline` is `analyze_writing_process`: sessions split at gaps,
pastes and rapid completions, each with the session it belongs to. A snapshot is a
time stamp and a number of words. Stamps may go back, since two servers have two
clocks, so `Parsed` sorts by time and keeps the order of snapshots of one minute:
`Place` counts those that come before.

### Integrity: `IntegrityCheck`

`tasks` is a bag of messages, `embedded` the versions with a committed
embedding, `reports` the rows by version and provider.

| Code | Actions |
|---|---|
| `compute_essay_embedding` | `TakeTask`, `Fault` (LLM error: sent again), `CheckerDies`, `Redeliver` |
| `OriginalityAiProvider.check` | `AskProvider` (or the internal provider), `RecordReport` |
| `InternalProvider.check` | `StoreEmbedding`, `Candidates`, `Compare` |
| `flag_similar_essays` | `Deduplicate`, `Flag` (one commit for all matches) |
| `update_integrity_report_status` | `Review` |
| `get_integrity_report_for_essay`, `..._summary_for_assignment` | `ReportsShown`, `Summary` (operators) |

### Export: `ExportJob`

`job` is the hash in Redis, `zip` the object, `exporter` the running task.

| Code | Actions |
|---|---|
| `trigger_export` | `CreateRecord`, `SetTtl`, `CommitAudit`, `Send`, or `RaiseRequest` |
| `_run_export` | `StartExport`, `LoadEssays`, per essay `AddPdf` or `SkipEssay`, `CloseZip`, `UploadZip` or `RefuseEmptyZip`, `MarkComplete`, `ExtendTtl`, `ReportFailure` |
| `export_assignment` | `RaiseExport` (retry or end) |
| worker dies, key expires | `ExporterDies`, `Expire` |

### Session: `BrowserSession`

`tokens` are the refresh tokens Redis knows, `cookie` the one in the jar, `tab`
and `sending` the state of the pages and their requests.

| Code | Actions |
|---|---|
| `apiFetch` (`lib/api/client.ts`) | `SendRequest`, `Accepted`, `Answer401`, `Refused` |
| `silentRefresh`, `logout` (`lib/auth/session.ts`) | `AskRefresh`, `Refreshed`, `AnswerLost`, `Leaves`, `LogoutAnswered`, `LogoutFails` |
| `consume_refresh_token`, `refresh_access_token` | `Consume`, `Issue` (two actions: the handler may die between) |
| `login_user`, `logout_user` | `Login`, `LogoutOnServer` |
| an access token expires | `ExpireAccess` |

### Account: `TeacherAccount`

| Code | Actions |
|---|---|
| `_check_rate_limit` | `CountRequest` (INCR), `SetWindow` (EXPIRE), `WindowEnds` |
| `create_user`, `resend_verification` | `CheckEmail`, `CreateUser`, `ResendVerification`, `StoreVerificationToken`, `OrderVerification` |
| `verify_email` | `ConsumeVerificationToken`, `ReadUser`, `MarkVerified`, `OrderWelcome` |
| `create_inquiry`, `create_dpa_request` | `CreateInquiry`, `CreateDpaRequest` |
| mail tasks | `SendMail`, `WriteEmailAuditLog`, `RetryMail`, `MailerDies` |
| `scan_trial_expirations` | `ScanWindow` for each of three windows, `ScanDies`; `Tick` is a quarter of a day |
| a handler that ends early | `VisitDies` |

### Rosters, rubrics, media

| Code | Actions |
|---|---|
| `build_import_diff`, `commit_roster_import` | `StartImport`, `ReadRoster`, `ReadKnown`, `CommitImport`; `ImportDiff` is the comparison |
| `enroll_student`, `remove_enrollment`, `update_student` | `StartEnroll`, `CommitEnroll`, `RemoveEnrollment`, `UpdateStudent` |
| `create_`, `update_`, `delete_`, `duplicate_rubric` | `CreateRubric`, `StartUpdate`, `CommitUpdate`, `StartDelete`, `CommitDelete`, `StartCopy`, `DuplicateRubric` |
| `save_rubric_as_template`, `create_assignment`, `update_assignment` | `SaveAsTemplate`, `CreateAssignment` (with `RubricSnapshot`), `MoveAssignment` |
| `create_media_comment`, `apply_banked_comment` | `StartRecording` or `StartApply`, `UploadFile` or `CopyFile`, `CommitComment` or `CommitFails`, `CleanUpRecording` |
| `save_to_bank`, `delete_media_comment` | `SaveToBank`, `StartDeleteComment`, `DeleteFile` |
| `storage/s3.py` failing, a handler dying | `RecorderFails` |

Weights are integers: thousandths as sent, hundredths as stored, so that the two
roundings can be told apart. `db.delete` in `update_rubric` and
`delete_media_comment` is never awaited; the models delete nothing there.

### LLM answers and screens: `LlmAnswer`, `ClassInsights`

| Code | Actions |
|---|---|
| `_chat_with_retry`, `call_grading` and the other calls | `TransportError`, `GoodReply`, `BrokenReply` (one corrective retry); `ParseGrading`, `ParseRevision`, `ParseInstruction`, `ParseCopilot` are operators |
| `grade_essay` (scores, total, confidence) | `StoreGrade`, `GraderDies` |
| `compute_revision_comparison` | `ReadTotals`, `ReadScores`, `FeedbackAddressed` or `Fail`, `PersistComparison`; `OverrideMeanwhile` is the teacher |
| `get_class_insights` | `GetClassInsights` |
| `get_assignment_analytics` | `CountLockedEssays`, `ReadScoreRows` |
| `export_grades_csv` | `ReadMarks`, `ReadColumns` |
| `override_criterion` meanwhile | `StartOverrideMark` (grade loaded, lock check), `CommitOverrideMark`, `DropOverrideMark` |
| `lock_grade` meanwhile | `LockMark` |

A reply is broken or a list of items, each with a criterion, a number (perhaps
unreadable or infinite), a text long enough or not, and a confidence. Prompts and
texts are left out. Averages are compared as sums, before they are rounded to four
decimals. A normalised score is its exact share of the range `LeastScore .. TopScore`,
in fifths of a point; criteria with one possible score, which the code gives the full
share, are left out. `settled` is history: the grade was locked while no override of
it was under way. An override takes no lock, so one that began before the lock may be
stored after it, also between the two statements of the CSV.

## 3. Runs

| Run | Question | Bounds | Outcome |
|---|---|---|---|
| `batch_any` | Do PostgreSQL and Redis agree on what is graded, whatever is called and whatever fails? | 2 essays, 2 task slots, 2 handlers, 2 requests, 1 fault, 1 retry, 2 versions | holds, 3.1 million states |
| `batch_panel` | With one teacher and one panel, are counters exact, is the batch closed at the right time, do the tasks implement the essay lifecycle, is an undisturbed batch counted to the end? | 2 essays, 2 slots, 1 handler, 3 requests, 1 fault | holds, 470 thousand states |
| `review` | Does the audit log agree with scores, lock and resolutions, does the request limit hold, is every call answered? | 2 criteria, 2 scores, 2 requests with a limit of 1, 2 handlers, 3 calls, `OneEditor` | holds, 275 thousand states |
| `class` | Do refreshes, scans, edits and decisions overlap without doubling a row, losing a decision or answering what is not so; does a quiet pipeline reflect the last lock; does it come to rest? | 2 students, one of them failing in a class of one, 2 workers, 2 handlers, eight modes (below) | holds, 362 thousand states |
| `platform` | Each of the ten parts of `Platform`: what its properties below say | two handlers or workers per part, see below | holds, 570 thousand states |
| `orphan` | Does a failed LLM call leave a gradable essay? | a single trigger, `llm` | violated |
| `downgrade` | Does a graded essay stay graded? | 1 essay, a single trigger, one `redelivery` | violated |
| `late_commit` | Does a finished batch leave `grading`? | 2 essays, a single trigger, no fault | violated |
| `total_stale` | Is the total the sum of the criteria? | 1 handler, 1 call | violated |
| `double_resolve` | Is a request resolved once? | 2 handlers, 3 calls | violated |
| `similar` | Is every pair of similar versions reported? | 3 versions, all similar, internal provider | violated |
| `doubled_weights` | Do the weights of a rubric sum to 100? | `RubricBook` with valid drafts only | violated |

**Why the bounds are enough.** In `batch_any` and `batch_panel` the interesting
interleavings involve one essay and two tasks (a duplicate), two essays and two
tasks (the last report closes the batch), or two handlers (a second trigger
overwriting the hash, a patch on a stale status). Two requests allow trigger +
retry, trigger + trigger, trigger + resubmit and so on; the panel run has three so
that a batch can fail, be retried and be resubmitted. One retry shows both the
branch that retries and the one that gives up. Two slots bound the messages in
flight: a third essay's message waits in the handler (`Enqueue` is enabled when a
slot is free), so batches of two are sent in full.

In `review` two handlers are enough for every race that the row locks and
conditional updates are there to prevent, since each involves one call that is
overtaken by another. Three calls allow a submission and two resolutions of it that
overlap and commit in either order, an edit with a lock and a call that began before
both, or three submissions. One request is what
`settings.regrade_max_per_grade` allows by default, and a second id gives an
overrun somewhere to go. Two scores tell apart old from new; two criteria
tell apart edits that collide from edits that do not.

`class` would be too large with everything at once, so a behaviour begins by
choosing a mode: the screen the teacher works on (worklist, groups or advice), one
worker or two, and how many locks, calls, faults and scans there are. Each mode
pairs the actors of one hazard: two locks (hence two refreshes and two recomputes)
with one call, one lock with two calls, one lock with a failing task and a scan,
three decisions without a lock, two scans with two decisions. The failing student's
history (40, 40 per cent) makes group and items exist from the start, and a lock of
2 or 9 of 10 points makes them go or stay. The other student is not in the class,
and has resubmitted with a small gain, so the remaining triggers fire too.

In `platform` the bounds are those of `MCPlatform`: two handlers (or workers, tabs)
wherever two can meet, one fault in most parts and two where a retry must fail as
well (export, LLM), one retry, one redelivery. Three versions, of which two are
similar and one is a resubmission, show a pair in both orders and a summary that must
choose. Four refresh tokens let each of two tabs refresh twice. The trial of 30 days
is followed for 32, so every window is passed at every quarter of a day it may end at.
The rosters have a spelling variant, a row without a number and one without a
name; the drafts one pair of weights that only rounding makes 100. The replies
have one odd item each: a score below, above, missing, unreadable or infinite, an
unknown criterion or confidence, a short text, a repeated criterion.
Three grades, two of them of one essay, are locked while one override is under way and one
screen is computed, since the screens read and nothing is kept of them.

**Deadlock** is not checked: when every call has been made and every task has
ended, the system rests. Handlers that wait for each other are caught by
`EveryCallIsAnswered` and `PipelineDrains` instead.

**Symmetry** permutes essays, tasks and handlers in `batch_any`, where only
invariants are checked, and not in runs with temporal properties.

### What the properties say

In `batch_any`:

* `GradedEssayHasGrade`: `graded` in PostgreSQL means that a grade exists, under
  overlapping, repeated, reverted and dying tasks.
* `CompleteMeansGraded`: Redis is never ahead of PostgreSQL.
* `CompleteWithinGrades`: a repeated message, a retry or a second batch never
  makes the counter exceed the grades written.

In `batch_panel`:

* `ExactCounters`: `complete` and `failed` equal the number of fields with that
  outcome. It fails when the API is called freely (a hash overwritten while
  tasks of the previous batch run, or an expired key), hence the panel.
* `QueuedIsGradable`: an essay offered for grading has a newest version without
  a grade, so the unique constraint will not reject it for ever.
* `ClosesOnlyWhenSettled`: a task sets out to move the assignment to `review`
  only when no field is `queued` or `grading`.
* `ImplementsLifecycle`: refinement of `EssayLifecycle`, with an essay `claimed`
  while a task waits for the LLM with it.
* `BatchIsCounted`: if nothing disturbs the run, a batch that starts is
  eventually counted to its total.

In `review`:

* `OneLockEntry`: one `grade_locked` entry if the grade is locked and none
  otherwise, however many calls race.
* `RequestLimit`: concurrent submissions never exceed the limit per grade.
* `ResolutionIsAudited`: a resolved request has an entry with the outcome that stands,
  and an open one has none. If it is resolved twice, both outcomes are in the log, and
  the newest entry may be the one that was overwritten; more cannot be promised.
* `ScoresAreAudited`: a final score is what the newest override entry of its criterion
  by time stamp says, or the AI's score if there is none, and equals
  `COALESCE(teacher, ai)`.
* `EveryCallIsAnswered`: row locks are always given back.

In `class`:

* `ActiveItemsAreUnique`: two refreshes that overlap leave one active item per
  signal; no unique key helps, only the lock of the user row between `DELETE` and
  `INSERT`.
* `DecisionsAreKept`: a completed, snoozed or dismissed item outlives every
  refresh, and completed and dismissed are final.
* `AnswersAreTrue`: a call that answers 200 has had its effect, even if the row was
  deleted, replaced or decided between its `SELECT` and its `UPDATE`.
* `StabilityTellsHistory`: a group is `exited` exactly while nobody is in it, although an
  edit decides by a row that another edit or a recompute has changed since; and without
  edits a recomputed group is `persistent` exactly if an active
  one was there when it was replaced, `exited` when one dissolves.
* `SettlesInOrder`: with one worker and no failure, the order of the three messages
  suffices for profiles, groups and worklist to reflect the last lock. With two
  workers it does not (section 5).
* `DecisionsAreLogged`: one pending intervention per signal, and a log with one
  entry per transition.
* `SignalsFollowGrades`: recent grades weigh more, and the agent reports only what the
  worklist reports too, although it computes it with thresholds of its own.
* `PipelineDrains`: nothing waits for a row for ever.

In `platform`:

* `FilesMatchVersions`: a version has a file of its own whatever uploads of one file
  name overlap, and no object is left without a version but by the failures it names.
* `SnapshotsAreKept`: a committed snapshot stays in its place, when two windows save.
* `SignalsAreFaithful`: sessions, gaps, pastes and active time of any sequence of
  stamps fit together, and cached signals are those of the present snapshots although
  only their number is compared.
* `ReportsAreKept`: two versions similar to each other alone are reported in whatever
  order their tasks run; a verdict outlives every further check; the summary
  counts each essay once, by the report its page shows.
* `CompleteIsDownloadable`: a complete export has its archive and its count,
  whatever was tried again. `ExportsEnd`: it ends complete, failed or expired.
* `RefreshIsSafe`: a refresh token buys one session, and a teacher with one tab is never
  sent to the login page by expiry alone.
* `MailsAreAccountedFor`: one welcome per link used; the trial's three mails once
  each, by the scan of the right day; an `email_sent` entry for each mail sent.
* `CountersExpire`: nothing but a request that ends between two commands keeps
  somebody out for ever. That one does (section 5).
* `ReimportAddsNothing`: rows imported before are skipped, and no student number
  is given twice by one import at a time.
* `WeightsAreWhole`: criteria that one save wrote sum to 100, but for a hundredth
  each, in rubrics, copies and snapshots alike.
* `CommentsCanBePlayed`: a comment has its object, also when the one it was copied
  from is deleted, and no object is forgotten.
* `AnswersFitTheRubric`: one entry per criterion, scores in range or 0 when missing,
  confidence lowered by every clamp, no more calls than the retries allow.
* `ComparisonAddsUp`: deltas of criteria sum to the delta of totals, although they are
  read in two statements, unless a score was overridden. An override in between
  does break the sum.
* `ScreensAgree`: a common issue is someone's issue; the analytics show the scores of
  every essay they count; a line of the CSV, read in two statements, is what the grade
  says for good. The lines of grades locked while an override was under way are
  excluded, since their two halves need not fit together (section 5).

**Fairness.** In `BatchGrading`, `FairSpec` has weak fairness of each request
handler and each task slot: the event loop and the worker pool serve everyone, and
an LLM call ends by its answer or a time limit. Within a slot the outcome is not
chosen: an LLM call is not assumed to succeed. No request and no fault is assumed to
happen. `BatchIsCounted` assumes no LLM error and no infrastructure fault
(`NoDisturbance`), because with one the code loses the essay (section 5);
exceptions, retries by the teacher and resubmissions stay allowed. In `GradeReview`,
`FairSpec` has weak fairness of each handler, in `Recommendations` of each worker
and of each call that has begun. It is enough for those that wait for a row: a row
lock is held only while its holder has one or two steps to go, and calls, locks and
scans are finite in number. In `Platform` the worker goes on with the export it has
begun or is sent; no failure is assumed not to happen, `ExportsEnd` names those it
excuses.

## 4. Proofs

Each theorem is proved for all values of the constants that satisfy the named
assumptions: any number of essays, students, handlers, workers and tasks, any bound.

| Module | Theorem | Statement |
|---|---|---|
| `BatchGradingProofs` | `TypeCorrect`, `BatchTypesHold` | `Spec => []TypeInv`, `Spec => []TypeOK` |
| | `GradedEssaysHaveGrades` | `Spec => []GradedEssayHasGrade` |
| | `CompleteEssaysHaveGrades` | `Spec => []CompleteMeansGraded` |
| | `CompletesAreGrades` | `Spec => []CompleteWithinGrades` |
| | `CountersAreExact` | `OneTeacher /\ Spec => []ExactCounters` |
| | `QueuedIsAlwaysGradable` | `OneTeacher /\ Spec => []QueuedIsGradable` |
| | `ClosesAlwaysWhenSettled` | `OneTeacher /\ Spec => ClosesOnlyWhenSettled` |
| | `BatchImplementsLifecycle` | `OneTeacher /\ Spec => ImplementsLifecycle` |
| `GradeReviewProofs` | `ReviewTypeCorrect`, `ReviewTypesHold` | `Spec => []TypeInv`, `Spec => []TypeOK` |
| | `SubmissionsAreLimited` | `Spec => []RequestLimit` |
| | `LockIsLoggedOnce` | `Spec => []OneLockEntry` |
| | `ResolutionsAreAudited` | `Spec => []ResolutionIsAudited` |
| | `ScoresAreExplained` | `OneEditor` implies `Spec => []ScoresAreAudited` |
| `RecommendationsProofs` | `AdviceTypesHold` | `AdviceSpec => []AdviceTypeOK` |
| | `ActiveItemsAreAlwaysUnique` | `AdviceSpec => []ActiveItemsAreUnique` |
| | `DecisionsAreNeverLost` | `AdviceSpec => DecisionsAreKept` |
| | `StabilityAlwaysTellsHistory` | `AdviceSpec => StabilityTellsHistory` |
| | `ExitedIsAlwaysEmpty` | `AdviceSpec => []ExitedIsEmpty`, a part of `StabilityTellsHistory` |
| | `DecisionsAreAlwaysLogged` | `AdviceSpec => []DecisionsAreLogged` |
| | `AnswersAreAlwaysTrue` | `AdviceSpec => AnswersAreTrue` |
| | `PipelineAlwaysSettles` | `AdviceSpec => []SettlesInOrder` |
| | `SignalsAlwaysFollowGrades` | `AdviceSpec => []SignalsFollowGrades` |
| `EssayProofs` | `IntakeIsConsistent`, `IntakeTypesHold` | `IntakeSpec => []IntakeInv`, `IntakeSpec => []IntakeTypeOK` |
| | `FilesAlwaysMatchVersions` | `IntakeSpec => []FilesMatchVersions` |
| | `SnapshotsAreAlwaysKept` | `IntakeSpec => SnapshotsAreKept` |
| | `CachedSignalsAreAlwaysCurrent` | `IntakeSpec => []SignalsAreCurrent`, a part of the next |
| | `SignalsAreAlwaysFaithful` | `IntakeSpec => []SignalsAreFaithful` |
| | `IntegrityIsConsistent`, `IntegrityTypesHold` | `IntegritySpec => []IntegrityInv`, `IntegritySpec => []IntegrityTypeOK` |
| | `ReportsAreAlwaysKept` | `IntegritySpec => []ReportsAreKept` |
| `AccountProofs` | `AccountTypesHold` | `AccountSpec => []AccountTypeOK` |
| | `CountersAlwaysExpire` | `AccountSpec => []CountersExpire` |
| | `LinksAlwaysWorkOnce` | `AccountSpec => []LinksWorkOnce`, a part of the next |
| | `MailsAreAlwaysAccountedFor` | `AccountSpec => []MailsAreAccountedFor` |
| | `SessionIsConsistent`, `SessionTypesHold` | `SessionSpec => []SessionInv`, `SessionSpec => []SessionTypeOK` |
| | `RefreshIsAlwaysSafe` | `SessionSpec => []RefreshIsSafe` |
| `RecordsProofs` | `MediaTypesHold` | `MediaSpec => []MediaTypeOK` |
| | `CommentsCanAlwaysBePlayed` | `MediaSpec => []CommentsCanBePlayed` |
| | `ExportTypesHold` | `ExportSpec => []ExportTypeOK` |
| | `CompleteIsAlwaysDownloadable` | `ExportSpec => []CompleteIsDownloadable` |
| | `RosterIsConsistent`, `RosterTypesHold` | `RosterSpec => []RosterInv`, `RosterSpec => []RosterTypeOK` |
| | `ReimportNeverAdds` | `RosterSpec => []ReimportAddsNothing` |
| | `LlmTypesHold` | `LlmSpec => []LlmTypeOK` |
| | `AnswersAlwaysFitTheRubric` | `LlmSpec => []AnswersFitTheRubric` |
| | `ComparisonsAlwaysAddUp` | `LlmSpec => []ComparisonAddsUp` |
| | `RubricTypesHold` | `RubricSpec => []RubricTypeOK` |
| | `WeightsAreAlwaysWhole` | `RubricSpec => []WeightsAreWhole` |
| | `InsightsTypesHold` | `InsightsSpec => []InsightsTypeOK` |
| | `ScreensAlwaysAgree` | `InsightsSpec => []ScreensAgree` |
| `PlatformProofs` | `PlatformTypesHold` | `PlatformSpec => []PlatformTypeOK` |
| | `PlatformIsSafe` | `PlatformSpec` implies every safety property listed for the ten parts |

Assumptions on constants are named in the module that declares them, and TLC
evaluates each on its runs:

* sets are finite where the code counts them: `EssaysAssumption`, `BatchAssumption`
  (slots), `ReviewAssumption` (criteria and requests), `PipelineAssumption`
  (students), `IntegrityAssumption` (submitted versions), `AccountAssumption`
  (visits), `SessionAssumption` (tabs), `RubricAssumption` (editors),
  `LlmAssumption` (criteria), `InsightsAssumption` (marks, criteria);
* bounds are natural numbers, and null values are none of the rows
  (`NullAssumption`, `NoGroupAssumption`, `NoJobAssumption` and others);
* the rest says of the data what the code guarantees: the trial is longer than a week
  (`AccountAssumption`), a rubric has a criterion (`InsightsAssumption`; its weights sum
  to 100, so one has a weight), the weights of a draft are not zero
  (`RubricAssumption`), scores begin at 1 or more and have a range (`LlmAssumption`),
  similarity is symmetric (`IntegrityAssumption`), names are alike themselves
  (`RosterAssumption`), and the students there at the start have numbers of their own
  (`RowsAssumption`). The replies of the model are any sequences of items
  (`RepliesAssumption`).

Two theorems need a restriction of the environment, which is a hypothesis of theirs
and not of the model: `OneEditor` and `OneTeacher`.

### Batch grading

`TypeInv` is `TypeOK` with two facts that types alone do not give: a slot in
use has an essay, and the version of a task that writes a grade has been
loaded. The three safety properties need one more idea. A complete field is
written by `ReportComplete` long after `WriteGrade`, and other tasks act in
between, so the invariant has to speak of tasks that have written their grade
and not yet reported it (`Reporting`):

* `ReportsHaveGrades`: the essay of each such task has a grade;
* `CompletesAndReports`: `complete + Cardinality(Reporting) <= Cardinality(grades)`:
  a grade written moves one task into `Reporting`, a report moves one out of
  it and at most one into `complete`, and every other step leaves both sides or
  lowers the left one.

`IInv` is their conjunction. Only two actions can disturb it, `WriteGrade` and
`ReportComplete`, and each has a lemma; all the others are gathered by
`StepKinds` into steps that leave grades and reports alone (`InvQuiet`).

### One teacher at the panel

`OneTeacher` says: one panel that waits for each answer, no message delivered
twice, and a hash that outlives its batch. Without it the four properties fail. The
invariant `PanelInv` rests on one fact, that no essay ever has two tasks at work, which
is not inductive alone: a handler could send a second one. So it consists of

* `TasksInv`: `OneTaskEach`; the field of an essay with a task is open
  (`WorkIsOpen`), so the panel offers neither batch nor retry for it; and what a handler
  is about to send has no task (`NewTasksAreFree`);
* `CountsInv`: the counters are exact and `total` is the number of fields
  (`TotalIsBatch`). With them, a batch that looks complete to `_is_batch_complete`
  has no open field, by a count of the fields;
* `GradesInv`: only versions that exist have grades, an essay that is not graded has a
  newest version without one (`NewestIsOpen`), and what a task has read of its essay is
  still so (`ReadsAreCurrent`), so its write is an insert that succeeds.

For the refinement each action is mapped: `ClaimEssay` to a claim, `WriteGrade` to a
grade, an exception and the revert to abandoning and releasing, `Resubmit` to a new
version, and every other action to a stutter.

### Grade review

`TypeInv` adds to `TypeOK` which arguments a handler has at each of its steps.

`RequestLimit` is not inductive: a handler that has counted and not yet
inserted could break it. `LimitInv` says why it does not: from the count to the commit
the handler holds the grade row (`SubmissionsHoldTheRow`), so nobody else is
between those steps and its count is still the number of requests
(`CountIsCurrent`). A resolution changes the status of a request that exists
already (`RequestsExist`).

For the log, the steps are split by what they append (`AuditCases`,
`OneEntryMore`, `TwoEntriesMore`): the entries of one kind stay as they are, or
gain the last position. The stamps of the entries do not matter for the lock, of which
there is one, nor for the resolutions: an outcome that stands is in the log whichever
commits last.

The scores need most. A handler commits a score with the columns it read several
steps earlier, and its `UPDATE` may leave one of them out; the entry it writes is
true only if they have not changed since. `ScoreInv` adds that handlers name
different criteria (`EditorsAreAlone`, from `OneEditor` and the guard of a new
call), that a resolution without a score names none (`OnlyEditorsName`), that an
editor began after every entry of its criterion (`EditorsAreNewest`), so that its own
will be the newest by time stamp, and that what a handler has read is still stored
(`ReadsAreCurrent`). From that
`ScoreEffect` shows that both columns end up with the new score. The entries of
other criteria, of the lock and of resolutions do not matter (`ExplainOther`).

### The class pipeline

`AdviceInv` is the type invariant with what a worker or a call must have read at
each of its steps (`CallsFit`), the properties themselves, and `LocksProtect`: at
most one worker is between the two statements of a transaction, and what the first
one read is still true at the second (the items to delete are the active ones but
those decided meanwhile, the old group is still there). From it follow that an
`INSERT` meets no active item of its signal, and that the label of a group compares
with the group that is really replaced. Everything a racing call can do is to close
an item or a card, so the two action properties (`DecisionsAreKept`,
`AnswersAreTrue`) need one case per statement that writes those tables.
`PendingIsUnique` carries the partial unique index over two overlapping scans, and
the logs are followed by position as in the review.

### A pipeline that settles

`SettlesInOrder` speaks only of a quiet pipeline, so `Settling` says what holds on
the way there, while one worker works and nothing has failed. The queue keeps the
order of sending (`QueueInOrder`: groups wait behind a profile, the worklist behind
the groups), also for what a worker has taken out of it (`WorkInOrder`). What no
message waits to compute again is up to date or is being written by the one worker
from reads that are still true: the profile of each student (`ProfilesFollow`), the
group (`GroupFollows`), the items (`ItemsFollow`). In a quiet pipeline nothing waits
and nobody works, so all three are up to date.

### Sums

The model sums with the fold of the community modules, which picks the elements of a
set one after the other. `SumProofs` shows, by the least number and the smallest
subset for which something fails, that every finite set has one table of the sums
of its subsets (`AddsExist`, `AddsAgree`); hence a sum does not depend on the order
(`SumOfOther`), follows a bijection (`SumsAlongMap`), is monotone and linear, and may
be taken class by class (`SumByClass`). The induction theorems of the library take an
operator as a parameter and are not used.

`SignalsFollowGrades` follows from these: moving the lower score one place towards the
past changes the weighted sum by their difference (`SumOfPair`). That the agent
mirrors the worklist is a comparison of the thresholds for every history, with no
assumption on how it came about.

### Intake

`FilesMatchVersions` is not inductive: a handler holds an object before its version is
committed. `ObjectsAreOwned` says that every object belongs to a version or to the
handler that is making one, unless something failed. The key of an object has the
essay, the number of the version and the file name, so two handlers could
share one; `CallsExclude` says that they do not, since one call at a time makes the
next version of an essay and one saves snapshots of a version. That rests on the row
locks, and on what a call knows of its essay at each step (`CallFits`): a new essay
has no row yet, a resubmission is about to make the version after the latest.
For the cache, `SignalsFollow` says that stored signals are those of snapshots the
version once had, of which those of now are a continuation (`StartOf`): if
their number is the same, they are the same.

### The timeline of snapshots

`SignalsAreFaithful` holds of every list of snapshots, by the analysis of the code:

1. `Place` numbers the snapshots without a gap (`PlacesAreOrdered`, `PlacesAreTaken`,
   the latter since a one-to-one map of a finite set into itself is onto), so the sorted
   list has the same length and is ordered by time (`ParsedIsTimed`).
2. Two sessions never overlap and every snapshot is in one (`SessionsExclude`,
   `SessionsCover`, the session that begins last before it and ends first after).
3. The time elapsed is the sum of the steps from each snapshot to the next
   (`AddedSumUp`). Summed by class, a step belongs to the session it is in or to a gap
   (`TimesAddUp`); within a session the steps add up to its duration.
4. A jump is looked up by the time of its snapshot. Sessions are at least 30 minutes
   apart, so that time lies in one session only, the one of the snapshot
   (`SessionIsFound`).

### Integrity

`ReportsAreNumbered`: one report for each version and provider, inserted one after
the other, so the newest of an essay is unique and the summary agrees with the page.
`MatchesAreSimilar`: what a worker has found, or the internal provider reported, is
similar. That a pair is reported needs `NothingIsForgotten`: unless something
failed, a submitted version is embedded, in a message or in the hands of a worker, and
of two versions similar to each other alone that are both embedded, the pair is
named in a report or a worker that compares will name it. The second one to be
committed is the one that finds the other.

### Media, exports

* A comment is played from its object as long as keys are never made up twice and an
  object with a comment is deleted only by that comment's deletion: the invariant
  says of every key who owns it (a request, one comment, a failed request) and that
  there is one owner.
* `RunCounts` carries what a run has made of the essays it found from `LoadEssays`
  to the upload, and `RecordCounts` what the teacher's record tells of it; a record
  is not complete while a run is on its way, and `SentFirst` that no task runs
  before the request has made it.

### Account and session

* A counter that has begun either expires, is in the hands of the request that
  started it, or was left by one that died. `LinksAreSpent` gives each welcome,
  ordered or to be ordered, a link of its own that Redis no longer knows; the count
  follows.
* `MailsAreCounted` counts mail tasks by kind: a task stands for an order without an
  entry and, once it has sent, for a mail without one. So there are never
  more entries than mails, nor more mails than orders while nothing failed.
  `TrialIsWatched` follows the days: while the scans are timely, the scans so far tell
  which of the three mails has been ordered, and the next window is still to come.
  Here the trial must be longer than its longest window of a week. `RowsFit` adds, for the types, that
  there is an account wherever a request or a mail speaks of one.
* A refresh token is used once since taking it out of Redis is one command: a token
  in Redis has bought no session, and of those taken out each is in the hands of one
  refresh (`TokensAreFresh`). With one open tab, `OneTabCanRefresh` says that at any
  moment the cookie, the token its refresh carries or the one about to be issued is good,
  which needs that closed tabs rest (`ClosedTabsRest`).

### Rosters

A row that was imported is skipped for one of three reasons (`Covered`): an earlier
row of the file has its number, a student of the class has it, or nobody has it and
a name there is alike. None of them is undone but by a removal or an edit. A commit
covers its rows because what it has read still holds, also after commits of others in
between (`ReadsHold`), and no number is given twice while one import at a time adds
students, since it knows the numbers of all (`KnowsAll`). The rows a commit adds are
taken by position (`Rows!Nth`), of which `NthIsThere` shows that it exists.

### LLM answers, rubrics, insights

* `AsksFit` bounds the requests by the attempt and by the corrective retry.
  `AnswerIsParsed` says that a parsed answer is that of the last reply, from which
  the operators of the parser show that it fits. A grade, what the comparison has
  read of it and the row it writes are followed statement by statement as long as
  nobody overrides a score (`GradesFit`, `RevisionFits`, `ComparisonsFit`): the sum of
  the deltas is the difference of two sums.
* A set of criteria is `Whole` if what it holds of a save is all that was saved: a copy
  or a snapshot takes the whole set, and an update adds a save with a number of its own.
  `RoundingsDiffer` compares the two roundings of a weight, which differ by a
  hundredth at most, and `SavedWeightsSum` adds this up over the criteria of a draft.
* `SomebodyIsConcerned`: an average below the threshold has a score below it.
  `BucketsHold`: each score is in one bucket, whose borders bound it. `CriteriaSumUp`:
  the rows of a skill are those of its criteria, class by class. What was counted
  stays so because no grade is unlocked (`CountsFit`). What was exported of a settled
  grade stays so because nothing can still change it: every override under way is of a
  grade that is not settled (`SettledRest`), and none begins on a locked one
  (`ExportsFit`).

### The platform

`PartsBehave` shows that every behaviour of `Platform` is one of each of its parts: a
step of the platform is a step of a part or leaves its variables alone. So each safety
theorem about a part holds of the whole (`PlatformIsSafe`, `PlatformTypesHold`). The
export is taken without its fairness, which its safety does not need.

### Only model-checked

Liveness: `BatchIsCounted`, `EveryCallIsAnswered`, `PipelineDrains` and `ExportsEnd`,
which need `ENABLED` and are out of reach of the prover. Every invariant and every
action property that a passing run checks is also proved.

## 5. Where code and documentation differ

With a run:

* **A failed LLM call strands the essay** (`orphan`). `self.retry` runs the task
  again while the essay is still `grading`; the guard refuses it as a conflict,
  and the conflict branch neither reverts nor reports. `tasks/grading.py:9-12`
  and `data-flow.md:197` say that it is retried up to three times and then
  returned to `queued`. Trigger and retry both ignore an essay in `grading`.
* **A graded essay can be set back to `queued`** (`downgrade`). The handler of the
  unique constraint sets `queued` without looking; the comment at
  `tasks/grading.py:228` says this must not happen. The essay can then never be
  graded again for that version.
* **A batch that finishes before the trigger commits stays in `grading`**
  (`late_commit`): the conditional UPDATE to `review` finds `open`, then the
  commit writes `grading`.
* **The total is that of before the override** (`total_stale`). The query that
  recomputes it runs before the new score is flushed; the comment at
  `services/grade.py:354-355` says that the total is never stale. The response
  carries the old total too. The next override or resolution writes the
  total without its own change, so the total is always one edit behind.
* **A request can be resolved twice** (`double_resolve`). The status is loaded before
  the row lock and not read again after it; the comment at
  `services/regrade_request.py:335-338` says that the lock prevents this. The
  later resolution wins and the log has both, in the order in which the two began.
* **A version with two similar ones is not reported** (`similar`).
  `services/embedding.py:121-123` says that every pair is; the rows of one version
  share the unique key of `models/integrity_report.py:46-50`, and the one commit at
  `embedding.py:238` fails.
* **Saving a rubric again doubles its criteria** (`doubled_weights`).
  `services/rubric.py:264` says that they are replaced, `models/rubric.py:79` that
  the weights sum to 100; `db.delete` at line 267 is a coroutine that is not
  awaited.

Also seen, and without a run of its own:

* Grading. `update_assignment` validates the status it read, so a concurrent change
  can be undone, against "forward-only" in `services/assignment.py:10`. `failed` can
  become negative: a `failed` field set without an increment (expired key) is
  decremented by the next reset, against the comment at
  `services/grading_progress.py:216`. `mark_essay_grading` on an expired key makes a
  hash without a total, shown as a complete batch. A resubmission during grading
  ends `graded` although the newest version has no grade. A worker that dies between
  the grade's commit and the comparison leaves a resubmission without one.
  `data-flow.md:197` names an essay status `failed` that does not exist, and `:199`
  acknowledgement on completion, which is not configured.
* Review. Two overlapping overrides of one criterion can leave `final_score`
  different from `teacher_score`, when the second sets the score that was final
  before: its `UPDATE` leaves out the column it sees unchanged.
  `models/grade.py:5-7` and `data-model.md:332` say that they always agree. The audit
  log is "in chronological order" (`services/grade.py:516`) of the starts of the
  transactions, not of the changes. A locked grade is still edited: the lock is looked
  at when the grade is loaded (`services/grade.py:300`, `regrade_request.py:385`) and no
  row is held until the commit, although `services/grade.py:402` says that a lock allows
  no further edits. A CSV of that moment may have the total of before and the scores
  of after.
* Lock pipeline. `data-flow.md:91-92` says that the groups are recomputed after the
  upsert of the profile; `services/grade.py:463,480,497` sends all three tasks at once,
  and two workers run them side by side, so groups and worklist may be computed from
  the profile of before the lock, with no task left that computes them again. Of two
  overlapping profile tasks the older may write last. A recompute overwrites a manual
  edit of a group.
* Worklist. A signal the teacher dismissed, completed or snoozed comes back as a
  new active item at the next refresh (`api-design.md:1069`). Completing or dismissing
  an item that a refresh has deleted is an internal error.
* Recommendations. `assign_recommendation` answers 200 with a row that was dismissed
  meanwhile. A recompute of the groups deletes the cards of a group by cascade,
  accepted ones included (`api-design.md:920`). Generating cards for a group
  replaced during the LLM call ends in an internal error.
* Intake. A failing commit of an upload leaves its object in S3.
  `assign_essay_to_student` may write `queued` over a status that has moved on.
* Integrity. Two versions of one essay are compared with each other
  (`embedding.py:155-172`), so a resubmission may be flagged against its own former
  version. A task delivered twice asks Originality.ai twice. A fallback followed by
  a second delivery leaves two reports, the newer of which hides a reviewed one.
* Export. No essay ever has the status `locked` that `tasks/export.py:266,298` looks
  for, outside of `src/backend/scripts/seed_demo_data.py:277,283`. A late write
  re-creates an expired record without owner and TTL. A dead worker leaves
  `processing` until the TTL ends.
* Rubrics. Weights 33.345 and 66.655 pass the validation and are stored as 100.01:
  the one rounds half to even, the other half up. A rubric's name and its criteria
  are read in two queries, and `delete_rubric` counts the uses before it deletes.
* Media. `services/media_comment.py:268` does not await the deletion either: the row
  outlives its object.
* Account. A request that ends between `INCR` and `EXPIRE` (`services/auth.py:125-127`)
  leaves a counter that no later request lets expire, against the attempts "per hour"
  of `routers/auth.py:8-9`. A second link used after verification orders a second welcome; a consumed
  link is lost if the handler dies before its commit. A scan that is late or dies
  doubles or loses the mails of its day.
* Rosters. Two imports at a time create students twice; the student number has no
  unique key.
* LLM. An infinite score raises `OverflowError`, which the parsers do not catch. A
  missing criterion is stored as 0, below `min_score`. `needs_review` of a short
  justification is not stored. With an empty former version every text under five
  words counts as low effort.
* Screens. The CSV and the data points of the insights list both locked versions of a
  resubmitted essay, while `graded_essay_count` counts essays.

## 6. What is left

Not modelled, and why:

* the web shell (routers, middleware, configuration, migrations): wiring without
  state of its own;
* of the assignment: title, prompt and dates, which nothing else depends on; its
  stale status check is in `BatchGrading` (`PatchStatus`, `CommitPatch`), where no
  property holds of it (section 5), as is the expired key of
  `grading_progress.py:97`;
* of the LLM client: prompts, embeddings as vectors, and `call_feedback`, which nobody
  calls;
* of the profile: several skills per criterion and canonical names, which are
  look-ups in a table;
* of media comments: a commit whose outcome the server does not learn. It removes the
  object then, as after a failed commit, although the row may be there;
* of the export: the download and the panel's polling, which only read;
* the comment bank (rows that nothing else reads), the context of a copilot query
  (read only) and onboarding (two counts and a flag that is set once);
* the user interface beyond the panel and the API client, the demo and smoke-test
  scripts.

Worth doing next, in this order: a refinement of `ClassPipeline` to an abstract
worklist (what is shown is a function of the locked grades and the decisions);
`BatchGradingProofs` with the retry of a lost essay once `tasks/grading.py` reverts
before it retries; a run of `GradeReview` without `OneEditor` when the merge of
columns is settled.
