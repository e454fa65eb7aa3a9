----------------------------- MODULE GradeReview -----------------------------
(***************************************************************************)
(* One grade while teachers review it: score overrides, feedback edits,    *)
(* the lock, regrade requests and their resolution, and the audit log.     *)
(*                                                                         *)
(* Handlers run READ COMMITTED transactions on sessions with autoflush     *)
(* off: each SELECT is an action of its own, everything a handler writes   *)
(* appears at its commit, and an UPDATE names only the columns whose new   *)
(* value differs from the value the session loaded.  A transaction begins  *)
(* with the query that authenticates the call, and that moment is the      *)
(* created_at of its audit entries: audit is in the order of the commits,  *)
(* its readers see it in the order of the stamps.                          *)
(***************************************************************************)
EXTENDS Integers, Sequences, FiniteSets, FiniteSetsExt

CONSTANTS
  Criteria,    \* criterion_scores rows of the grade
  Scores,      \* the scores the rubric snapshot allows
  Requests,    \* bound: ids of regrade requests
  Clients,     \* API request handlers running at the same time
  WholeGrade,  \* "no criterion": an entry or a request about the grade itself
  NoRequest,   \* the request of a handler that serves none
  NoScore,     \* a score that is not set
  NoClient,    \* the holder of a free row lock
  RegradeMax,  \* settings.regrade_max_per_grade
  MaxCalls,    \* bound: calls made in a behaviour
  OneEditor    \* an edit of a criterion begins and reads after the earlier edits of it

ASSUME ReviewAssumption ==
  /\ IsFiniteSet(Criteria)
  /\ IsFiniteSet(Requests)
  /\ Scores \subseteq Nat
  /\ WholeGrade \notin Criteria
  /\ NoScore \notin Scores
  /\ NoRequest \notin Requests
  /\ NoClient \notin Clients
  /\ RegradeMax \in Nat
  /\ MaxCalls \in Nat
  /\ OneEditor \in BOOLEAN

VARIABLES
  aiScore,      \* criterion_scores.ai_score
  teacherScore, \* criterion_scores.teacher_score
  finalScore,   \* criterion_scores.final_score
  totalScore,   \* grades.total_score
  isLocked,     \* grades.is_locked
  status,       \* regrade_requests.status, "none" before the request exists
  target,       \* regrade_requests.criterion_score_id
  audit,        \* audit_logs
  session,      \* handler -> where it is and what it has read
  gradeLock,    \* the transaction that holds the grade row FOR UPDATE
  requestLock,  \* request -> the transaction that holds its row FOR UPDATE
  callsLeft     \* calls still to be made

scores   == <<teacherScore, finalScore, totalScore>>
requests == <<status, target>>
locks    == <<gradeLock, requestLock>>
vars     == <<aiScore, scores, isLocked, requests, audit, session, locks, callsLeft>>

---------------------------------------------------------------------------
(* Types *)

Resolutions == {"approved", "denied"}

\* The clock of the database, which only has to order the transactions.
Stamps == 0..MaxCalls

\* An audit_logs row: score is after_value.final_score, outcome is
\* after_value.status, at is created_at.
AuditEntry == [action  : {"score_override", "feedback_edited", "grade_locked",
                          "regrade_resolved"},
               of      : Criteria \union Requests \union {WholeGrade},
               score   : Scores \union {NoScore},
               outcome : Resolutions \union {""},
               at      : Stamps]

\* The sum of the final scores, and all its values.
TotalOf(final) == MapThenSumSet(LAMBDA k : final[k], Criteria)

Totals == {TotalOf(final) : final \in [Criteria -> Scores]} \union {0}

\* criterion, request, score and outcome are arguments of the call; teacher,
\* final, total, sum and count are results of its queries; began is now().
Session == [pc        : {"idle", "begun", "criterion", "grade", "sum", "commit", "feedback",
                         "lock", "waitGrade", "count", "insert", "waitRequest",
                         "resolve"},
            criterion : Criteria \union {WholeGrade},
            request   : Requests \union {NoRequest},
            score     : Scores \union {NoScore},
            outcome   : Resolutions \union {""},
            teacher   : Scores \union {NoScore},
            final     : Scores \union {NoScore},
            total     : Totals,
            sum       : Totals,
            count     : Nat,
            began     : Stamps]

Idle == [pc |-> "idle", criterion |-> WholeGrade, request |-> NoRequest,
         score |-> NoScore, outcome |-> "", teacher |-> NoScore,
         final |-> NoScore, total |-> 0, sum |-> 0, count |-> 0,
         began |-> 0]

TypeOK ==
  /\ aiScore \in [Criteria -> Scores]
  /\ teacherScore \in [Criteria -> Scores \union {NoScore}]
  /\ finalScore \in [Criteria -> Scores]
  /\ totalScore \in Totals
  /\ isLocked \in BOOLEAN
  /\ status \in [Requests -> Resolutions \union {"none", "open"}]
  /\ target \in [Requests -> Criteria \union {WholeGrade}]
  /\ audit \in Seq(AuditEntry)
  /\ session \in [Clients -> Session]
  /\ gradeLock \in Clients \union {NoClient}
  /\ requestLock \in [Requests -> Clients \union {NoClient}]
  /\ callsLeft \in 0..MaxCalls

\* A grade as the grading service writes it.
Init ==
  /\ aiScore \in [Criteria -> Scores]
  /\ teacherScore = [k \in Criteria |-> NoScore]
  /\ finalScore = aiScore
  /\ totalScore = TotalOf(aiScore)
  /\ isLocked = FALSE
  /\ status = [r \in Requests |-> "none"]
  /\ target = [r \in Requests |-> WholeGrade]
  /\ audit = << >>
  /\ session = [c \in Clients |-> Idle]
  /\ gradeLock = NoClient
  /\ requestLock = [r \in Requests |-> NoClient]
  /\ callsLeft = MaxCalls

---------------------------------------------------------------------------
(* Helpers *)

\* s is what the handler knows after its first query.
Handle(c, s) ==
  /\ session[c].pc = "begun"
  /\ session' = [session EXCEPT ![c] = [s EXCEPT !.began = session[c].began]]

GoTo(c, label) == session' = [session EXCEPT ![c].pc = label]

\* The response is sent, and the commit or rollback frees the row locks.
Respond(c) ==
  /\ session' = [session EXCEPT ![c] = Idle]
  /\ gradeLock' = IF gradeLock = c THEN NoClient ELSE gradeLock
  /\ requestLock' = [r \in Requests |->
                       IF requestLock[r] = c THEN NoClient ELSE requestLock[r]]

\* An UPDATE of the grade row waits for a transaction that holds it.
GradeRowIsFree(c) == gradeLock \in {NoClient, c}

\* What a column holds after the flush of an attribute set to new: the UPDATE
\* leaves it out if new is the value the session read.
Flush(new, read, stored) == IF new = read THEN stored ELSE new

Log(c, action, of, score, outcome) ==
  [action |-> action, of |-> of, score |-> score, outcome |-> outcome,
   at |-> session[c].began]

Entries(action, of) == {n \in DOMAIN audit : audit[n].action = action /\ audit[n].of = of}

Submitted == {r \in Requests : status[r] # "none"}

EditedCriteria == {session[c].criterion : c \in Clients}

\* No call in progress edits k, and every edit in the log began before this call.
EditsAlone(c, k) ==
  /\ k \notin EditedCriteria
  /\ \A n \in Entries("score_override", k) : audit[n].at < session[c].began

\* The criterion and the total at the commit of a call that sets a score.
StoreScore(c) ==
  LET s == session[c]
      k == s.criterion
  IN /\ teacherScore' = [teacherScore EXCEPT ![k] = Flush(s.score, s.teacher, @)]
     /\ finalScore' = [finalScore EXCEPT ![k] = Flush(s.score, s.final, @)]
     /\ totalScore' = Flush(s.sum, s.total, totalScore)
     /\ s.sum # s.total => GradeRowIsFree(c)

---------------------------------------------------------------------------
(* get_current_teacher: the user is looked up on the session of the        *)
(* handler, which opens its transaction.                                   *)

Begin(c) ==
  /\ session[c].pc = "idle"
  /\ callsLeft > 0
  /\ callsLeft' = callsLeft - 1
  /\ session' = [session EXCEPT ![c] =
                   [Idle EXCEPT !.pc = "begun", !.began = MaxCalls - callsLeft']]
  /\ UNCHANGED <<aiScore, scores, isLocked, requests, audit, locks>>

---------------------------------------------------------------------------
(* PATCH /grades/{id}/criteria/{criterion}: override_criterion.  A score   *)
(* of NoScore is a call that sets the feedback text only.                  *)

StartOverride(c) ==
  /\ ~ isLocked
  /\ \E k \in Criteria, s \in Scores \union {NoScore} :
       /\ OneEditor => EditsAlone(c, k)
       /\ Handle(c, [Idle EXCEPT !.pc = "criterion", !.criterion = k, !.score = s,
                                 !.total = totalScore])
  /\ UNCHANGED <<aiScore, scores, isLocked, requests, audit, locks, callsLeft>>

\* Also the first query of a resolution that sets a score.
ReadCriterion(c) ==
  /\ session[c].pc = "criterion"
  /\ session' = [session EXCEPT
       ![c].teacher = teacherScore[session[c].criterion],
       ![c].final = finalScore[session[c].criterion],
       ![c].pc = CASE session[c].request # NoRequest -> "grade"
                   [] session[c].score = NoScore     -> "commit"
                   [] OTHER                          -> "sum"]
  /\ UNCHANGED <<aiScore, scores, isLocked, requests, audit, locks, callsLeft>>

\* SELECT final_score: with autoflush off it returns the stored scores, not
\* the one just set on the object.
SumScores(c) ==
  /\ session[c].pc = "sum"
  /\ session' = [session EXCEPT
       ![c].sum = TotalOf(finalScore),
       ![c].pc = IF session[c].request = NoRequest THEN "commit" ELSE "resolve"]
  /\ UNCHANGED <<aiScore, scores, isLocked, requests, audit, locks, callsLeft>>

\* Mutant: a call that sets a score leaves no entry.
CommitOverrideUnlogged(c) ==
  /\ session[c].pc = "commit"
  /\ session[c].score # NoScore /\ StoreScore(c)
  /\ Respond(c)
  /\ UNCHANGED <<aiScore, isLocked, requests, audit, callsLeft>>

\* Mutant: final_score is set to teacher_score whether one is given or not.
CommitOverrideUnchecked(c) ==
  /\ session[c].pc = "commit"
  /\ audit' = Append(audit, Log(c, "score_override", session[c].criterion,
                                session[c].score, ""))
  /\ StoreScore(c)
  /\ Respond(c)
  /\ UNCHANGED <<aiScore, isLocked, requests, callsLeft>>

CommitOverride(c) ==
  /\ session[c].pc = "commit"
  /\ IF session[c].score = NoScore
     THEN /\ audit' = Append(audit, Log(c, "score_override", session[c].criterion,
                                        session[c].final, ""))
          /\ UNCHANGED scores
     ELSE /\ audit' = Append(audit, Log(c, "score_override", session[c].criterion,
                                        session[c].score, ""))
          /\ StoreScore(c)
  /\ Respond(c)
  /\ UNCHANGED <<aiScore, isLocked, requests, callsLeft>>

---------------------------------------------------------------------------
(* PATCH /grades/{id}/feedback: update_grade_feedback *)

\* With a text other than the stored one.
StartFeedback(c) ==
  /\ ~ isLocked
  /\ Handle(c, [Idle EXCEPT !.pc = "feedback"])
  /\ UNCHANGED <<aiScore, scores, isLocked, requests, audit, locks, callsLeft>>

CommitFeedback(c) ==
  /\ session[c].pc = "feedback"
  /\ GradeRowIsFree(c)
  /\ audit' = Append(audit, Log(c, "feedback_edited", WholeGrade, NoScore, ""))
  /\ Respond(c)
  /\ UNCHANGED <<aiScore, scores, isLocked, requests, callsLeft>>

---------------------------------------------------------------------------
(* POST /grades/{id}/lock: lock_grade *)

StartLock(c) ==
  /\ Handle(c, [Idle EXCEPT !.pc = "lock"])
  /\ UNCHANGED <<aiScore, scores, isLocked, requests, audit, locks, callsLeft>>

\* Mutant: the UPDATE has no WHERE is_locked = false.
LockAgain(c) ==
  /\ session[c].pc = "lock"
  /\ GradeRowIsFree(c)
  /\ isLocked' = TRUE
  /\ audit' = Append(audit, Log(c, "grade_locked", WholeGrade, NoScore, ""))
  /\ Respond(c)
  /\ UNCHANGED <<aiScore, scores, requests, callsLeft>>

\* UPDATE ... WHERE is_locked = false; an entry only if it changed the row.
LockGrade(c) ==
  /\ session[c].pc = "lock"
  /\ GradeRowIsFree(c)
  /\ isLocked' = TRUE
  /\ audit' = IF isLocked THEN audit
              ELSE Append(audit, Log(c, "grade_locked", WholeGrade, NoScore, ""))
  /\ Respond(c)
  /\ UNCHANGED <<aiScore, scores, requests, callsLeft>>

---------------------------------------------------------------------------
(* POST /grades/{id}/regrade-requests: create_regrade_request *)

StartSubmit(c) ==
  /\ Handle(c, [Idle EXCEPT !.pc = "waitGrade"])
  /\ UNCHANGED <<aiScore, scores, isLocked, requests, audit, locks, callsLeft>>

\* Mutant: the grade row is read without FOR UPDATE.
ReadGradeRow(c) ==
  /\ session[c].pc = "waitGrade"
  /\ GoTo(c, "count")
  /\ UNCHANGED <<aiScore, scores, isLocked, requests, audit, locks, callsLeft>>

LockGradeRow(c) ==
  /\ session[c].pc = "waitGrade"
  /\ gradeLock = NoClient
  /\ gradeLock' = c
  /\ GoTo(c, "count")
  /\ UNCHANGED <<aiScore, scores, isLocked, requests, audit, requestLock, callsLeft>>

CountRequests(c) ==
  /\ session[c].pc = "count"
  /\ session' = [session EXCEPT ![c].count = Cardinality(Submitted), ![c].pc = "insert"]
  /\ UNCHANGED <<aiScore, scores, isLocked, requests, audit, locks, callsLeft>>

InsertRequest(c) ==
  /\ session[c].pc = "insert"
  /\ session[c].count < RegradeMax
  /\ \E r \in Requests \ Submitted, k \in Criteria \union {WholeGrade} :
       /\ status' = [status EXCEPT ![r] = "open"]
       /\ target' = [target EXCEPT ![r] = k]
  /\ Respond(c)
  /\ UNCHANGED <<aiScore, scores, isLocked, audit, callsLeft>>

\* RegradeRequestLimitReachedError.
RefuseOverLimit(c) ==
  /\ session[c].pc = "insert"
  /\ session[c].count >= RegradeMax
  /\ Respond(c)
  /\ UNCHANGED <<aiScore, scores, isLocked, requests, audit, callsLeft>>

---------------------------------------------------------------------------
(* POST /regrade-requests/{id}/resolve: resolve_regrade_request *)

\* The request is loaded, and its status with it; a call for a request that is
\* no longer open is refused.
StartResolve(c) ==
  /\ \E r \in Requests, o \in Resolutions, s \in Scores \union {NoScore} :
       /\ status[r] = "open"
       /\ s # NoScore => o = "approved" /\ target[r] # WholeGrade
       /\ s # NoScore /\ OneEditor => EditsAlone(c, target[r])
       /\ Handle(c, [Idle EXCEPT !.pc = "waitRequest", !.request = r, !.outcome = o,
                                 !.score = s,
                                 !.criterion = IF s = NoScore THEN WholeGrade
                                                              ELSE target[r]])
  /\ UNCHANGED <<aiScore, scores, isLocked, requests, audit, locks, callsLeft>>

\* SELECT ... FOR UPDATE of the id alone: the status that is then checked is
\* the one loaded before the wait.
LockRequestRow(c) ==
  /\ session[c].pc = "waitRequest"
  /\ requestLock[session[c].request] = NoClient
  /\ requestLock' = [requestLock EXCEPT ![session[c].request] = c]
  /\ GoTo(c, IF session[c].score = NoScore THEN "resolve" ELSE "criterion")
  /\ UNCHANGED <<aiScore, scores, isLocked, requests, audit, gradeLock, callsLeft>>

ReadGrade(c) ==
  /\ session[c].pc = "grade"
  /\ ~ isLocked
  /\ session' = [session EXCEPT ![c].total = totalScore, ![c].pc = "sum"]
  /\ UNCHANGED <<aiScore, scores, isLocked, requests, audit, locks, callsLeft>>

\* GradeLockedError.
RefuseLocked(c) ==
  /\ session[c].pc = "grade"
  /\ isLocked
  /\ Respond(c)
  /\ UNCHANGED <<aiScore, scores, isLocked, requests, audit, callsLeft>>

\* Mutant: denials leave no entry.
CommitResolutionUnlogged(c) ==
  LET s == session[c] IN
  /\ s.pc = "resolve"
  /\ status' = [status EXCEPT ![s.request] = s.outcome]
  /\ IF s.score = NoScore
     THEN /\ audit' = IF s.outcome = "denied" THEN audit
                      ELSE Append(audit, Log(c, "regrade_resolved", s.request, NoScore, s.outcome))
          /\ UNCHANGED scores
     ELSE /\ audit' = audit \o <<Log(c, "score_override", s.criterion, s.score, ""),
                                 Log(c, "regrade_resolved", s.request, s.score, s.outcome)>>
          /\ StoreScore(c)
  /\ Respond(c)
  /\ UNCHANGED <<aiScore, isLocked, target, callsLeft>>

CommitResolution(c) ==
  LET s == session[c] IN
  /\ s.pc = "resolve"
  /\ status' = [status EXCEPT ![s.request] = s.outcome]
  /\ IF s.score = NoScore
     THEN /\ audit' = Append(audit, Log(c, "regrade_resolved", s.request, NoScore, s.outcome))
          /\ UNCHANGED scores
     ELSE /\ audit' = audit \o <<Log(c, "score_override", s.criterion, s.score, ""),
                                 Log(c, "regrade_resolved", s.request, s.score, s.outcome)>>
          /\ StoreScore(c)
  /\ Respond(c)
  /\ UNCHANGED <<aiScore, isLocked, target, callsLeft>>

---------------------------------------------------------------------------
(* Specification *)

\* Mutant: the session of a call that ends so is not closed.
AbortUnclosed(c) ==
  /\ session[c].pc # "idle"
  /\ session' = [session EXCEPT ![c] = Idle]
  /\ UNCHANGED <<aiScore, scores, isLocked, requests, audit, locks, callsLeft>>

\* The call is refused (locked, resolved already, not found), the client goes
\* away, the database fails or the process dies: rollback.
Abort(c) ==
  /\ session[c].pc # "idle"
  /\ Respond(c)
  /\ UNCHANGED <<aiScore, scores, isLocked, requests, audit, callsLeft>>

Serve(c) ==
  \/ StartOverride(c) \/ StartFeedback(c) \/ StartLock(c)
  \/ StartSubmit(c) \/ StartResolve(c)
  \/ ReadCriterion(c) \/ SumScores(c) \/ CommitOverride(c)
  \/ CommitFeedback(c)
  \/ LockGrade(c)
  \/ LockGradeRow(c) \/ CountRequests(c) \/ InsertRequest(c) \/ RefuseOverLimit(c)
  \/ LockRequestRow(c) \/ ReadGrade(c) \/ RefuseLocked(c) \/ CommitResolution(c)

Next == \E c \in Clients : Begin(c) \/ Serve(c) \/ Abort(c)

\* Every handler that can go on does: the event loop serves all of them.
Fairness == \A c \in Clients : WF_vars(Serve(c))

Spec     == Init /\ [][Next]_vars
FairSpec == Spec /\ Fairness

---------------------------------------------------------------------------
(* Properties *)

\* n is the newest entry of its kind, for a reader of the log.
IsLast(n) == \A m \in Entries(audit[n].action, audit[n].of) : audit[m].at <= audit[n].at

\* However many calls race to lock the grade, the audit log has one
\* grade_locked entry if it is locked and none otherwise (lock_grade).
OneLockEntry ==
  Cardinality(Entries("grade_locked", WholeGrade)) = IF isLocked THEN 1 ELSE 0

\* Concurrent submissions never exceed the limit per grade: the count and the
\* insert are atomic under the lock of the grade row (create_regrade_request).
RequestLimit == Cardinality(Submitted) <= RegradeMax

\* The log tells how every resolved request stands and nothing of an open one.
\* A request resolved twice has both outcomes in it, and the newest entry may
\* be the one that no longer stands: it is the resolution that began last.
ResolutionIsAudited ==
  \A r \in Requests :
    LET told == {audit[n].outcome : n \in Entries("regrade_resolved", r)}
    IN IF status[r] \in Resolutions THEN status[r] \in told ELSE told = {}

\* The audit log, read by created_at, explains every score: it is what the
\* newest override entry of the criterion says, or else the AI's score, and final_score is
\* teacher_score when there is one.  Locks, requests and edits of other
\* criteria run at the same time.
ScoresAreAudited ==
  \A k \in Criteria :
    /\ finalScore[k] = IF teacherScore[k] = NoScore THEN aiScore[k] ELSE teacherScore[k]
    /\ Entries("score_override", k) = {} => finalScore[k] = aiScore[k]
    /\ \A n \in Entries("score_override", k) :
         IsLast(n) => audit[n].score = finalScore[k]

\* No call waits for ever for a row that another one holds.
EveryCallIsAnswered == \A c \in Clients : session[c].pc # "idle" ~> session[c].pc = "idle"

---------------------------------------------------------------------------
(* The inductive strengthening of the invariants (GradeReviewProofs)        *)

\* A handler that reads or resolves has been told what.
HasArguments(s) ==
  /\ s.pc \in {"criterion", "grade", "sum", "commit"} => s.criterion \in Criteria
  /\ s.pc \in {"grade", "waitRequest", "resolve"} => s.request \in Requests
  /\ s.request # NoRequest => s.outcome \in Resolutions
  /\ s.score # NoScore => s.criterion \in Criteria

ArgumentsAreSet == \A c \in Clients : HasArguments(session[c])

TypeInv == TypeOK /\ ArgumentsAreSet

\* The row lock excludes the other submissions from the count to the commit.
SubmissionsHoldTheRow ==
  \A c \in Clients : session[c].pc \in {"count", "insert"} => gradeLock = c

CountIsCurrent ==
  \A c \in Clients : session[c].pc = "insert" => session[c].count = Cardinality(Submitted)

RequestsExist ==
  \A c \in Clients : session[c].request \in Requests => session[c].request \in Submitted

LimitInv == TypeInv /\ RequestsExist /\ SubmissionsHoldTheRow /\ CountIsCurrent /\ RequestLimit

AuditInv == TypeInv /\ OneLockEntry /\ ResolutionIsAudited

\* With OneEditor: nobody else changes a criterion between the query of a
\* handler and its commit.
EditorsAreAlone ==
  \A c, d \in Clients :
    session[c].criterion = session[d].criterion /\ session[c].criterion \in Criteria => c = d

ReadsAreCurrent ==
  \A c \in Clients :
    session[c].pc \in {"grade", "sum", "commit", "resolve"} /\ session[c].criterion \in Criteria
      => /\ session[c].teacher = teacherScore[session[c].criterion]
         /\ session[c].final = finalScore[session[c].criterion]

\* A resolution that sets no score names no criterion.
OnlyEditorsName ==
  \A c \in Clients :
    session[c].request \in Requests /\ session[c].score = NoScore
      => session[c].criterion = WholeGrade

\* An editor began after every entry of its criterion.
EditorsAreNewest ==
  \A c \in Clients :
    session[c].criterion \in Criteria =>
      \A n \in Entries("score_override", session[c].criterion) :
        audit[n].at < session[c].began

ScoreInv ==
  /\ TypeInv /\ EditorsAreAlone /\ EditorsAreNewest /\ OnlyEditorsName
  /\ ReadsAreCurrent /\ ScoresAreAudited

---------------------------------------------------------------------------
(* What comments say, and the code does not do.                            *)

\* services/grade.py:354-355: total_score is never stale after an override.
TotalIsSum == totalScore = TotalOf(finalScore)

\* services/regrade_request.py:335-338: concurrent calls do not write
\* conflicting resolutions.
ResolvedOnce ==
  [][\A r \in Requests : status[r] \in Resolutions => status'[r] = status[r]]_vars
=============================================================================
