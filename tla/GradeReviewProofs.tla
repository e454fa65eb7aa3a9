-------------------------- MODULE GradeReviewProofs --------------------------
(* Theorems about GradeReview, for every grade, handler and limit. *)
EXTENDS GradeReview, FiniteSetTheorems, TLAPS

---------------------------------------------------------------------------
(* How the helpers move a handler. *)

LEMMA ZeroTypes == 0 \in Totals /\ 0 \in Stamps /\ Stamps \subseteq Nat
<1>1. 0 \in Stamps /\ Stamps \subseteq Nat
  BY ReviewAssumption DEF Stamps
<1>2. 0 \in Totals
  BY DEF Totals
<1>. QED
  BY <1>1, <1>2

LEMMA IdleFacts ==
  /\ Idle \in Session /\ HasArguments(Idle)
  /\ Idle.pc = "idle"
BY ZeroTypes DEF Idle, Session, HasArguments

\* Giving one handler a well-formed record leaves the others alone.
LEMMA SetSession ==
  ASSUME TypeInv, NEW c \in Clients, NEW s \in Session, HasArguments(s),
         session' = [session EXCEPT ![c] = s]
  PROVE  /\ session' \in [Clients -> Session]
         /\ ArgumentsAreSet'
         /\ session'[c] = s
         /\ \A d \in Clients : d # c => session'[d] = session[d]
<1>1. /\ session' \in [Clients -> Session]
      /\ session'[c] = s
      /\ \A d \in Clients : d # c => session'[d] = session[d]
  BY DEF TypeInv, TypeOK
<1>2. \A d \in Clients : HasArguments(session'[d])
  BY <1>1 DEF TypeInv, ArgumentsAreSet
<1>. QED
  BY <1>1, <1>2 DEF ArgumentsAreSet, HasArguments

\* A response empties its own handler only and frees only its own locks.
LEMMA RespondStep ==
  ASSUME TypeInv, NEW c \in Clients, Respond(c)
  PROVE  /\ session' \in [Clients -> Session]
         /\ ArgumentsAreSet'
         /\ session'[c] = Idle
         /\ \A d \in Clients : d # c => session'[d] = session[d]
         /\ gradeLock' \in Clients \union {NoClient}
         /\ \A d \in Clients : d # c /\ gradeLock = d => gradeLock' = d
         /\ requestLock' \in [Requests -> Clients \union {NoClient}]
<1>1. session' = [session EXCEPT ![c] = Idle]
  BY DEF Respond
<1>2. /\ gradeLock' \in Clients \union {NoClient}
      /\ \A d \in Clients : d # c /\ gradeLock = d => gradeLock' = d
      /\ requestLock' \in [Requests -> Clients \union {NoClient}]
  BY DEF Respond, TypeInv, TypeOK
<1>. QED
  BY <1>1, <1>2, IdleFacts, SetSession

\* A label change keeps the arguments and results of the handler.
LEMMA GoToStep ==
  ASSUME TypeInv, NEW c \in Clients, NEW label,
         label \in {"count", "resolve", "criterion"},
         HasArguments([session[c] EXCEPT !.pc = label]), GoTo(c, label)
  PROVE  /\ session' \in [Clients -> Session]
         /\ ArgumentsAreSet'
         /\ session'[c] = [session[c] EXCEPT !.pc = label]
         /\ \A d \in Clients : d # c => session'[d] = session[d]
<1>. DEFINE s == [session[c] EXCEPT !.pc = label]
<1>0. session[c] \in Session
  BY DEF TypeInv, TypeOK
<1>1. s \in Session
  BY <1>0 DEF Session
<1>2. session' = [session EXCEPT ![c] = s]
  BY DEF GoTo, TypeInv, TypeOK
<1>3. HasArguments(s)
  OBVIOUS
<1>. HIDE DEF s
<1>4. /\ session' \in [Clients -> Session]
      /\ ArgumentsAreSet'
      /\ session'[c] = s
      /\ \A d \in Clients : d # c => session'[d] = session[d]
  BY <1>1, <1>2, <1>3, SetSession
<1>. QED
  BY <1>4 DEF s

LEMMA TotalType ==
  ASSUME NEW final \in [Criteria -> Scores]
  PROVE  TotalOf(final) \in Totals
BY DEF Totals

LEMMA LogType ==
  ASSUME NEW action \in {"score_override", "feedback_edited", "grade_locked", "regrade_resolved"},
         NEW of \in Criteria \union Requests \union {WholeGrade},
         NEW score \in Scores \union {NoScore},
         NEW outcome \in Resolutions \union {""},
         TypeInv, NEW c \in Clients
  PROVE  Log(c, action, of, score, outcome) \in AuditEntry
<1>1. session[c].began \in Stamps
  BY DEF TypeInv, TypeOK, Session
<1>. QED
  BY <1>1 DEF Log, AuditEntry

\* Storing a score that is set keeps the types of the three columns.
LEMMA StoreScoreType ==
  ASSUME TypeOK, NEW c \in Clients, session[c].score # NoScore, StoreScore(c)
  PROVE  /\ teacherScore' \in [Criteria -> Scores \union {NoScore}]
         /\ finalScore' \in [Criteria -> Scores]
         /\ totalScore' \in Totals
<1>1. session[c] \in Session
  BY DEF TypeOK
<1>2. session[c].score \in Scores /\ session[c].sum \in Totals
  BY <1>1 DEF Session
<1>. QED
  BY <1>2 DEF TypeOK, StoreScore, Flush

---------------------------------------------------------------------------
(* Types *)

LEMMA TypeInit == Init => TypeInv
<1>. SUFFICES ASSUME Init PROVE TypeInv
  OBVIOUS
<1>1. TotalOf(aiScore) \in Totals
  BY TotalType DEF Init
<1>2. TypeOK
  <2>1. aiScore \in [Criteria -> Scores] /\ finalScore \in [Criteria -> Scores]
    BY DEF Init
  <2>2. totalScore \in Totals
    BY <1>1 DEF Init
  <2>3. teacherScore \in [Criteria -> Scores \union {NoScore}]
    BY DEF Init
  <2>4. isLocked \in BOOLEAN
    BY DEF Init
  <2>8. callsLeft \in 0..MaxCalls
    BY ReviewAssumption DEF Init
  <2>5. /\ status \in [Requests -> Resolutions \union {"none", "open"}]
        /\ target \in [Requests -> Criteria \union {WholeGrade}]
        /\ requestLock \in [Requests -> Clients \union {NoClient}]
        /\ gradeLock \in Clients \union {NoClient}
    BY DEF Init
  <2>6. audit \in Seq(AuditEntry)
    BY DEF Init
  <2>7. session \in [Clients -> Session]
    BY IdleFacts DEF Init
  <2>. QED
    BY <2>1, <2>2, <2>3, <2>4, <2>5, <2>6, <2>7, <2>8 DEF TypeOK
<1>3. ArgumentsAreSet
  BY IdleFacts DEF Init, ArgumentsAreSet, HasArguments
<1>. QED
  BY <1>2, <1>3 DEF TypeInv

\* The transaction begins, or its first query is answered.
NewCall(c) ==
  \/ Begin(c)
  \/ StartOverride(c) \/ StartFeedback(c) \/ StartLock(c) \/ StartSubmit(c) \/ StartResolve(c)

\* What these steps leave alone.
RowsKept == UNCHANGED <<aiScore, scores, isLocked, requests, audit, locks>>

LEMMA CallStep ==
  ASSUME TypeInv, NEW c \in Clients, NEW s \in Session, HasArguments(s),
         session' = [session EXCEPT ![c] = s], RowsKept, callsLeft' \in 0..MaxCalls
  PROVE  TypeInv' /\ session'[c] = s /\ \A d \in Clients : d # c => session'[d] = session[d]
<1>1. /\ session' \in [Clients -> Session] /\ ArgumentsAreSet'
      /\ session'[c] = s /\ \A d \in Clients : d # c => session'[d] = session[d]
  BY SetSession
<1>. QED
  BY <1>1 DEF TypeInv, TypeOK, RowsKept, scores, requests, locks

\* What a handler knows after its first query, with the stamp it began with.
LEMMA HandleStep ==
  ASSUME TypeInv, NEW c \in Clients, NEW r \in Session, HasArguments(r), Handle(c, r)
  PROVE  \E s \in Session :
           /\ HasArguments(s) /\ session' = [session EXCEPT ![c] = s]
           /\ s.pc = r.pc /\ s.request = r.request /\ s.criterion = r.criterion
           /\ s.score = r.score /\ s.began = session[c].began
<1>. DEFINE s == [r EXCEPT !.began = session[c].began]
<1>1. session[c].began \in Stamps
  BY DEF TypeInv, TypeOK, Session
<1>2. /\ s \in Session
      /\ s.pc = r.pc /\ s.request = r.request /\ s.criterion = r.criterion
      /\ s.score = r.score /\ s.outcome = r.outcome /\ s.began = session[c].began
  BY <1>1 DEF Session
<1>3. session' = [session EXCEPT ![c] = s]
  BY DEF Handle
<1>. HIDE DEF s
<1>4. HasArguments(s)
  BY <1>2 DEF HasArguments
<1>. QED
  BY <1>2, <1>3, <1>4

\* Every new call is such a step, at a label outside the submission's locks.
LEMMA NewCallStep ==
  ASSUME TypeInv, NEW c \in Clients, NewCall(c)
  PROVE  /\ \E s \in Session :
              /\ HasArguments(s)
              /\ s.pc \in {"begun", "criterion", "feedback", "lock", "waitGrade", "waitRequest"}
              /\ s.request \in Requests => s.request \in Submitted
              /\ s.criterion \in Criteria /\ OneEditor =>
                   EditsAlone(c, s.criterion) /\ s.began = session[c].began
              /\ s.request \in Requests /\ s.score = NoScore => s.criterion = WholeGrade
              /\ session' = [session EXCEPT ![c] = s]
         /\ RowsKept /\ callsLeft' \in 0..MaxCalls
<1>0. RowsKept /\ callsLeft' \in 0..MaxCalls
  <2>1. RowsKept
    BY DEF NewCall, Begin, StartOverride, StartFeedback, StartLock, StartSubmit,
       StartResolve, RowsKept
  <2>2. callsLeft \in 0..MaxCalls
    BY DEF TypeInv, TypeOK
  <2>3. CASE Begin(c)
    BY <2>1, <2>2, <2>3, ReviewAssumption DEF Begin
  <2>4. CASE ~ Begin(c)
    BY <2>1, <2>2, <2>4 DEF NewCall, StartOverride, StartFeedback, StartLock, StartSubmit,
       StartResolve
  <2>. QED
    BY <2>3, <2>4
<1>1. CASE StartOverride(c)
  <2>1. PICK k \in Criteria, s \in Scores \union {NoScore} :
          /\ OneEditor => EditsAlone(c, k)
          /\ Handle(c, [Idle EXCEPT !.pc = "criterion", !.criterion = k, !.score = s,
                                    !.total = totalScore])
    BY <1>1 DEF StartOverride
  <2>. DEFINE r == [Idle EXCEPT !.pc = "criterion", !.criterion = k, !.score = s,
                                !.total = totalScore]
  <2>0. totalScore \in Totals /\ 0 \in Totals /\ 0 \in Stamps
    BY ZeroTypes DEF TypeInv, TypeOK
  <2>2. /\ r \in Session /\ HasArguments(r) /\ r.pc = "criterion"
        /\ r.request \notin Requests /\ r.criterion = k
    BY <2>0, ReviewAssumption DEF Idle, Session, HasArguments
  <2>3. Handle(c, r)
    BY <2>1
  <2>. HIDE DEF r
  <2>. QED
    BY <1>0, <2>1, <2>2, <2>3, HandleStep
<1>2. CASE StartFeedback(c)
  <2>. DEFINE r == [Idle EXCEPT !.pc = "feedback"]
  <2>1. /\ r \in Session /\ HasArguments(r) /\ r.pc = "feedback"
        /\ r.request \notin Requests /\ r.criterion \notin Criteria
    BY ZeroTypes, ReviewAssumption DEF Idle, Session, HasArguments
  <2>2. Handle(c, r)
    BY <1>2 DEF StartFeedback
  <2>. HIDE DEF r
  <2>. QED
    BY <1>0, <2>1, <2>2, HandleStep
<1>3. CASE StartLock(c)
  <2>. DEFINE r == [Idle EXCEPT !.pc = "lock"]
  <2>1. /\ r \in Session /\ HasArguments(r) /\ r.pc = "lock"
        /\ r.request \notin Requests /\ r.criterion \notin Criteria
    BY ZeroTypes, ReviewAssumption DEF Idle, Session, HasArguments
  <2>2. Handle(c, r)
    BY <1>3 DEF StartLock
  <2>. HIDE DEF r
  <2>. QED
    BY <1>0, <2>1, <2>2, HandleStep
<1>4. CASE StartSubmit(c)
  <2>. DEFINE r == [Idle EXCEPT !.pc = "waitGrade"]
  <2>1. /\ r \in Session /\ HasArguments(r) /\ r.pc = "waitGrade"
        /\ r.request \notin Requests /\ r.criterion \notin Criteria
    BY ZeroTypes, ReviewAssumption DEF Idle, Session, HasArguments
  <2>2. Handle(c, r)
    BY <1>4 DEF StartSubmit
  <2>. HIDE DEF r
  <2>. QED
    BY <1>0, <2>1, <2>2, HandleStep
<1>5. CASE StartResolve(c)
  <2>1. PICK r \in Requests, o \in Resolutions, s \in Scores \union {NoScore} :
          /\ status[r] = "open"
          /\ s # NoScore => o = "approved" /\ target[r] # WholeGrade
          /\ s # NoScore /\ OneEditor => EditsAlone(c, target[r])
          /\ Handle(c, [Idle EXCEPT !.pc = "waitRequest", !.request = r, !.outcome = o,
                                    !.score = s,
                                    !.criterion = IF s = NoScore THEN WholeGrade
                                                                 ELSE target[r]])
    BY <1>5 DEF StartResolve
  <2>. DEFINE k == IF s = NoScore THEN WholeGrade ELSE target[r]
              q == [Idle EXCEPT !.pc = "waitRequest", !.request = r, !.outcome = o,
                                !.score = s, !.criterion = k]
  <2>2. /\ k \in Criteria \union {WholeGrade} /\ (s # NoScore => k \in Criteria)
        /\ k \in Criteria /\ OneEditor => EditsAlone(c, k)
        /\ s = NoScore => k = WholeGrade
    BY <2>1, ReviewAssumption DEF TypeInv, TypeOK
  <2>. HIDE DEF k
  <2>3. /\ q \in Session /\ HasArguments(q) /\ q.pc = "waitRequest"
        /\ q.request = r /\ q.criterion = k /\ q.score = s
    BY <2>2, ZeroTypes DEF Idle, Session, HasArguments
  <2>4. Handle(c, q)
    BY <2>1 DEF k
  <2>5. r \in Submitted
    BY <2>1 DEF Submitted
  <2>. HIDE DEF q
  <2>. QED
    BY <1>0, <2>2, <2>3, <2>4, <2>5, HandleStep
<1>6. CASE Begin(c)
  <2>. DEFINE s == [Idle EXCEPT !.pc = "begun", !.began = MaxCalls - callsLeft']
  <2>1. MaxCalls - callsLeft' \in Stamps
    <3>1. MaxCalls \in Nat
      BY ReviewAssumption
    <3>2. \A n \in 0..MaxCalls : MaxCalls - n \in 0..MaxCalls
      BY <3>1
    <3>. QED
      BY <1>0, <3>2, Zenon DEF Stamps
  <2>2. /\ s \in Session /\ HasArguments(s) /\ s.pc = "begun"
        /\ s.request \notin Requests /\ s.criterion \notin Criteria
    BY <2>1, ZeroTypes, ReviewAssumption DEF Idle, Session, HasArguments
  <2>3. session' = [session EXCEPT ![c] = s]
    BY <1>6 DEF Begin
  <2>. HIDE DEF s
  <2>. QED
    BY <1>0, <2>2, <2>3
<1>. QED
  BY <1>1, <1>2, <1>3, <1>4, <1>5, <1>6 DEF NewCall

LEMMA TypeNewCall ==
  ASSUME TypeInv, NEW c \in Clients, NewCall(c)
  PROVE  TypeInv'
BY NewCallStep, CallStep

\* The steps that store the results of a query in the handler's record.
LEMMA ReadStep ==
  ASSUME TypeInv, NEW c \in Clients,
         ReadCriterion(c) \/ SumScores(c) \/ CountRequests(c) \/ ReadGrade(c)
  PROVE  \E s \in Session :
           /\ HasArguments(s)
           /\ session' = [session EXCEPT ![c] = s]
           /\ s.request = session[c].request /\ s.criterion = session[c].criterion
           /\ s.pc = "insert" => CountRequests(c) /\ s.count = Cardinality(Submitted)
           /\ s.pc # "count"
<1>0. /\ session[c] \in Session /\ HasArguments(session[c])
      /\ session \in [Clients -> Session]
  BY DEF TypeInv, TypeOK, ArgumentsAreSet
<1>1. CASE ReadCriterion(c)
  <2>. DEFINE k == session[c].criterion
              label == CASE session[c].request # NoRequest -> "grade"
                         [] session[c].score = NoScore     -> "commit"
                         [] OTHER                          -> "sum"
              s == [session[c] EXCEPT !.teacher = teacherScore[k],
                                      !.final = finalScore[k], !.pc = label]
  <2>1. k \in Criteria
    BY <1>0, <1>1 DEF ReadCriterion, HasArguments
  <2>2. teacherScore[k] \in Scores \union {NoScore} /\ finalScore[k] \in Scores
    BY <2>1 DEF TypeInv, TypeOK
  <2>3. /\ label \in {"grade", "commit", "sum"}
        /\ label = "grade" => session[c].request # NoRequest
    OBVIOUS
  <2>7. session' = [session EXCEPT ![c].teacher = teacherScore[k],
                                   ![c].final = finalScore[k], ![c].pc = label]
    BY <1>1 DEF ReadCriterion
  <2>. HIDE DEF label
  <2>4. session' = [session EXCEPT ![c] = s]
    BY <1>0, <2>7
  <2>5. s \in Session
    BY <1>0, <2>2, <2>3 DEF Session
  <2>6. /\ HasArguments(s) /\ s.pc = label /\ s.request = session[c].request
        /\ s.criterion = session[c].criterion
    BY <1>0, <2>1, <2>3 DEF HasArguments, Session
  <2>. HIDE DEF s
  <2>. QED
    BY <2>3, <2>4, <2>5, <2>6
<1>2. CASE SumScores(c)
  <2>. DEFINE label == IF session[c].request = NoRequest THEN "commit" ELSE "resolve"
              s == [session[c] EXCEPT !.sum = TotalOf(finalScore), !.pc = label]
  <2>1. TotalOf(finalScore) \in Totals
    BY TotalType DEF TypeInv, TypeOK
  <2>2. /\ label \in {"commit", "resolve"}
        /\ label = "resolve" => session[c].request # NoRequest
    OBVIOUS
  <2>3. session' = [session EXCEPT ![c] = s]
    BY <1>0, <1>2 DEF SumScores
  <2>. HIDE DEF label
  <2>4. s \in Session
    BY <1>0, <2>1, <2>2 DEF Session
  <2>5. /\ HasArguments(s) /\ s.pc = label /\ s.request = session[c].request
        /\ s.criterion = session[c].criterion
    BY <1>0, <1>2, <2>2 DEF HasArguments, Session, SumScores
  <2>. HIDE DEF s
  <2>. QED
    BY <2>2, <2>3, <2>4, <2>5
<1>3. CASE CountRequests(c)
  <2>. DEFINE n == Cardinality(Submitted)
              s == [session[c] EXCEPT !.count = n, !.pc = "insert"]
  <2>1. n \in Nat
    BY ReviewAssumption, FS_Subset, FS_CardinalityType DEF Submitted
  <2>2. session' = [session EXCEPT ![c] = s]
    BY <1>0, <1>3 DEF CountRequests
  <2>. HIDE DEF n
  <2>3. s \in Session
    BY <1>0, <2>1 DEF Session
  <2>4. /\ HasArguments(s) /\ s.pc = "insert" /\ s.count = n /\ s.request = session[c].request
        /\ s.criterion = session[c].criterion
    BY <1>0 DEF HasArguments, Session
  <2>. HIDE DEF s
  <2>. QED
    BY <1>3, <2>2, <2>3, <2>4 DEF n
<1>4. CASE ReadGrade(c)
  <2>. DEFINE s == [session[c] EXCEPT !.total = totalScore, !.pc = "sum"]
  <2>1. totalScore \in Totals
    BY DEF TypeInv, TypeOK
  <2>2. session' = [session EXCEPT ![c] = s]
    BY <1>0, <1>4 DEF ReadGrade
  <2>3. s \in Session
    BY <1>0, <2>1 DEF Session
  <2>4. /\ HasArguments(s) /\ s.pc = "sum" /\ s.request = session[c].request
        /\ s.criterion = session[c].criterion
    BY <1>0, <1>4 DEF HasArguments, Session, ReadGrade
  <2>. HIDE DEF s
  <2>. QED
    BY <2>2, <2>3, <2>4
<1>. QED
  BY <1>1, <1>2, <1>3, <1>4

\* The label changes that take a row lock.
LEMMA LockStep ==
  ASSUME TypeInv, NEW c \in Clients, LockGradeRow(c) \/ LockRequestRow(c)
  PROVE  /\ session' \in [Clients -> Session]
         /\ ArgumentsAreSet'
         /\ \A d \in Clients : d # c => session'[d] = session[d]
         /\ \E label \in {"count", "resolve", "criterion"} :
              /\ session'[c] = [session[c] EXCEPT !.pc = label]
              /\ label = "count" => LockGradeRow(c)
<1>0. session[c] \in Session /\ HasArguments(session[c])
  BY DEF TypeInv, TypeOK, ArgumentsAreSet
<1>1. CASE LockGradeRow(c)
  <2>1. HasArguments([session[c] EXCEPT !.pc = "count"])
    BY <1>0 DEF HasArguments, Session
  <2>. QED
    BY <1>1, <2>1, GoToStep DEF LockGradeRow
<1>2. CASE LockRequestRow(c)
  <2>. DEFINE label == IF session[c].score = NoScore THEN "resolve" ELSE "criterion"
  <2>1. HasArguments([session[c] EXCEPT !.pc = label])
    BY <1>0, <1>2 DEF HasArguments, Session, LockRequestRow
  <2>2. label \in {"resolve", "criterion"} /\ GoTo(c, label)
    BY <1>2 DEF LockRequestRow
  <2>. HIDE DEF label
  <2>. QED
    BY <2>1, <2>2, GoToStep
<1>. QED
  BY <1>1, <1>2

LEMMA AppendType ==
  ASSUME TypeInv, NEW e \in AuditEntry
  PROVE  Append(audit, e) \in Seq(AuditEntry)
BY DEF TypeInv, TypeOK

\* The steps that end a call keep the types of what they commit.
LEMMA CommitTypes ==
  ASSUME TypeInv, NEW c \in Clients,
         \/ CommitOverride(c) \/ CommitFeedback(c) \/ LockGrade(c) \/ InsertRequest(c)
         \/ RefuseOverLimit(c) \/ RefuseLocked(c) \/ CommitResolution(c) \/ Abort(c)
  PROVE  /\ teacherScore' \in [Criteria -> Scores \union {NoScore}]
         /\ finalScore' \in [Criteria -> Scores]
         /\ totalScore' \in Totals
         /\ isLocked' \in BOOLEAN
         /\ status' \in [Requests -> Resolutions \union {"none", "open"}]
         /\ target' \in [Requests -> Criteria \union {WholeGrade}]
         /\ audit' \in Seq(AuditEntry)
         /\ UNCHANGED <<aiScore, callsLeft>>
         /\ Respond(c)
<1>0. /\ session[c] \in Session /\ HasArguments(session[c]) /\ TypeOK
      /\ audit \in Seq(AuditEntry)
  BY DEF TypeInv, TypeOK, ArgumentsAreSet
<1>1. CASE CommitOverride(c)
  <2>1. session[c].criterion \in Criteria
    BY <1>0, <1>1 DEF CommitOverride, HasArguments
  <2>2. CASE session[c].score = NoScore
    <3>1. Log(c, "score_override", session[c].criterion, session[c].final, "") \in AuditEntry
      BY <1>0, <2>1, LogType DEF Session
    <3>2. audit' \in Seq(AuditEntry)
      BY <1>1, <2>2, <3>1, AppendType DEF CommitOverride
    <3>. QED
      BY <1>0, <1>1, <2>2, <3>2 DEF CommitOverride, TypeOK, scores, requests
  <2>3. CASE session[c].score # NoScore
    <3>1. Log(c, "score_override", session[c].criterion, session[c].score, "") \in AuditEntry
      BY <1>0, <2>1, LogType DEF Session
    <3>2. audit' \in Seq(AuditEntry)
      BY <1>1, <2>3, <3>1, AppendType DEF CommitOverride
    <3>3. StoreScore(c)
      BY <1>1, <2>3 DEF CommitOverride
    <3>. QED
      BY <1>0, <1>1, <2>3, <3>2, <3>3, StoreScoreType DEF CommitOverride, TypeOK, requests
  <2>. QED
    BY <2>2, <2>3
<1>2. CASE CommitFeedback(c)
  <2>1. Log(c, "feedback_edited", WholeGrade, NoScore, "") \in AuditEntry
    BY LogType
  <2>. QED
    BY <1>0, <1>2, <2>1, AppendType DEF CommitFeedback, TypeOK, scores, requests
<1>3. CASE LockGrade(c)
  <2>1. Log(c, "grade_locked", WholeGrade, NoScore, "") \in AuditEntry
    BY LogType
  <2>2. audit' \in Seq(AuditEntry)
    BY <1>0, <1>3, <2>1, AppendType DEF LockGrade
  <2>. QED
    BY <1>0, <1>3, <2>2 DEF LockGrade, TypeOK, scores, requests
<1>4. CASE InsertRequest(c)
  BY <1>0, <1>4 DEF InsertRequest, TypeOK, scores, Submitted
<1>5. CASE RefuseOverLimit(c) \/ RefuseLocked(c) \/ Abort(c)
  BY <1>0, <1>5 DEF RefuseOverLimit, RefuseLocked, Abort, TypeOK, scores, requests
<1>6. CASE CommitResolution(c)
  <2>1. session[c].request \in Requests /\ session[c].outcome \in Resolutions
    BY <1>0, <1>6, ReviewAssumption DEF CommitResolution, HasArguments
  <2>2. Log(c, "regrade_resolved", session[c].request, session[c].score, session[c].outcome)
          \in AuditEntry
    BY <1>0, <2>1, LogType DEF Session
  <2>3. status' \in [Requests -> Resolutions \union {"none", "open"}]
    BY <1>0, <1>6, <2>1 DEF CommitResolution, TypeOK
  <2>4. CASE session[c].score = NoScore
    <3>1. audit' \in Seq(AuditEntry)
      BY <1>6, <2>2, <2>4, AppendType DEF CommitResolution
    <3>. QED
      BY <1>0, <1>6, <2>3, <2>4, <3>1 DEF CommitResolution, TypeOK, scores
  <2>5. CASE session[c].score # NoScore
    <3>1. Log(c, "score_override", session[c].criterion, session[c].score, "") \in AuditEntry
      BY <1>0, <2>5, LogType DEF Session, HasArguments
    <3>. DEFINE e == Log(c, "score_override", session[c].criterion, session[c].score, "")
                f == Log(c, "regrade_resolved", session[c].request, session[c].score,
                         session[c].outcome)
    <3>4. audit' = audit \o <<e, f>>
      BY <1>6, <2>5 DEF CommitResolution
    <3>5. e \in AuditEntry /\ f \in AuditEntry
      BY <2>2, <3>1
    <3>. HIDE DEF e, f
    <3>2. audit' \in Seq(AuditEntry)
      BY <1>0, <3>4, <3>5
    <3>3. StoreScore(c)
      BY <1>6, <2>5 DEF CommitResolution
    <3>. QED
      BY <1>0, <1>6, <2>3, <2>5, <3>2, <3>3, StoreScoreType DEF CommitResolution, TypeOK
  <2>. QED
    BY <2>4, <2>5
<1>. QED
  BY <1>1, <1>2, <1>3, <1>4, <1>5, <1>6

\* The steps a handler takes, by what they do to its record.
LEMMA StepCases ==
  ASSUME NEW c \in Clients, Begin(c) \/ Serve(c) \/ Abort(c)
  PROVE  \/ NewCall(c)
         \/ ReadCriterion(c) \/ SumScores(c) \/ CountRequests(c) \/ ReadGrade(c)
         \/ LockGradeRow(c) \/ LockRequestRow(c)
         \/ CommitOverride(c) \/ CommitFeedback(c) \/ LockGrade(c) \/ InsertRequest(c)
         \/ RefuseOverLimit(c) \/ RefuseLocked(c) \/ CommitResolution(c) \/ Abort(c)
BY DEF Serve, NewCall

LEMMA TypeStep == TypeInv /\ [Next]_vars => TypeInv'
<1>. SUFFICES ASSUME TypeInv, [Next]_vars PROVE TypeInv'
  OBVIOUS
<1>1. CASE UNCHANGED vars
  BY <1>1 DEF TypeInv, TypeOK, ArgumentsAreSet, HasArguments, vars, scores, requests, locks
<1>2. ASSUME NEW c \in Clients, Begin(c) \/ Serve(c) \/ Abort(c) PROVE TypeInv'
  <2>1. CASE NewCall(c)
    BY <2>1, TypeNewCall
  <2>2. CASE ReadCriterion(c) \/ SumScores(c) \/ CountRequests(c) \/ ReadGrade(c)
    <3>1. session' \in [Clients -> Session] /\ ArgumentsAreSet'
      BY <2>2, ReadStep, SetSession
    <3>. QED
      BY <2>2, <3>1 DEF TypeInv, TypeOK, ReadCriterion, SumScores, CountRequests, ReadGrade,
         scores, requests, locks
  <2>3. CASE LockGradeRow(c) \/ LockRequestRow(c)
    <3>1. session' \in [Clients -> Session] /\ ArgumentsAreSet'
      BY <2>3, LockStep
    <3>. QED
      BY <2>3, <3>1 DEF TypeInv, TypeOK, LockGradeRow, LockRequestRow, scores, requests
  <2>4. CASE \/ CommitOverride(c) \/ CommitFeedback(c) \/ LockGrade(c) \/ InsertRequest(c)
             \/ RefuseOverLimit(c) \/ RefuseLocked(c) \/ CommitResolution(c) \/ Abort(c)
    <3>1. /\ session' \in [Clients -> Session] /\ ArgumentsAreSet'
          /\ gradeLock' \in Clients \union {NoClient}
          /\ requestLock' \in [Requests -> Clients \union {NoClient}]
      BY <2>4, CommitTypes, RespondStep
    <3>. QED
      BY <2>4, <3>1, CommitTypes DEF TypeInv, TypeOK
  <2>. QED
    BY <1>2, <2>1, <2>2, <2>3, <2>4, StepCases
<1>. QED
  BY <1>1, <1>2 DEF Next

\* Every column, lock and handler keeps its type; a handler that is about to
\* read or write a row knows which.
THEOREM ReviewTypeCorrect == Spec => []TypeInv
BY TypeInit, TypeStep, PTL DEF Spec

\* Scores, overrides, statuses and log entries keep their types whatever
\* statements of handlers interleave.
THEOREM ReviewTypesHold == Spec => []TypeOK
<1>1. TypeInv => TypeOK
  BY DEF TypeInv
<1>. QED
  BY <1>1, ReviewTypeCorrect, PTL

---------------------------------------------------------------------------
(* The limit of regrade requests *)

LEMMA SubmittedIsFinite == IsFiniteSet(Submitted)
BY ReviewAssumption, FS_Subset DEF Submitted

\* What a step does to the requests and to the row lock of the others.
LEMMA LimitNewCall ==
  ASSUME LimitInv, NEW c \in Clients, NewCall(c)
  PROVE  LimitInv'
<1>1. PICK s \in Session :
        /\ HasArguments(s)
        /\ s.pc \in {"begun", "criterion", "feedback", "lock", "waitGrade", "waitRequest"}
        /\ s.request \in Requests => s.request \in Submitted
        /\ session' = [session EXCEPT ![c] = s]
        /\ RowsKept /\ callsLeft' \in 0..MaxCalls
  BY NewCallStep DEF LimitInv
<1>2. TypeInv' /\ session'[c] = s /\ \A d \in Clients : d # c => session'[d] = session[d]
  BY <1>1, CallStep DEF LimitInv
<1>3. Submitted' = Submitted /\ gradeLock' = gradeLock
  BY <1>1 DEF RowsKept, Submitted, requests, locks
<1>. QED
  BY <1>1, <1>2, <1>3 DEF LimitInv, RequestsExist, SubmissionsHoldTheRow, CountIsCurrent,
     RequestLimit

LEMMA LimitRead ==
  ASSUME LimitInv, NEW c \in Clients,
         ReadCriterion(c) \/ SumScores(c) \/ CountRequests(c) \/ ReadGrade(c)
  PROVE  /\ RequestsExist' /\ SubmissionsHoldTheRow' /\ CountIsCurrent' /\ RequestLimit'
<1>1. PICK s \in Session :
        /\ HasArguments(s)
        /\ session' = [session EXCEPT ![c] = s]
        /\ s.request = session[c].request
        /\ s.pc = "insert" => CountRequests(c) /\ s.count = Cardinality(Submitted)
        /\ s.pc # "count"
  BY ReadStep DEF LimitInv
<1>2. session'[c] = s /\ \A d \in Clients : d # c => session'[d] = session[d]
  BY <1>1, SetSession DEF LimitInv
<1>3. Submitted' = Submitted /\ gradeLock' = gradeLock
  BY DEF ReadCriterion, SumScores, CountRequests, ReadGrade, Submitted, requests, locks
<1>4. CountRequests(c) => gradeLock = c
  BY DEF CountRequests, LimitInv, SubmissionsHoldTheRow
<1>. QED
  BY <1>1, <1>2, <1>3, <1>4 DEF LimitInv, RequestsExist, SubmissionsHoldTheRow,
     CountIsCurrent, RequestLimit

LEMMA LimitLock ==
  ASSUME LimitInv, NEW c \in Clients, LockGradeRow(c) \/ LockRequestRow(c)
  PROVE  /\ RequestsExist' /\ SubmissionsHoldTheRow' /\ CountIsCurrent' /\ RequestLimit'
<1>1. PICK label \in {"count", "resolve", "criterion"} :
        /\ session'[c] = [session[c] EXCEPT !.pc = label]
        /\ label = "count" => LockGradeRow(c)
  BY LockStep DEF LimitInv
<1>2. session[c] \in Session
  BY DEF LimitInv, TypeInv, TypeOK
<1>3. session'[c].pc = label /\ session'[c].request = session[c].request
  BY <1>1, <1>2 DEF Session
<1>4. \A d \in Clients : d # c => session'[d] = session[d]
  BY LockStep DEF LimitInv
<1>5. Submitted' = Submitted
  BY DEF LockGradeRow, LockRequestRow, Submitted, requests
<1>6. RequestsExist' /\ CountIsCurrent' /\ RequestLimit'
  BY <1>3, <1>4, <1>5 DEF LimitInv, RequestsExist, CountIsCurrent, RequestLimit
<1>7. SubmissionsHoldTheRow'
  <2>1. CASE LockGradeRow(c)
    BY <1>4, <2>1, ReviewAssumption DEF LockGradeRow, LimitInv, SubmissionsHoldTheRow
  <2>2. CASE ~ LockGradeRow(c)
    BY <1>1, <1>3, <1>4, <2>2 DEF LockRequestRow, LimitInv, SubmissionsHoldTheRow
  <2>. QED
    BY <2>1, <2>2
<1>. QED
  BY <1>6, <1>7

\* A submission that commits is the only one past the lock, so its count is
\* the number of requests.
LEMMA LimitInsert ==
  ASSUME LimitInv, NEW c \in Clients, InsertRequest(c)
  PROVE  /\ RequestsExist' /\ SubmissionsHoldTheRow' /\ CountIsCurrent' /\ RequestLimit'
<1>1. /\ session'[c] = Idle
      /\ \A d \in Clients : d # c => session'[d] = session[d]
      /\ \A d \in Clients : d # c /\ gradeLock = d => gradeLock' = d
  BY RespondStep DEF LimitInv, InsertRequest
<1>2. PICK r \in Requests \ Submitted : status' = [status EXCEPT ![r] = "open"]
  BY DEF InsertRequest
<1>3. Submitted' = Submitted \union {r}
  BY <1>2 DEF Submitted, LimitInv, TypeInv, TypeOK
<1>4. Cardinality(Submitted') = Cardinality(Submitted) + 1
  BY <1>2, <1>3, SubmittedIsFinite, FS_AddElement
<1>5. Cardinality(Submitted) < RegradeMax
  BY DEF InsertRequest, LimitInv, CountIsCurrent
<1>6. \A d \in Clients : d # c => session[d].pc \notin {"count", "insert"}
  BY DEF InsertRequest, LimitInv, SubmissionsHoldTheRow
<1>7. Cardinality(Submitted) \in Nat
  BY SubmittedIsFinite, FS_CardinalityType
<1>8. RequestLimit'
  BY <1>4, <1>5, <1>7, ReviewAssumption DEF RequestLimit
<1>9. Idle.pc = "idle" /\ Idle.request \notin Requests
  BY ReviewAssumption DEF Idle
<1>. QED
  BY <1>1, <1>3, <1>6, <1>8, <1>9 DEF LimitInv, RequestsExist, SubmissionsHoldTheRow,
     CountIsCurrent

\* The other ends of a call leave the set of requests alone.
LEMMA LimitRespond ==
  ASSUME LimitInv, NEW c \in Clients,
         \/ CommitOverride(c) \/ CommitFeedback(c) \/ LockGrade(c) \/ RefuseOverLimit(c)
         \/ RefuseLocked(c) \/ CommitResolution(c) \/ Abort(c)
  PROVE  /\ RequestsExist' /\ SubmissionsHoldTheRow' /\ CountIsCurrent' /\ RequestLimit'
<1>1. /\ session'[c] = Idle
      /\ \A d \in Clients : d # c => session'[d] = session[d]
      /\ \A d \in Clients : d # c /\ gradeLock = d => gradeLock' = d
  BY RespondStep DEF LimitInv, CommitOverride, CommitFeedback, LockGrade, RefuseOverLimit,
     RefuseLocked, CommitResolution, Abort
<1>2. Submitted' = Submitted
  <2>1. CASE CommitResolution(c)
    <3>1. session[c].request \in Submitted /\ session[c].outcome \in Resolutions
      BY <2>1, ReviewAssumption DEF CommitResolution, LimitInv, RequestsExist, TypeInv,
         ArgumentsAreSet, HasArguments
    <3>2. status' = [status EXCEPT ![session[c].request] = session[c].outcome]
      BY <2>1 DEF CommitResolution
    <3>. QED
      BY <3>1, <3>2 DEF Submitted, Resolutions, LimitInv, TypeInv, TypeOK
  <2>2. CASE ~ CommitResolution(c)
    BY <2>2 DEF CommitOverride, CommitFeedback, LockGrade, RefuseOverLimit, RefuseLocked,
       Abort, requests, Submitted
  <2>. QED
    BY <2>1, <2>2
<1>3. Idle.pc = "idle" /\ Idle.request \notin Requests
  BY ReviewAssumption DEF Idle
<1>. QED
  BY <1>1, <1>2, <1>3 DEF LimitInv, RequestsExist, SubmissionsHoldTheRow, CountIsCurrent,
     RequestLimit

LEMMA LimitInit == Init => LimitInv
<1>. SUFFICES ASSUME Init PROVE LimitInv
  OBVIOUS
<1>1. Submitted = {}
  BY DEF Init, Submitted
<1>2. Cardinality(Submitted) = 0
  BY <1>1, FS_EmptySet
<1>3. Idle.pc = "idle" /\ Idle.request \notin Requests
  BY ReviewAssumption DEF Idle
<1>. QED
  BY <1>2, <1>3, TypeInit, ReviewAssumption DEF Init, LimitInv, RequestsExist,
     SubmissionsHoldTheRow, CountIsCurrent, RequestLimit

LEMMA LimitStep == LimitInv /\ [Next]_vars => LimitInv'
<1>. SUFFICES ASSUME LimitInv, [Next]_vars PROVE LimitInv'
  OBVIOUS
<1>0. TypeInv'
  BY TypeStep DEF LimitInv
<1>1. CASE UNCHANGED vars
  BY <1>0, <1>1 DEF LimitInv, RequestsExist, SubmissionsHoldTheRow, CountIsCurrent,
     RequestLimit, Submitted, vars, requests, locks
<1>2. ASSUME NEW c \in Clients, Begin(c) \/ Serve(c) \/ Abort(c) PROVE LimitInv'
  BY <1>0, <1>2, StepCases, LimitNewCall, LimitRead, LimitLock, LimitInsert, LimitRespond
     DEF LimitInv
<1>. QED
  BY <1>1, <1>2 DEF Next

\* However many submissions run at once, a grade never gets more regrade
\* requests than the limit, because each counts under the lock of the row.
THEOREM SubmissionsAreLimited == Spec => []RequestLimit
<1>1. LimitInv => RequestLimit
  BY DEF LimitInv
<1>. QED
  BY <1>1, LimitInit, LimitStep, PTL DEF Spec

---------------------------------------------------------------------------
(* The audit log *)

\* One more entry joins the entries of its kind only.
LEMMA OneEntryMore ==
  ASSUME audit \in Seq(AuditEntry), NEW e \in AuditEntry, audit' = Append(audit, e)
  PROVE  /\ Entries(e.action, e.of)' = Entries(e.action, e.of) \union {Len(audit) + 1}
         /\ \A a, o : a # e.action \/ o # e.of => Entries(a, o)' = Entries(a, o)
         /\ audit'[Len(audit) + 1] = e
         /\ \A n \in DOMAIN audit : audit'[n] = audit[n] /\ n <= Len(audit)
<1>1. /\ DOMAIN audit' = 1..(Len(audit) + 1) /\ DOMAIN audit = 1..Len(audit)
      /\ Len(audit) \in Nat
      /\ \A n \in 1..Len(audit) : audit'[n] = audit[n]
      /\ audit'[Len(audit) + 1] = e
  OBVIOUS
<1>2. Entries(e.action, e.of)' = Entries(e.action, e.of) \union {Len(audit) + 1}
  BY <1>1 DEF Entries
<1>3. ASSUME NEW a, NEW o, a # e.action \/ o # e.of PROVE Entries(a, o)' = Entries(a, o)
  BY <1>1, <1>3 DEF Entries
<1>. QED
  BY <1>1, <1>2, <1>3

\* Two more, as a resolution with a score writes them.
LEMMA TwoEntriesMore ==
  ASSUME audit \in Seq(AuditEntry), NEW e \in AuditEntry, NEW f \in AuditEntry,
         audit' = audit \o <<e, f>>, e.action # f.action
  PROVE  /\ Entries(e.action, e.of)' = Entries(e.action, e.of) \union {Len(audit) + 1}
         /\ Entries(f.action, f.of)' = Entries(f.action, f.of) \union {Len(audit) + 2}
         /\ \A a, o : (a # e.action \/ o # e.of) /\ (a # f.action \/ o # f.of)
                        => Entries(a, o)' = Entries(a, o)
         /\ audit'[Len(audit) + 1] = e /\ audit'[Len(audit) + 2] = f
         /\ \A n \in DOMAIN audit : audit'[n] = audit[n] /\ n <= Len(audit)
<1>1. /\ DOMAIN audit' = 1..(Len(audit) + 2) /\ DOMAIN audit = 1..Len(audit)
      /\ Len(audit) \in Nat
      /\ \A n \in 1..Len(audit) : audit'[n] = audit[n]
      /\ audit'[Len(audit) + 1] = e /\ audit'[Len(audit) + 2] = f
  OBVIOUS
<1>2. Entries(e.action, e.of)' = Entries(e.action, e.of) \union {Len(audit) + 1}
  BY <1>1 DEF Entries
<1>3. Entries(f.action, f.of)' = Entries(f.action, f.of) \union {Len(audit) + 2}
  BY <1>1 DEF Entries
<1>4. ASSUME NEW a, NEW o, a # e.action \/ o # e.of, a # f.action \/ o # f.of
      PROVE  Entries(a, o)' = Entries(a, o)
  BY <1>1, <1>4 DEF Entries
<1>. QED
  BY <1>1, <1>2, <1>3, <1>4

LEMMA EntriesAreFinite ==
  ASSUME TypeInv, NEW action, NEW of
  PROVE  IsFiniteSet(Entries(action, of)) /\ Len(audit) + 1 \notin Entries(action, of)
<1>1. DOMAIN audit = 1..Len(audit) /\ Len(audit) \in Nat
  BY DEF TypeInv, TypeOK
<1>2. IsFiniteSet(1..Len(audit))
  BY <1>1, FS_Interval
<1>. QED
  BY <1>1, <1>2, FS_Subset DEF Entries

\* The steps by what they add to the log.
LEMMA AuditCases ==
  ASSUME TypeInv, NEW c \in Clients, Begin(c) \/ Serve(c) \/ Abort(c)
  PROVE  \/ /\ audit' = audit /\ isLocked' = isLocked
            /\ \/ status' = status
               \/ \E r \in Requests : status[r] = "none" /\ status' = [status EXCEPT ![r] = "open"]
         \/ CommitOverride(c) \/ CommitFeedback(c) \/ LockGrade(c) \/ CommitResolution(c)
<1>1. CASE NewCall(c)
  BY <1>1 DEF NewCall, Begin, StartOverride, StartFeedback, StartLock, StartSubmit,
     StartResolve, requests
<1>2. CASE InsertRequest(c)
  BY <1>2 DEF InsertRequest, Submitted
<1>3. CASE \/ ReadCriterion(c) \/ SumScores(c) \/ CountRequests(c) \/ ReadGrade(c)
           \/ LockGradeRow(c) \/ LockRequestRow(c)
           \/ RefuseOverLimit(c) \/ RefuseLocked(c) \/ Abort(c)
  BY <1>3 DEF ReadCriterion, SumScores, CountRequests, ReadGrade, LockGradeRow, LockRequestRow,
     RefuseOverLimit, RefuseLocked, Abort, requests
<1>. QED
  BY <1>1, <1>2, <1>3, StepCases

\* What an override or the feedback adds.
LEMMA EditEntry ==
  ASSUME TypeInv, NEW c \in Clients, CommitOverride(c) \/ CommitFeedback(c)
  PROVE  /\ \E e \in AuditEntry :
              /\ audit' = Append(audit, e)
              /\ e.action \in {"score_override", "feedback_edited"}
         /\ isLocked' = isLocked /\ status' = status
<1>0. /\ session[c] \in Session /\ HasArguments(session[c])
  BY DEF TypeInv, TypeOK, ArgumentsAreSet
<1>1. CASE CommitOverride(c)
  <2>. DEFINE score == IF session[c].score = NoScore THEN session[c].final ELSE session[c].score
              e == Log(c, "score_override", session[c].criterion, score, "")
  <2>1. session[c].criterion \in Criteria
    BY <1>0, <1>1 DEF CommitOverride, HasArguments
  <2>2. score \in Scores \union {NoScore}
    BY <1>0 DEF Session
  <2>3. audit' = Append(audit, e) /\ isLocked' = isLocked /\ status' = status
    BY <1>1 DEF CommitOverride, requests
  <2>. HIDE DEF score
  <2>4. e \in AuditEntry /\ e.action = "score_override"
    BY <2>1, <2>2, LogType DEF Log
  <2>. QED
    BY <2>3, <2>4
<1>2. CASE CommitFeedback(c)
  <2>. DEFINE e == Log(c, "feedback_edited", WholeGrade, NoScore, "")
  <2>1. e \in AuditEntry /\ e.action = "feedback_edited"
    BY LogType DEF Log
  <2>. QED
    BY <1>2, <2>1 DEF CommitFeedback, requests
<1>. QED
  BY <1>1, <1>2

\* What a resolution adds: its own entry last, after that of the score.
LEMMA ResolutionEntries ==
  ASSUME TypeInv, NEW c \in Clients, CommitResolution(c)
  PROVE  /\ session[c].request \in Requests /\ session[c].outcome \in Resolutions
         /\ status' = [status EXCEPT ![session[c].request] = session[c].outcome]
         /\ isLocked' = isLocked
         /\ \E e \in AuditEntry, f \in AuditEntry :
              /\ f.action = "regrade_resolved" /\ f.of = session[c].request
              /\ f.outcome = session[c].outcome
              /\ IF session[c].score = NoScore
                 THEN audit' = Append(audit, f)
                 ELSE /\ audit' = audit \o <<e, f>>
                      /\ e.action = "score_override" /\ e.of = session[c].criterion
                      /\ e.score = session[c].score /\ e.at = session[c].began
<1>0. /\ session[c] \in Session /\ HasArguments(session[c])
  BY DEF TypeInv, TypeOK, ArgumentsAreSet
<1>1. /\ session[c].request \in Requests /\ session[c].outcome \in Resolutions
      /\ session[c].score # NoScore => session[c].criterion \in Criteria
      /\ session[c].score \in Scores \union {NoScore}
  BY <1>0, ReviewAssumption DEF CommitResolution, HasArguments, Session
<1>. DEFINE k == IF session[c].score = NoScore THEN WholeGrade ELSE session[c].criterion
            e == Log(c, "score_override", k, session[c].score, "")
            f == Log(c, "regrade_resolved", session[c].request, session[c].score,
                     session[c].outcome)
<1>2. k \in Criteria \union Requests \union {WholeGrade}
  BY <1>1
<1>3. /\ e \in AuditEntry /\ e.action = "score_override" /\ e.of = k
      /\ e.score = session[c].score /\ e.at = session[c].began
  BY <1>1, <1>2, LogType DEF Log
<1>4. /\ f \in AuditEntry /\ f.action = "regrade_resolved" /\ f.of = session[c].request
      /\ f.outcome = session[c].outcome
  BY <1>1, LogType DEF Log
<1>5. IF session[c].score = NoScore THEN audit' = Append(audit, f)
                                    ELSE audit' = audit \o <<e, f>> /\ k = session[c].criterion
  BY DEF CommitResolution
<1>6. /\ status' = [status EXCEPT ![session[c].request] = session[c].outcome]
      /\ isLocked' = isLocked
  BY DEF CommitResolution
<1>. HIDE DEF e, f, k
<1>. QED
  BY <1>1, <1>3, <1>4, <1>5, <1>6

\* The statement about one request, which a step keeps if it leaves the
\* request's entries and its status alone.
Audited(r) ==
  IF status[r] \in Resolutions
  THEN \E n \in Entries("regrade_resolved", r) : audit[n].outcome = status[r]
  ELSE Entries("regrade_resolved", r) = {}

LEMMA KeepAudited ==
  ASSUME NEW r \in Requests, Audited(r), status'[r] = status[r],
         Entries("regrade_resolved", r)' = Entries("regrade_resolved", r),
         \A n \in Entries("regrade_resolved", r) : audit'[n] = audit[n]
  PROVE  Audited(r)'
BY DEF Audited

LEMMA AuditedIsInv == ResolutionIsAudited <=> \A r \in Requests : Audited(r)
BY DEF ResolutionIsAudited, Audited

\* A step that adds no entry for the lock keeps the statement about it.
LEMMA KeepLockEntry ==
  ASSUME OneLockEntry, isLocked' = isLocked,
         Entries("grade_locked", WholeGrade)' = Entries("grade_locked", WholeGrade)
  PROVE  OneLockEntry'
BY DEF OneLockEntry

LEMMA AuditUnchangedStep ==
  ASSUME AuditInv, audit' = audit, isLocked' = isLocked,
         \/ status' = status
         \/ \E r \in Requests : status[r] = "none" /\ status' = [status EXCEPT ![r] = "open"]
  PROVE  OneLockEntry' /\ \A r \in Requests : Audited(r)'
<1>1. \A a, o : Entries(a, o)' = Entries(a, o)
  BY DEF Entries
<1>3. \A r \in Requests : Audited(r)
  BY AuditedIsInv DEF AuditInv
<1>4. \A r \in Requests : status'[r] = status[r] \/ (status[r] = "none" /\ status'[r] = "open")
  BY DEF AuditInv, TypeInv, TypeOK
<1>5. ASSUME NEW r \in Requests PROVE Audited(r)'
  <2>1. CASE status'[r] = status[r]
    BY <1>1, <1>3, <2>1, KeepAudited
  <2>2. CASE status[r] = "none" /\ status'[r] = "open"
    BY <1>1, <1>3, <2>2 DEF Audited, Resolutions
  <2>. QED
    BY <1>4, <2>1, <2>2
<1>. QED
  BY <1>1, <1>5, KeepLockEntry DEF AuditInv

LEMMA AuditEditStep ==
  ASSUME AuditInv, NEW c \in Clients, CommitOverride(c) \/ CommitFeedback(c)
  PROVE  OneLockEntry' /\ \A r \in Requests : Audited(r)'
<1>1. PICK e \in AuditEntry :
        audit' = Append(audit, e) /\ e.action \in {"score_override", "feedback_edited"}
  BY EditEntry DEF AuditInv
<1>2. isLocked' = isLocked /\ status' = status /\ audit \in Seq(AuditEntry)
  BY EditEntry DEF AuditInv, TypeInv, TypeOK
<1>3. Entries("grade_locked", WholeGrade)' = Entries("grade_locked", WholeGrade)
  BY <1>1, <1>2, OneEntryMore
<1>4. ASSUME NEW r \in Requests PROVE Audited(r)'
  <2>1. Entries("regrade_resolved", r)' = Entries("regrade_resolved", r)
    BY <1>1, <1>2, OneEntryMore
  <2>2. \A n \in Entries("regrade_resolved", r) : audit'[n] = audit[n]
    BY <1>1, <1>2, OneEntryMore DEF Entries
  <2>. QED
    BY <1>2, <2>1, <2>2, KeepAudited, AuditedIsInv DEF AuditInv
<1>. QED
  BY <1>2, <1>3, <1>4, KeepLockEntry DEF AuditInv

LEMMA AuditLockStep ==
  ASSUME AuditInv, NEW c \in Clients, LockGrade(c)
  PROVE  OneLockEntry' /\ \A r \in Requests : Audited(r)'
<1>0. audit \in Seq(AuditEntry) /\ status' = status /\ isLocked' = TRUE
  BY DEF AuditInv, TypeInv, TypeOK, LockGrade, requests
<1>1. CASE isLocked
  BY <1>0, <1>1, AuditUnchangedStep DEF LockGrade
<1>2. CASE ~ isLocked
  <2>. DEFINE e == Log(c, "grade_locked", WholeGrade, NoScore, "")
              E == Entries("grade_locked", WholeGrade)
  <2>1. e \in AuditEntry /\ e.action = "grade_locked" /\ e.of = WholeGrade
    BY LogType DEF Log, AuditInv
  <2>2. audit' = Append(audit, e)
    BY <1>2 DEF LockGrade
  <2>. HIDE DEF e
  <2>3. E = {}
    <3>1. Cardinality(E) = 0
      BY <1>2 DEF AuditInv, OneLockEntry
    <3>. QED
      BY <3>1, EntriesAreFinite, FS_EmptySet DEF AuditInv
  <2>4. E' = {Len(audit) + 1}
    BY <1>0, <2>1, <2>2, <2>3, OneEntryMore
  <2>5. OneLockEntry'
    BY <1>0, <2>4, FS_Singleton DEF OneLockEntry
  <2>6. ASSUME NEW r \in Requests PROVE Audited(r)'
    <3>1. Entries("regrade_resolved", r)' = Entries("regrade_resolved", r)
      BY <1>0, <2>1, <2>2, OneEntryMore
    <3>2. \A n \in Entries("regrade_resolved", r) : audit'[n] = audit[n]
      BY <1>0, <2>1, <2>2, OneEntryMore DEF Entries
    <3>. QED
      BY <1>0, <3>1, <3>2, KeepAudited, AuditedIsInv DEF AuditInv
  <2>. QED
    BY <2>5, <2>6
<1>. QED
  BY <1>1, <1>2

\* The log now tells the outcome just stored.
LEMMA AuditResolveStep ==
  ASSUME AuditInv, NEW c \in Clients, CommitResolution(c)
  PROVE  OneLockEntry' /\ \A r \in Requests : Audited(r)'
<1>1. PICK q \in Requests, o \in Resolutions, e \in AuditEntry, f \in AuditEntry :
        /\ f.action = "regrade_resolved" /\ f.of = q /\ f.outcome = o
        /\ status' = [status EXCEPT ![q] = o]
        /\ \/ audit' = Append(audit, f)
           \/ audit' = audit \o <<e, f>> /\ e.action = "score_override"
  <2>1. /\ session[c].request \in Requests /\ session[c].outcome \in Resolutions
        /\ status' = [status EXCEPT ![session[c].request] = session[c].outcome]
    BY ResolutionEntries DEF AuditInv
  <2>2. PICK e \in AuditEntry, f \in AuditEntry :
          /\ f.action = "regrade_resolved" /\ f.of = session[c].request
          /\ f.outcome = session[c].outcome
          /\ \/ audit' = Append(audit, f)
             \/ audit' = audit \o <<e, f>> /\ e.action = "score_override"
    BY ResolutionEntries DEF AuditInv
  <2>. QED
    BY <2>1, <2>2
<1>2. isLocked' = isLocked /\ audit \in Seq(AuditEntry) /\ Len(audit) \in Nat
  BY ResolutionEntries DEF AuditInv, TypeInv, TypeOK
<1>3. status'[q] = o /\ \A r \in Requests : r # q => status'[r] = status[r]
  BY <1>1 DEF AuditInv, TypeInv, TypeOK
<1>4. PICK last \in {Len(audit) + 1, Len(audit) + 2} :
        /\ audit'[last] = f
        /\ Entries("regrade_resolved", q)' = Entries("regrade_resolved", q) \union {last}
        /\ \A a, of : a # "score_override" /\ (a # "regrade_resolved" \/ of # q) =>
             Entries(a, of)' = Entries(a, of)
        /\ \A n \in DOMAIN audit : audit'[n] = audit[n] /\ n <= Len(audit)
  <2>1. CASE audit' = Append(audit, f)
    <3>1. /\ Entries(f.action, f.of)' = Entries(f.action, f.of) \union {Len(audit) + 1}
          /\ \A a, of : a # f.action \/ of # f.of => Entries(a, of)' = Entries(a, of)
          /\ audit'[Len(audit) + 1] = f
          /\ \A n \in DOMAIN audit : audit'[n] = audit[n] /\ n <= Len(audit)
      BY <1>2, <2>1, OneEntryMore
    <3>2. Entries("regrade_resolved", q)' = Entries("regrade_resolved", q)
                                             \union {Len(audit) + 1}
      BY <1>1, <3>1
    <3>. QED
      BY <1>1, <3>1, <3>2
  <2>2. CASE audit' = audit \o <<e, f>> /\ e.action = "score_override"
    <3>1. /\ Entries(f.action, f.of)' = Entries(f.action, f.of) \union {Len(audit) + 2}
          /\ \A a, of : (a # e.action \/ of # e.of) /\ (a # f.action \/ of # f.of)
                         => Entries(a, of)' = Entries(a, of)
          /\ audit'[Len(audit) + 2] = f
          /\ \A n \in DOMAIN audit : audit'[n] = audit[n] /\ n <= Len(audit)
      BY <1>1, <1>2, <2>2, TwoEntriesMore
    <3>2. Entries("regrade_resolved", q)' = Entries("regrade_resolved", q)
                                             \union {Len(audit) + 2}
      BY <1>1, <3>1
    <3>. QED
      BY <1>1, <2>2, <3>1, <3>2
  <2>. QED
    BY <1>1, <2>1, <2>2
<1>5. OneLockEntry'
  <2>1. Entries("grade_locked", WholeGrade)' = Entries("grade_locked", WholeGrade)
    BY <1>4
  <2>. QED
    BY <1>2, <2>1, KeepLockEntry DEF AuditInv
<1>6. ASSUME NEW r \in Requests, r # q PROVE Audited(r)'
  <2>1. Entries("regrade_resolved", r)' = Entries("regrade_resolved", r)
    BY <1>4, <1>6
  <2>2. \A n \in Entries("regrade_resolved", r) : audit'[n] = audit[n]
    BY <1>4 DEF Entries
  <2>. QED
    BY <1>3, <1>6, <2>1, <2>2, KeepAudited, AuditedIsInv DEF AuditInv
<1>7. ASSUME NEW r \in Requests, r = q PROVE Audited(r)'
  <2>1. last \in Entries("regrade_resolved", r)' /\ audit'[last].outcome = status'[r]
    BY <1>1, <1>3, <1>4, <1>7
  <2>2. status'[r] \in Resolutions
    BY <1>3, <1>7
  <2>. QED
    BY <2>1, <2>2 DEF Audited
<1>8. ASSUME NEW r \in Requests PROVE Audited(r)'
  BY <1>6, <1>7, <1>8
<1>. QED
  BY <1>5, <1>8

LEMMA AuditInit == Init => AuditInv
<1>. SUFFICES ASSUME Init PROVE AuditInv
  OBVIOUS
<1>1. \A a, o : Entries(a, o) = {}
  BY DEF Init, Entries
<1>2. OneLockEntry
  BY <1>1, FS_EmptySet DEF Init, OneLockEntry
<1>3. \A r \in Requests : Audited(r)
  BY <1>1 DEF Init, Audited, Resolutions
<1>. QED
  BY <1>2, <1>3, TypeInit, AuditedIsInv DEF AuditInv

LEMMA AuditStep == AuditInv /\ [Next]_vars => AuditInv'
<1>. SUFFICES ASSUME AuditInv, [Next]_vars PROVE AuditInv'
  OBVIOUS
<1>0. TypeInv'
  BY TypeStep DEF AuditInv
<1>1. OneLockEntry' /\ \A r \in Requests : Audited(r)'
  <2>1. CASE UNCHANGED vars
    BY <2>1, AuditUnchangedStep DEF vars, requests
  <2>2. ASSUME NEW c \in Clients, Begin(c) \/ Serve(c) \/ Abort(c)
        PROVE  OneLockEntry' /\ \A r \in Requests : Audited(r)'
    BY <2>2, AuditCases, AuditUnchangedStep, AuditEditStep, AuditLockStep, AuditResolveStep
       DEF AuditInv
  <2>. QED
    BY <2>1, <2>2 DEF Next
<1>2. (\A r \in Requests : Audited(r)') => ResolutionIsAudited'
  BY DEF ResolutionIsAudited, Audited
<1>. QED
  BY <1>0, <1>1, <1>2 DEF AuditInv

\* Any number of calls may race to lock the grade; the log has one entry.
THEOREM LockIsLoggedOnce == Spec => []OneLockEntry
<1>1. AuditInv => OneLockEntry
  BY DEF AuditInv
<1>. QED
  BY <1>1, AuditInit, AuditStep, PTL DEF Spec

\* However resolutions race, the log tells the outcome that stands of every
\* resolved request and nothing of an open one; which entry of a request that
\* was resolved twice is the newest, it does not say.
THEOREM ResolutionsAreAudited == Spec => []ResolutionIsAudited
<1>1. AuditInv => ResolutionIsAudited
  BY DEF AuditInv
<1>. QED
  BY <1>1, AuditInit, AuditStep, PTL DEF Spec

-----------------------------------------------------------------------------
(* The audit log explains the scores when edits of one criterion do not
   overlap: what a step does to the record of its handler. *)

LEMMA ReadFields ==
  ASSUME TypeInv, NEW c \in Clients,
         ReadCriterion(c) \/ SumScores(c) \/ CountRequests(c) \/ ReadGrade(c)
  PROVE  /\ \A d \in Clients : d # c => session'[d] = session[d]
         /\ session'[c].request = session[c].request
         /\ session'[c].criterion = session[c].criterion
         /\ session'[c].score = session[c].score /\ session'[c].began = session[c].began
         /\ \/ /\ session'[c].teacher = teacherScore[session[c].criterion]
               /\ session'[c].final = finalScore[session[c].criterion]
            \/ session'[c].pc = "insert"
            \/ /\ session[c].pc \in {"grade", "sum"}
               /\ session'[c].teacher = session[c].teacher
               /\ session'[c].final = session[c].final
<1>0. session[c] \in Session /\ session \in [Clients -> Session]
  BY DEF TypeInv, TypeOK
<1>1. CASE ReadCriterion(c)
  <2>. DEFINE label == CASE session[c].request # NoRequest -> "grade"
                         [] session[c].score = NoScore     -> "commit"
                         [] OTHER                          -> "sum"
  <2>1. session' = [session EXCEPT ![c].teacher = teacherScore[session[c].criterion],
                                   ![c].final = finalScore[session[c].criterion],
                                   ![c].pc = label]
    BY <1>1 DEF ReadCriterion
  <2>. HIDE DEF label
  <2>. QED
    BY <1>0, <2>1 DEF Session
<1>2. CASE SumScores(c)
  <2>. DEFINE label == IF session[c].request = NoRequest THEN "commit" ELSE "resolve"
  <2>1. session' = [session EXCEPT ![c].sum = TotalOf(finalScore), ![c].pc = label]
    BY <1>2 DEF SumScores
  <2>. HIDE DEF label
  <2>2. /\ session[c].pc = "sum"
        /\ session'[c] = [session[c] EXCEPT !.sum = TotalOf(finalScore), !.pc = label]
        /\ \A d \in Clients : d # c => session'[d] = session[d]
    BY <1>0, <1>2, <2>1 DEF SumScores
  <2>. QED
    BY <1>0, <2>2 DEF Session
<1>3. CASE CountRequests(c)
  BY <1>0, <1>3 DEF CountRequests, Session
<1>4. CASE ReadGrade(c)
  BY <1>0, <1>4 DEF ReadGrade, Session
<1>. QED
  BY <1>1, <1>2, <1>3, <1>4

LEMMA LockFields ==
  ASSUME TypeInv, NEW c \in Clients, LockGradeRow(c) \/ LockRequestRow(c)
  PROVE  /\ \A d \in Clients : d # c => session'[d] = session[d]
         /\ session'[c].request = session[c].request
         /\ session'[c].criterion = session[c].criterion
         /\ session'[c].score = session[c].score /\ session'[c].began = session[c].began
         /\ \/ session'[c].pc \in {"count", "criterion"}
            \/ session[c].request \in Requests /\ session[c].score = NoScore
<1>0. session[c] \in Session /\ session \in [Clients -> Session] /\ HasArguments(session[c])
  BY DEF TypeInv, TypeOK, ArgumentsAreSet
<1>1. CASE LockGradeRow(c)
  BY <1>0, <1>1 DEF LockGradeRow, GoTo, Session
<1>2. CASE LockRequestRow(c)
  <2>. DEFINE label == IF session[c].score = NoScore THEN "resolve" ELSE "criterion"
  <2>1. session' = [session EXCEPT ![c].pc = label] /\ session[c].request \in Requests
    BY <1>0, <1>2 DEF LockRequestRow, GoTo, HasArguments
  <2>2. label = "criterion" \/ session[c].score = NoScore
    OBVIOUS
  <2>. HIDE DEF label
  <2>. QED
    BY <1>0, <2>1, <2>2 DEF Session
<1>. QED
  BY <1>1, <1>2

LEMMA EndFields ==
  ASSUME TypeInv, NEW c \in Clients,
         \/ CommitOverride(c) \/ CommitFeedback(c) \/ LockGrade(c) \/ InsertRequest(c)
         \/ RefuseOverLimit(c) \/ RefuseLocked(c) \/ CommitResolution(c) \/ Abort(c)
  PROVE  /\ \A d \in Clients : d # c => session'[d] = session[d]
         /\ session'[c].request = NoRequest /\ session'[c].criterion = WholeGrade
         /\ session'[c].pc = "idle"
<1>1. /\ session'[c] = Idle
      /\ \A d \in Clients : d # c => session'[d] = session[d]
  BY CommitTypes, RespondStep
<1>2. Idle.request = NoRequest /\ Idle.criterion = WholeGrade /\ Idle.pc = "idle"
  BY DEF Idle
<1>. QED
  BY <1>1, <1>2

---------------------------------------------------------------------------
(* Who edits what *)

LEMMA EditorsStep ==
  ASSUME ScoreInv, OneEditor, NEW c \in Clients, Begin(c) \/ Serve(c) \/ Abort(c)
  PROVE  EditorsAreAlone' /\ OnlyEditorsName'
<1>0. /\ TypeInv /\ EditorsAreAlone /\ OnlyEditorsName
      /\ NoRequest \notin Requests /\ WholeGrade \notin Criteria
  BY ReviewAssumption DEF ScoreInv
<1>1. /\ \A d \in Clients : d # c => session'[d] = session[d]
      /\ \/ session'[c].criterion = session[c].criterion
         \/ session'[c].criterion = WholeGrade
         \/ /\ EditsAlone(c, session'[c].criterion)
            /\ session'[c].began = session[c].began
      /\ session'[c].request \in Requests /\ session'[c].score = NoScore
           => session'[c].criterion = WholeGrade
  <2>1. CASE NewCall(c)
    <3>1. PICK s \in Session :
            /\ HasArguments(s) /\ session' = [session EXCEPT ![c] = s]
            /\ s.criterion \in Criteria /\ OneEditor =>
                 EditsAlone(c, s.criterion) /\ s.began = session[c].began
            /\ s.request \in Requests /\ s.score = NoScore => s.criterion = WholeGrade
            /\ RowsKept /\ callsLeft' \in 0..MaxCalls
      BY <1>0, <2>1, NewCallStep
    <3>2. session'[c] = s /\ \A d \in Clients : d # c => session'[d] = session[d]
      BY <1>0, <3>1, CallStep
    <3>3. s.criterion \in Criteria \union {WholeGrade}
      BY DEF Session
    <3>. QED
      BY <3>1, <3>2, <3>3
  <2>2. CASE ReadCriterion(c) \/ SumScores(c) \/ CountRequests(c) \/ ReadGrade(c)
    BY <1>0, <2>2, ReadFields DEF OnlyEditorsName
  <2>3. CASE LockGradeRow(c) \/ LockRequestRow(c)
    BY <1>0, <2>3, LockFields DEF OnlyEditorsName
  <2>4. CASE \/ CommitOverride(c) \/ CommitFeedback(c) \/ LockGrade(c) \/ InsertRequest(c)
             \/ RefuseOverLimit(c) \/ RefuseLocked(c) \/ CommitResolution(c) \/ Abort(c)
    BY <1>0, <2>4, EndFields
  <2>. QED
    BY <2>1, <2>2, <2>3, <2>4, StepCases
<1>2. EditorsAreAlone'
  BY <1>0, <1>1 DEF EditorsAreAlone, EditsAlone, EditedCriteria
<1>3. OnlyEditorsName'
  BY <1>0, <1>1 DEF OnlyEditorsName
<1>. QED
  BY <1>2, <1>3

\* Only a commit of the criterion itself adds an override entry of it.
LEMMA OverrideEntriesKept ==
  ASSUME TypeInv, NEW c \in Clients, Begin(c) \/ Serve(c) \/ Abort(c), NEW k \in Criteria,
         CommitOverride(c) \/ CommitResolution(c) => session[c].criterion # k
  PROVE  /\ Entries("score_override", k)' = Entries("score_override", k)
         /\ \A n \in Entries("score_override", k) : audit'[n] = audit[n]
<1>0. audit \in Seq(AuditEntry)
  BY DEF TypeInv, TypeOK
<1>1. ASSUME NEW e \in AuditEntry, audit' = Append(audit, e),
             e.action # "score_override" \/ e.of # k
      PROVE  /\ Entries("score_override", k)' = Entries("score_override", k)
             /\ \A n \in Entries("score_override", k) : audit'[n] = audit[n]
  BY <1>0, <1>1, OneEntryMore DEF Entries
<1>2. CASE audit' = audit
  BY <1>2 DEF Entries
<1>3. CASE CommitOverride(c)
  <2>. DEFINE score == IF session[c].score = NoScore THEN session[c].final ELSE session[c].score
              e == Log(c, "score_override", session[c].criterion, score, "")
  <2>1. session[c] \in Session /\ session[c].criterion \in Criteria
    BY <1>3 DEF CommitOverride, HasArguments, TypeInv, TypeOK, ArgumentsAreSet
  <2>2. score \in Scores \union {NoScore}
    BY <2>1 DEF Session
  <2>3. audit' = Append(audit, e)
    BY <1>3 DEF CommitOverride
  <2>. HIDE DEF score
  <2>4. e \in AuditEntry /\ e.of = session[c].criterion
    BY <2>1, <2>2, LogType DEF Log
  <2>. HIDE DEF e
  <2>. QED
    BY <1>1, <1>3, <2>3, <2>4
<1>4. CASE CommitFeedback(c)
  <2>. DEFINE e == Log(c, "feedback_edited", WholeGrade, NoScore, "")
  <2>1. e \in AuditEntry /\ e.action = "feedback_edited" /\ audit' = Append(audit, e)
    BY <1>4, LogType DEF Log, CommitFeedback
  <2>. HIDE DEF e
  <2>. QED
    BY <1>1, <2>1
<1>5. CASE LockGrade(c) /\ audit' # audit
  <2>. DEFINE e == Log(c, "grade_locked", WholeGrade, NoScore, "")
  <2>1. e \in AuditEntry /\ e.action = "grade_locked" /\ audit' = Append(audit, e)
    BY <1>5, LogType DEF Log, LockGrade
  <2>. HIDE DEF e
  <2>. QED
    BY <1>1, <2>1
<1>6. CASE CommitResolution(c)
  <2>1. PICK e \in AuditEntry, f \in AuditEntry :
          /\ f.action = "regrade_resolved"
          /\ IF session[c].score = NoScore
             THEN audit' = Append(audit, f)
             ELSE /\ audit' = audit \o <<e, f>>
                  /\ e.action = "score_override" /\ e.of = session[c].criterion
    BY <1>6, ResolutionEntries
  <2>2. CASE session[c].score = NoScore
    BY <1>1, <2>1, <2>2
  <2>3. CASE session[c].score # NoScore
    <3>1. /\ \A a, o : (a # e.action \/ o # e.of) /\ (a # f.action \/ o # f.of)
                         => Entries(a, o)' = Entries(a, o)
          /\ \A n \in DOMAIN audit : audit'[n] = audit[n]
      BY <1>0, <2>1, <2>3, TwoEntriesMore
    <3>. QED
      BY <1>6, <2>1, <2>3, <3>1 DEF Entries
  <2>. QED
    BY <2>2, <2>3
<1>. QED
  BY <1>2, <1>3, <1>4, <1>5, <1>6, AuditCases

\* Every editor still began after the entries of its criterion.
LEMMA NewestStep ==
  ASSUME ScoreInv, OneEditor, NEW c \in Clients, Begin(c) \/ Serve(c) \/ Abort(c)
  PROVE  EditorsAreNewest'
<1>0. /\ TypeInv /\ EditorsAreAlone /\ EditorsAreNewest /\ WholeGrade \notin Criteria
  BY ReviewAssumption DEF ScoreInv
<1>. SUFFICES ASSUME NEW d \in Clients, NEW k \in Criteria, session'[d].criterion = k,
                     NEW n \in Entries("score_override", k)'
              PROVE  audit'[n].at < session'[d].began
  BY Zenon DEF EditorsAreNewest, Entries
<1>1. CASE \/ CommitOverride(c) \/ CommitFeedback(c) \/ LockGrade(c) \/ InsertRequest(c)
           \/ RefuseOverLimit(c) \/ RefuseLocked(c) \/ CommitResolution(c) \/ Abort(c)
  <2>1. d # c /\ session'[d] = session[d]
    BY <1>0, <1>1, EndFields
  <2>2. session[c].criterion # k
    BY <1>0, <2>1 DEF EditorsAreAlone
  <2>3. n \in Entries("score_override", k) /\ audit'[n] = audit[n]
    BY <1>0, <2>2, OverrideEntriesKept
  <2>. QED
    BY <1>0, <2>1, <2>3 DEF EditorsAreNewest
<1>2. CASE \/ NewCall(c)
           \/ ReadCriterion(c) \/ SumScores(c) \/ CountRequests(c) \/ ReadGrade(c)
           \/ LockGradeRow(c) \/ LockRequestRow(c)
  <2>1. audit' = audit
    BY <1>2 DEF NewCall, Begin, StartOverride, StartFeedback, StartLock, StartSubmit,
       StartResolve, ReadCriterion, SumScores, CountRequests, ReadGrade, LockGradeRow,
       LockRequestRow
  <2>2. n \in Entries("score_override", k) /\ audit'[n] = audit[n]
    BY <2>1 DEF Entries
  <2>3. /\ \A x \in Clients : x # c => session'[x] = session[x]
        /\ session'[c].criterion \in Criteria =>
             /\ session'[c].began = session[c].began
             /\ \/ session'[c].criterion = session[c].criterion
                \/ EditsAlone(c, session'[c].criterion)
    <3>1. CASE NewCall(c)
      <4>1. PICK s \in Session :
              /\ HasArguments(s) /\ session' = [session EXCEPT ![c] = s]
              /\ s.criterion \in Criteria /\ OneEditor =>
                   EditsAlone(c, s.criterion) /\ s.began = session[c].began
              /\ RowsKept /\ callsLeft' \in 0..MaxCalls
        BY <1>0, <3>1, NewCallStep
      <4>2. session'[c] = s /\ \A x \in Clients : x # c => session'[x] = session[x]
        BY <1>0, <4>1, CallStep
      <4>. QED
        BY <4>1, <4>2
    <3>2. CASE ReadCriterion(c) \/ SumScores(c) \/ CountRequests(c) \/ ReadGrade(c)
      BY <1>0, <3>2, ReadFields
    <3>3. CASE LockGradeRow(c) \/ LockRequestRow(c)
      BY <1>0, <3>3, LockFields
    <3>. QED
      BY <1>2, <3>1, <3>2, <3>3
  <2>. QED
    BY <1>0, <2>2, <2>3 DEF EditorsAreNewest, EditsAlone
<1>. QED
  BY <1>1, <1>2, StepCases

---------------------------------------------------------------------------
(* What a commit stores *)

\* The columns read earlier are still current, so the UPDATE leaves the new
\* score in both, named in it or not.
LEMMA ScoreEffect ==
  ASSUME ScoreInv, NEW c \in Clients, CommitOverride(c) \/ CommitResolution(c)
  PROVE  /\ aiScore' = aiScore
         /\ \/ /\ session[c].score = NoScore
               /\ teacherScore' = teacherScore /\ finalScore' = finalScore
            \/ /\ session[c].score \in Scores /\ session[c].criterion \in Criteria
               /\ teacherScore' = [teacherScore EXCEPT ![session[c].criterion] = session[c].score]
               /\ finalScore' = [finalScore EXCEPT ![session[c].criterion] = session[c].score]
<1>0. /\ session[c] \in Session /\ HasArguments(session[c])
      /\ teacherScore \in [Criteria -> Scores \union {NoScore}]
      /\ finalScore \in [Criteria -> Scores]
  BY DEF ScoreInv, TypeInv, TypeOK, ArgumentsAreSet
<1>1. aiScore' = aiScore
  BY DEF CommitOverride, CommitResolution
<1>2. CASE session[c].score = NoScore
  BY <1>1, <1>2 DEF CommitOverride, CommitResolution, scores
<1>3. CASE session[c].score # NoScore
  <2>1. StoreScore(c)
    BY <1>3 DEF CommitOverride, CommitResolution
  <2>2. session[c].score \in Scores /\ session[c].criterion \in Criteria
    BY <1>0, <1>3 DEF HasArguments, Session
  <2>3. /\ session[c].teacher = teacherScore[session[c].criterion]
        /\ session[c].final = finalScore[session[c].criterion]
    BY <2>2 DEF ScoreInv, ReadsAreCurrent, CommitOverride, CommitResolution
  <2>. QED
    BY <1>0, <1>1, <2>1, <2>2, <2>3 DEF StoreScore, Flush
<1>. QED
  BY <1>2, <1>3

\* The steps that store no score.
LEMMA ScoresKept ==
  ASSUME NEW c \in Clients, Begin(c) \/ Serve(c) \/ Abort(c),
         ~ CommitOverride(c), ~ CommitResolution(c)
  PROVE  aiScore' = aiScore /\ teacherScore' = teacherScore /\ finalScore' = finalScore
<1>1. CASE NewCall(c)
  BY <1>1 DEF NewCall, Begin, StartOverride, StartFeedback, StartLock, StartSubmit,
     StartResolve, scores
<1>2. CASE \/ ReadCriterion(c) \/ SumScores(c) \/ CountRequests(c) \/ ReadGrade(c)
           \/ LockGradeRow(c) \/ LockRequestRow(c)
  BY <1>2 DEF ReadCriterion, SumScores, CountRequests, ReadGrade, LockGradeRow, LockRequestRow,
     scores
<1>3. CASE \/ CommitFeedback(c) \/ LockGrade(c) \/ InsertRequest(c)
           \/ RefuseOverLimit(c) \/ RefuseLocked(c) \/ Abort(c)
  BY <1>3 DEF CommitFeedback, LockGrade, InsertRequest, RefuseOverLimit, RefuseLocked, Abort,
     scores
<1>. QED
  BY <1>1, <1>2, <1>3, StepCases

LEMMA ReadsStep ==
  ASSUME ScoreInv, NEW c \in Clients, Begin(c) \/ Serve(c) \/ Abort(c)
  PROVE  ReadsAreCurrent'
<1>0. /\ TypeInv /\ EditorsAreAlone /\ OnlyEditorsName /\ ReadsAreCurrent
      /\ NoRequest \notin Requests /\ WholeGrade \notin Criteria
  BY ReviewAssumption DEF ScoreInv
<1>1. CASE NewCall(c)
  <2>1. PICK s \in Session :
          /\ HasArguments(s) /\ session' = [session EXCEPT ![c] = s]
          /\ s.pc \in {"begun", "criterion", "feedback", "lock", "waitGrade", "waitRequest"}
          /\ RowsKept /\ callsLeft' \in 0..MaxCalls
    BY <1>0, <1>1, NewCallStep
  <2>2. session'[c] = s /\ \A d \in Clients : d # c => session'[d] = session[d]
    BY <1>0, <2>1, CallStep
  <2>3. teacherScore' = teacherScore /\ finalScore' = finalScore
    BY <2>1 DEF RowsKept, scores
  <2>. QED
    BY <1>0, <2>1, <2>2, <2>3 DEF ReadsAreCurrent
<1>2. CASE ReadCriterion(c) \/ SumScores(c) \/ CountRequests(c) \/ ReadGrade(c)
  <2>1. teacherScore' = teacherScore /\ finalScore' = finalScore
    BY <1>2 DEF ReadCriterion, SumScores, CountRequests, ReadGrade, scores
  <2>. QED
    BY <1>0, <1>2, <2>1, ReadFields DEF ReadsAreCurrent
<1>3. CASE LockGradeRow(c) \/ LockRequestRow(c)
  <2>1. teacherScore' = teacherScore /\ finalScore' = finalScore
    BY <1>3 DEF LockGradeRow, LockRequestRow, scores
  <2>. QED
    BY <1>0, <1>3, <2>1, LockFields DEF ReadsAreCurrent, OnlyEditorsName
<1>4. CASE CommitOverride(c) \/ CommitResolution(c)
  <2>1. /\ session'[c].criterion = WholeGrade
        /\ \A d \in Clients : d # c => session'[d] = session[d]
    BY <1>0, <1>4, EndFields
  <2>2. \A k \in Criteria : k # session[c].criterion =>
          teacherScore'[k] = teacherScore[k] /\ finalScore'[k] = finalScore[k]
    BY <1>0, <1>4, ScoreEffect DEF TypeInv, TypeOK
  <2>3. \A d \in Clients : d # c /\ session[d].criterion \in Criteria =>
          session[d].criterion # session[c].criterion
    BY <1>0 DEF EditorsAreAlone
  <2>. QED
    BY <1>0, <2>1, <2>2, <2>3 DEF ReadsAreCurrent
<1>5. CASE \/ CommitFeedback(c) \/ LockGrade(c) \/ InsertRequest(c)
           \/ RefuseOverLimit(c) \/ RefuseLocked(c) \/ Abort(c)
  <2>1. teacherScore' = teacherScore /\ finalScore' = finalScore
    BY <1>5 DEF CommitFeedback, LockGrade, InsertRequest, RefuseOverLimit, RefuseLocked,
       Abort, scores
  <2>. QED
    BY <1>0, <1>5, <2>1, EndFields DEF ReadsAreCurrent
<1>. QED
  BY <1>1, <1>2, <1>3, <1>4, <1>5, StepCases

---------------------------------------------------------------------------
(* Scores and entries *)

\* The statements about one criterion.
Explained(k) ==
  /\ finalScore[k] = IF teacherScore[k] = NoScore THEN aiScore[k] ELSE teacherScore[k]
  /\ Entries("score_override", k) = {} => finalScore[k] = aiScore[k]
  /\ \A n \in Entries("score_override", k) : IsLast(n) => audit[n].score = finalScore[k]

LEMMA LastOverride ==
  ASSUME NEW k, NEW n \in Entries("score_override", k)
  PROVE  IsLast(n) <=> \A m \in Entries("score_override", k) : audit[m].at <= audit[n].at
BY DEF IsLast, Entries

LEMMA KeepExplained ==
  ASSUME NEW k \in Criteria, Explained(k), aiScore' = aiScore,
         teacherScore'[k] = teacherScore[k], finalScore'[k] = finalScore[k],
         Entries("score_override", k)' = Entries("score_override", k),
         \A n \in Entries("score_override", k) : audit'[n] = audit[n]
  PROVE  Explained(k)'
<1>1. \A n \in Entries("score_override", k) :
        IsLast(n) <=> \A m \in Entries("score_override", k) : audit[m].at <= audit[n].at
  BY LastOverride
<1>2. \A n \in Entries("score_override", k)' :
        IsLast(n)' <=> \A m \in Entries("score_override", k)' : audit'[m].at <= audit'[n].at
  BY DEF IsLast, Entries
<1>. QED
  BY <1>1, <1>2 DEF Explained

\* A new entry, with a stamp later than the others, that tells the score the
\* step leaves behind.
LEMMA NewlyExplained ==
  ASSUME TypeInv, NEW k \in Criteria, NEW last \in Nat, audit'[last].at \in Nat,
         Entries("score_override", k)' = Entries("score_override", k) \union {last},
         \A n \in Entries("score_override", k) :
           audit'[n] = audit[n] /\ audit[n].at < audit'[last].at,
         audit'[last].score = finalScore'[k],
         finalScore'[k] = IF teacherScore'[k] = NoScore THEN aiScore'[k] ELSE teacherScore'[k]
  PROVE  Explained(k)'
<1>. DEFINE E == Entries("score_override", k)
<1>1. \A n \in E : audit'[n].at \in Nat /\ audit'[n].at < audit'[last].at
  <2>1. \A n \in DOMAIN audit : audit[n].at \in Nat
    <3>1. \A n \in DOMAIN audit : audit[n] \in AuditEntry
      BY DEF TypeInv, TypeOK
    <3>. QED
      BY <3>1, ZeroTypes DEF AuditEntry
  <2>. QED
    BY <2>1 DEF Entries
<1>2. \A n \in E' : IsLast(n)' => \A m \in E' : audit'[m].at <= audit'[n].at
  BY DEF IsLast, Entries
<1>. HIDE DEF E
<1>4. E' = E \union {last}
  BY DEF E
<1>5. ASSUME NEW n \in E', IsLast(n)' PROVE n = last
  <2>1. audit'[last].at <= audit'[n].at
    BY <1>2, <1>4, <1>5
  <2>. QED
    BY <1>1, <1>4, <1>5, <2>1
<1>6. E' # {} /\ \A n \in E' : IsLast(n)' => audit'[n].score = finalScore'[k]
  BY <1>4, <1>5
<1>. QED
  BY <1>6 DEF Explained, E

LEMMA ExplainedIsInv == ScoresAreAudited <=> \A k \in Criteria : Explained(k)
BY DEF ScoresAreAudited, Explained

LEMMA ExplainOther ==
  ASSUME ScoreInv, NEW c \in Clients, Begin(c) \/ Serve(c) \/ Abort(c),
         ~ CommitOverride(c), ~ CommitResolution(c), NEW k \in Criteria
  PROVE  Explained(k)'
<1>0. /\ TypeInv /\ Explained(k) /\ audit \in Seq(AuditEntry)
  BY ExplainedIsInv DEF ScoreInv, TypeInv, TypeOK
<1>1. aiScore' = aiScore /\ teacherScore' = teacherScore /\ finalScore' = finalScore
  BY ScoresKept
<1>2. /\ Entries("score_override", k)' = Entries("score_override", k)
      /\ \A n \in Entries("score_override", k) : audit'[n] = audit[n]
  BY <1>0, OverrideEntriesKept
<1>. QED
  BY <1>0, <1>1, <1>2, KeepExplained

\* The scores after a commit that may store one.
LEMMA ScoresAfter ==
  ASSUME ScoreInv, NEW c \in Clients, CommitOverride(c) \/ CommitResolution(c),
         NEW k \in Criteria
  PROVE  /\ aiScore' = aiScore
         /\ finalScore'[k] = IF teacherScore'[k] = NoScore THEN aiScore'[k] ELSE teacherScore'[k]
         /\ k # session[c].criterion \/ session[c].score = NoScore =>
              teacherScore'[k] = teacherScore[k] /\ finalScore'[k] = finalScore[k]
         /\ k = session[c].criterion /\ session[c].score # NoScore =>
              finalScore'[k] = session[c].score
<1>1. /\ teacherScore \in [Criteria -> Scores \union {NoScore}]
      /\ finalScore \in [Criteria -> Scores]
  BY DEF ScoreInv, TypeInv, TypeOK
<1>2. finalScore[k] = IF teacherScore[k] = NoScore THEN aiScore[k] ELSE teacherScore[k]
  BY DEF ScoreInv, ScoresAreAudited
<1>. QED
  BY <1>1, <1>2, ScoreEffect, ReviewAssumption

LEMMA ExplainOverride ==
  ASSUME ScoreInv, NEW c \in Clients, CommitOverride(c), NEW k \in Criteria
  PROVE  Explained(k)'
<1>0. /\ TypeInv /\ Explained(k) /\ audit \in Seq(AuditEntry) /\ Len(audit) \in Nat
      /\ session[c] \in Session /\ HasArguments(session[c])
  BY ExplainedIsInv DEF ScoreInv, TypeInv, TypeOK, ArgumentsAreSet
<1>1. /\ session[c].criterion \in Criteria
      /\ session[c].final = finalScore[session[c].criterion]
  BY <1>0 DEF CommitOverride, HasArguments, ScoreInv, ReadsAreCurrent
<1>2. PICK v \in Scores \union {NoScore} :
        /\ v = IF session[c].score = NoScore THEN session[c].final ELSE session[c].score
        /\ audit' = Append(audit, Log(c, "score_override", session[c].criterion, v, ""))
  BY <1>0 DEF CommitOverride, Session
<1>3. PICK e \in AuditEntry :
        /\ audit' = Append(audit, e)
        /\ e.action = "score_override" /\ e.of = session[c].criterion /\ e.score = v
        /\ e.at = session[c].began
  <2>. DEFINE e == Log(c, "score_override", session[c].criterion, v, "")
  <2>1. e \in AuditEntry /\ e.action = "score_override" /\ e.of = session[c].criterion
        /\ e.score = v /\ e.at = session[c].began
    BY <1>0, <1>1, LogType DEF Log
  <2>. QED
    BY <1>2, <2>1
<1>4. CASE e.of = k
  <2>1. v = finalScore'[k]
    BY <1>1, <1>2, <1>3, <1>4, ScoresAfter
  <2>2. /\ Entries(e.action, e.of)' = Entries(e.action, e.of) \union {Len(audit) + 1}
        /\ audit'[Len(audit) + 1] = e
        /\ \A n \in DOMAIN audit : audit'[n] = audit[n]
    BY <1>0, <1>3, OneEntryMore
  <2>3. PICK last \in Nat : last = Len(audit) + 1
    BY <1>0
  <2>4. Entries("score_override", k)' = Entries("score_override", k) \union {last}
    BY <1>3, <1>4, <2>2, <2>3
  <2>5. /\ audit'[last].score = finalScore'[k]
        /\ audit'[last].at = session[c].began /\ session[c].began \in Nat
    BY <1>0, <1>3, <2>1, <2>2, <2>3, ZeroTypes DEF Session
  <2>6. \A n \in Entries("score_override", k) :
          audit'[n] = audit[n] /\ audit[n].at < audit'[last].at
    BY <1>1, <1>3, <1>4, <2>2, <2>5 DEF ScoreInv, EditorsAreNewest, Entries
  <2>. QED
    BY <1>0, <2>4, <2>5, <2>6, ScoresAfter, NewlyExplained
<1>5. CASE e.of # k
  <2>1. /\ Entries("score_override", k)' = Entries("score_override", k)
        /\ \A n \in Entries("score_override", k) : audit'[n] = audit[n]
    BY <1>0, <1>3, <1>5, OneEntryMore DEF Entries
  <2>. QED
    BY <1>0, <1>3, <1>5, <2>1, ScoresAfter, KeepExplained
<1>. QED
  BY <1>4, <1>5

LEMMA ExplainResolution ==
  ASSUME ScoreInv, NEW c \in Clients, CommitResolution(c), NEW k \in Criteria
  PROVE  Explained(k)'
<1>0. /\ TypeInv /\ Explained(k) /\ audit \in Seq(AuditEntry) /\ Len(audit) \in Nat
      /\ session[c] \in Session
  BY ExplainedIsInv DEF ScoreInv, TypeInv, TypeOK
<1>1. PICK e \in AuditEntry, f \in AuditEntry :
        /\ f.action = "regrade_resolved"
        /\ IF session[c].score = NoScore
           THEN audit' = Append(audit, f)
           ELSE /\ audit' = audit \o <<e, f>>
                /\ e.action = "score_override" /\ e.of = session[c].criterion
                /\ e.score = session[c].score /\ e.at = session[c].began
  BY <1>0, ResolutionEntries
<1>2. CASE session[c].score = NoScore
  <2>1. /\ Entries("score_override", k)' = Entries("score_override", k)
        /\ \A n \in Entries("score_override", k) : audit'[n] = audit[n]
    BY <1>0, <1>1, <1>2, OneEntryMore DEF Entries
  <2>. QED
    BY <1>0, <1>2, <2>1, ScoresAfter, KeepExplained
<1>3. CASE session[c].score # NoScore
  <2>1. /\ Entries(e.action, e.of)' = Entries(e.action, e.of) \union {Len(audit) + 1}
        /\ \A a, o : (a # e.action \/ o # e.of) /\ (a # f.action \/ o # f.of)
                       => Entries(a, o)' = Entries(a, o)
        /\ audit'[Len(audit) + 1] = e
        /\ \A n \in DOMAIN audit : audit'[n] = audit[n]
    BY <1>0, <1>1, <1>3, TwoEntriesMore
  <2>2. CASE e.of = k
    <3>1. e.score = finalScore'[k]
      BY <1>1, <1>3, <2>2, ScoresAfter
    <3>2. PICK last \in Nat : last = Len(audit) + 1
      BY <1>0
    <3>3. Entries("score_override", k)' = Entries("score_override", k) \union {last}
      BY <1>1, <1>3, <2>1, <2>2, <3>2
    <3>4. /\ audit'[last].score = finalScore'[k]
          /\ audit'[last].at = session[c].began /\ session[c].began \in Nat
      BY <1>0, <1>1, <1>3, <2>1, <3>1, <3>2, ZeroTypes DEF Session
    <3>5. \A n \in Entries("score_override", k) :
            audit'[n] = audit[n] /\ audit[n].at < audit'[last].at
      BY <1>1, <1>3, <2>1, <2>2, <3>4 DEF ScoreInv, EditorsAreNewest, Entries
    <3>. QED
      BY <1>0, <3>3, <3>4, <3>5, ScoresAfter, NewlyExplained
  <2>3. CASE e.of # k
    <3>1. /\ Entries("score_override", k)' = Entries("score_override", k)
          /\ \A n \in Entries("score_override", k) : audit'[n] = audit[n]
      BY <1>1, <1>3, <2>1, <2>3 DEF Entries
    <3>. QED
      BY <1>0, <1>1, <1>3, <2>3, <3>1, ScoresAfter, KeepExplained
  <2>. QED
    BY <2>2, <2>3
<1>. QED
  BY <1>2, <1>3

---------------------------------------------------------------------------
(* The invariant *)

LEMMA ScoreInit == Init => ScoreInv
<1>. SUFFICES ASSUME Init PROVE ScoreInv
  OBVIOUS
<1>1. Idle.pc = "idle" /\ Idle.criterion \notin Criteria /\ Idle.request \notin Requests
  BY ReviewAssumption DEF Idle
<1>2. \A a, o : Entries(a, o) = {}
  BY DEF Init, Entries
<1>3. \A k \in Criteria : Explained(k)
  BY <1>2 DEF Init, Explained
<1>4. EditorsAreAlone /\ EditorsAreNewest /\ OnlyEditorsName /\ ReadsAreCurrent
  BY <1>1 DEF Init, EditorsAreAlone, EditorsAreNewest, OnlyEditorsName, ReadsAreCurrent
<1>. QED
  BY <1>3, <1>4, TypeInit, ExplainedIsInv DEF ScoreInv

LEMMA ScoreUnchanged ==
  ASSUME ScoreInv, UNCHANGED vars
  PROVE  ScoreInv'
<1>1. TypeInv'
  BY TypeStep DEF ScoreInv
<1>2. EditorsAreAlone' /\ EditorsAreNewest' /\ OnlyEditorsName' /\ ReadsAreCurrent'
  BY DEF ScoreInv, EditorsAreAlone, EditorsAreNewest, OnlyEditorsName, ReadsAreCurrent,
     Entries, vars, scores
<1>3. ScoresAreAudited'
  BY DEF ScoreInv, ScoresAreAudited, Entries, IsLast, vars, scores
<1>. QED
  BY <1>1, <1>2, <1>3 DEF ScoreInv

LEMMA ScoreStep ==
  ASSUME OneEditor
  PROVE  ScoreInv /\ [Next]_vars => ScoreInv'
<1>. SUFFICES ASSUME ScoreInv, [Next]_vars PROVE ScoreInv'
  OBVIOUS
<1>1. ASSUME NEW c \in Clients, Begin(c) \/ Serve(c) \/ Abort(c) PROVE ScoreInv'
  <2>1. TypeInv'
    BY TypeStep DEF ScoreInv
  <2>2. ASSUME NEW k \in Criteria PROVE Explained(k)'
    BY <1>1, ExplainOther, ExplainOverride, ExplainResolution
  <2>3. ScoresAreAudited'
    BY <2>2 DEF ScoresAreAudited, Explained
  <2>. QED
    BY <1>1, <2>1, <2>3, EditorsStep, NewestStep, ReadsStep DEF ScoreInv
<1>. QED
  BY <1>1, ScoreUnchanged DEF Next

\* If edits of one criterion begin one after the other, the newest entry of a criterion
\* tells its final score, which is the teacher's score or else the AI's,
\* whatever else runs at the same time.
THEOREM ScoresAreExplained ==
  ASSUME OneEditor
  PROVE  Spec => []ScoresAreAudited
<1>1. ScoreInv => ScoresAreAudited
  BY DEF ScoreInv
<1>2. ScoreInv /\ [Next]_vars => ScoreInv'
  BY ScoreStep
<1>. QED
  BY <1>1, <1>2, ScoreInit, PTL DEF Spec
=============================================================================
