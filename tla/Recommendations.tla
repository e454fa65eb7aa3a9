--------------------------- MODULE Recommendations ---------------------------
(***************************************************************************)
(* The lock pipeline with the two kinds of advice that hang on it:         *)
(* interventions, raised by a daily scan of the profiles, and instruction  *)
(* recommendations, generated by an LLM for a group or from a worklist     *)
(* item. The teacher decides on both; decisions go to the audit log.       *)
(***************************************************************************)
EXTENDS ClassPipeline

VARIABLES
  interventions,   \* signal -> its intervention_recommendations, oldest first
  recommendations  \* instruction_recommendations, oldest first

advice == <<interventions, recommendations>>
allVars == <<vars, advice>>

---------------------------------------------------------------------------

Advice == Students \X {"regression", "persistent_gap", "non_responder"}

\* log: the actions of the audit_logs entries about the row, oldest first.
Intervention == [status : {"pending_review", "approved", "dismissed"},
                 log    : Seq({"created", "approved", "dismissed"})]

\* for is the group the row belongs to, item its worklist item; present is
\* false once the row is gone, whose audit entries stay.
Recommendation == [for     : GroupRow \union {NoGroup},
                   item    : Item \union {NoItem},
                   status  : {"pending_review", "accepted", "dismissed"},
                   present : BOOLEAN,
                   log     : Seq({"accepted", "dismissed"})]

IsPending(row) == row.status = "pending_review"

AdviceInit ==
  /\ Init
  /\ interventions = [a \in Advice |-> <<>>]
  /\ recommendations = <<>>

---------------------------------------------------------------------------
(* The scan *)

\* Celery beat sends the daily scan.
Beat ==
  /\ left.scans > 0
  /\ left' = [left EXCEPT !.scans = @ - 1]
  /\ queue' = Append(queue, [task |-> "scan", student |-> NoStudent])
  /\ UNCHANGED <<locked, profile, group, items, runs, worker, call, mode, advice>>

StartScan(w) ==
  /\ Take(w, "scan", [IdleWorker EXCEPT !.pc = "pending", !.profiles = profile])
  /\ UNCHANGED advice

HasPending(a) == \E n \in DOMAIN interventions[a] : IsPending(interventions[a][n])

\* The signals of every profile, less those with a pending row.
ReadPending(w) ==
  /\ worker[w].pc = "pending"
  /\ Proceed(w, [IdleWorker EXCEPT !.pc = "propose", !.message = worker[w].message,
       !.computed = {a \in Advice : /\ worker[w].profiles[a[1]] # <<>>
                                    /\ a[2] \in Interventions(worker[w].profiles[a[1]])
                                    /\ ~ HasPending(a)}])
  /\ UNCHANGED <<profile, group, items, runs, advice>>

\* Mutant: without the partial unique index.
ProposeUnchecked(w) ==
  /\ worker[w].pc = "propose"
  /\ interventions' =
       [a \in Advice |-> IF a \in worker[w].computed
                         THEN Append(interventions[a], [status |-> "pending_review",
                                                        log    |-> <<"created">>])
                         ELSE interventions[a]]
  /\ Proceed(w, IdleWorker)
  /\ UNCHANGED <<profile, group, items, runs, recommendations>>

\* A row another scan has inserted meanwhile fails on the partial unique index
\* and is skipped, by rolling its savepoint back.
Propose(w) ==
  /\ worker[w].pc = "propose"
  /\ interventions' =
       [a \in Advice |-> IF a \in worker[w].computed /\ ~ HasPending(a)
                         THEN Append(interventions[a], [status |-> "pending_review",
                                                        log    |-> <<"created">>])
                         ELSE interventions[a]]
  /\ Proceed(w, IdleWorker)
  /\ UNCHANGED <<profile, group, items, runs, recommendations>>

---------------------------------------------------------------------------
(* Foreign keys into the rows the pipeline replaces *)

\* Recommendations of a group go with its row (ON DELETE CASCADE).
ReplaceGroupsAndAdvice(w) ==
  /\ ReplaceGroups(w)
  /\ recommendations' =
       [n \in DOMAIN recommendations |->
          IF group # NoGroup /\ recommendations[n].for # NoGroup
             /\ recommendations[n].for.id = group.id
          THEN [recommendations[n] EXCEPT !.present = FALSE]
          ELSE recommendations[n]]
  /\ UNCHANGED interventions

\* Those made from a worklist item lose the reference (ON DELETE SET NULL).
InsertItemsAndDetach(w) ==
  /\ InsertItems(w)
  /\ recommendations' =
       [n \in DOMAIN recommendations |->
          IF recommendations[n].item \in worker[w].deleting
          THEN [recommendations[n] EXCEPT !.item = NoItem]
          ELSE recommendations[n]]
  /\ UNCHANGED interventions

---------------------------------------------------------------------------
(* Generating a recommendation *)

StartGroupAdvice(c) ==
  /\ group # NoGroup
  /\ StartCall(c, "advice",
       [IdleCall EXCEPT !.op = "generate", !.pc = "generate", !.row = group])
  /\ UNCHANGED advice

\* The item must exist and the student must have a profile.
StartStudentAdvice(c, item) ==
  /\ profile[item.signal[1]] # <<>>
  /\ StartCall(c, "advice",
       [IdleCall EXCEPT !.op = "generate", !.pc = "generate", !.item = item])
  /\ UNCHANGED advice

Unchanged(c) == UNCHANGED <<locked, profile, group, items, runs, queue, worker, left, mode>>

\* After the LLM call the row is inserted, if what it refers to still exists;
\* the LLM may also fail.
InsertAdvice(c) ==
  LET row  == call[c].row
      item == call[c].item
      referenced == /\ row # NoGroup => group # NoGroup /\ group.id = row.id
                    /\ item # NoItem => Now(item) # {}
  IN /\ call[c].pc = "generate"
     /\ \A w \in Workers : \A i \in worker[w].deleting : item # NoItem => ~ SameItem(i, item)
     /\ \/ /\ referenced
           /\ recommendations' =
                Append(recommendations, [for |-> row, item |-> item, present |-> TRUE,
                                         status |-> "pending_review", log |-> <<>>])
           /\ Answer(c, "ok")
        \/ /\ UNCHANGED recommendations
           /\ Answer(c, "error")
     /\ Unchanged(c)
     /\ UNCHANGED interventions

---------------------------------------------------------------------------
(* Decisions. A call names its row by signal and number; the handler reads it, then *)
(* updates it WHERE status = 'pending_review'.                             *)

\* Mutant: a status the CHECK constraint of the table does not know.
DecisionAssigned == [approve |-> "approved", refuse |-> "dismissed",
                     assign |-> "assigned", discard |-> "dismissed"]

Decision == [approve |-> "approved", refuse |-> "dismissed",
             assign |-> "accepted", discard |-> "dismissed"]

\* A row that is decided already: idempotent, or a conflict.
Settled(op, status) == IF status = Decision[op] THEN "ok" ELSE "refused"

LoadAdvice(c, op, signal, n, row) ==
  /\ StartCall(c, "advice",
       IF IsPending(row)
       THEN [IdleCall EXCEPT !.op = op, !.pc = "decide", !.signal = signal, !.n = n]
       ELSE [IdleCall EXCEPT !.op = op, !.answer = Settled(op, row.status)])
  /\ UNCHANGED advice

Decided(row, op) == [row EXCEPT !.status = Decision[op], !.log = Append(@, Decision[op])]

\* Mutant: UPDATE without the condition on the status.
DecideInterventionAnyway(c) ==
  LET op  == call[c].op
      a   == call[c].signal
      n   == call[c].n
  IN /\ call[c].pc = "decide"
     /\ op \in {"approve", "refuse"}
     /\ interventions' = [interventions EXCEPT ![a][n] = Decided(interventions[a][n], op)]
     /\ Answer(c, "ok")
     /\ Unchanged(c)
     /\ UNCHANGED recommendations

DecideIntervention(c) ==
  LET op  == call[c].op
      a   == call[c].signal
      n   == call[c].n
      row == interventions[a][n]
  IN /\ call[c].pc = "decide"
     /\ op \in {"approve", "refuse"}
     /\ interventions' = IF IsPending(row)
                         THEN [interventions EXCEPT ![a][n] = Decided(row, op)]
                         ELSE interventions
     /\ Answer(c, IF IsPending(row) THEN "ok" ELSE Settled(op, row.status))
     /\ Unchanged(c)
     /\ UNCHANGED recommendations

\* Mutant: discard falls through like assign.
DecideRecommendationAlike(c) ==
  LET op  == call[c].op
      n   == call[c].n
      row == recommendations[n]
      may == row.present /\ IsPending(row)
  IN /\ call[c].pc = "decide"
     /\ op \in {"assign", "discard"}
     /\ recommendations' = IF may THEN [recommendations EXCEPT ![n] = Decided(row, op)]
                           ELSE recommendations
     /\ Answer(c, IF row.present THEN "ok" ELSE "error")
     /\ Unchanged(c)
     /\ UNCHANGED interventions

\* When the UPDATE matches no row, assign returns the row it reads again,
\* whatever its status; if the row is gone, reading it again raises.
DecideRecommendation(c) ==
  LET op  == call[c].op
      n   == call[c].n
      row == recommendations[n]
      may == row.present /\ IsPending(row)
  IN /\ call[c].pc = "decide"
     /\ op \in {"assign", "discard"}
     /\ recommendations' = IF may THEN [recommendations EXCEPT ![n] = Decided(row, op)]
                           ELSE recommendations
     /\ Answer(c, CASE may \/ (row.present /\ op = "assign") -> "ok"
                    [] ~ row.present                         -> "error"
                    [] OTHER                                 -> Settled(op, row.status))
     /\ Unchanged(c)
     /\ UNCHANGED interventions

AdviceStep(c) ==
  \/ StartGroupAdvice(c)
  \/ \E item \in items : StartStudentAdvice(c, item)
  \/ InsertAdvice(c)
  \/ \E op \in {"approve", "refuse"}, a \in Advice : \E n \in DOMAIN interventions[a] :
       LoadAdvice(c, op, a, n, interventions[a][n])
  \/ \E op \in {"assign", "discard"} : \E n \in DOMAIN recommendations :
       recommendations[n].present /\ LoadAdvice(c, op, NoItem, n, recommendations[n])
  \/ DecideIntervention(c)
  \/ DecideRecommendation(c)

---------------------------------------------------------------------------

PipelineStep(w) ==
  \/ /\ \/ ReadGrades(w)    \/ UpsertProfile(w)
        \/ ReadProfiles(w)  \/ LockClass(w)
        \/ StartWorklist(w) \/ ReadSignals(w)  \/ DeleteActive(w)
     /\ UNCHANGED advice
  \/ ReplaceGroupsAndAdvice(w) \/ InsertItemsAndDetach(w)
  \/ StartScan(w) \/ ReadPending(w) \/ Propose(w)

AdviceNext ==
  \/ \E s \in Students, final \in Finals : LockGrade(s, final) /\ UNCHANGED advice
  \/ Beat
  \/ \E w \in Workers : PipelineStep(w) \/ (FailTask(w) /\ UNCHANGED advice)
  \/ \E c \in Calls : AdviceStep(c) \/ (TeacherStep(c) /\ UNCHANGED advice)

AdviceSpec == AdviceInit /\ [][AdviceNext]_allVars

\* Workers go on with what they have begun and take waiting messages; handlers
\* finish their calls.
Finish(c) ==
  \/ (UpdateItem(c) \/ EditGroup(c)) /\ UNCHANGED advice
  \/ InsertAdvice(c) \/ DecideIntervention(c) \/ DecideRecommendation(c)

FairSpec ==
  /\ AdviceSpec
  /\ \A w \in Workers : WF_allVars(PipelineStep(w))
  /\ \A c \in Calls : WF_allVars(Finish(c))

---------------------------------------------------------------------------
(* Properties *)

AdviceTypeOK ==
  /\ TypeOK
  /\ \A a \in Advice : interventions[a] \in Seq(Intervention)
  /\ recommendations \in Seq(Recommendation)

\* Scans that overlap never leave two interventions waiting for one signal
\* (scan_teacher_for_interventions and the partial unique index).
OnePendingPerSignal ==
  \A a \in Advice :
    Cardinality({n \in DOMAIN interventions[a] : IsPending(interventions[a][n])}) <= 1

\* And the audit log of a row tells its status, with one entry per transition,
\* however approvals and dismissals race.
DecisionsAreLogged ==
  /\ OnePendingPerSignal
  /\ \A a \in Advice : \A n \in DOMAIN interventions[a] :
       LET row == interventions[a][n]
       IN  row.log = IF IsPending(row) THEN <<"created">> ELSE <<"created", row.status>>
  /\ \A n \in DOMAIN recommendations :
       LET row == recommendations[n]
       IN  row.log = IF IsPending(row) THEN <<>> ELSE <<row.status>>

DecisionAnswerIsTrue(c) ==
  call[c].pc = "decide" /\ call'[c].answer = "ok" =>
    LET op == call[c].op
    IN  /\ op \in {"approve", "refuse"} =>
             interventions'[call[c].signal][call[c].n].status = Decision[op]
        /\ op = "discard" => recommendations'[call[c].n].status = "dismissed"

\* A call that answers 200 has its effect, on items of the worklist, even if its
\* UPDATE matched no row, on interventions and on recommendations, whatever was
\* decided meanwhile. (assign does not: it returns a row discarded meanwhile.)
AnswersAreTrue ==
  [][\A c \in Calls : ItemAnswerIsTrue(c) /\ DecisionAnswerIsTrue(c)]_allVars

\* No row lock of the pipeline blocks a task or a call for ever.
PipelineDrains == <>[](Quiet /\ \A c \in Calls : call[c].pc = "idle")

\* Recent grades weigh more in every stored profile (_aggregate_skill_scores),
\* and on every one the agent reports what the worklist reports
\* (intervention_agent._detect_signals).
SignalsFollowGrades ==
  LET histories == {profile[s] : s \in Students} \ {<<>>}
  IN RecencyCountsIn(histories) /\ AgentMirrorsWorklistIn(histories)
=============================================================================
