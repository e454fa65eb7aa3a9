---------------------------- MODULE ClassInsights ----------------------------
(***************************************************************************)
(* What the teacher is shown of the locked grades of a class with one      *)
(* assignment: the class insights, the analytics of the assignment and the *)
(* grades as CSV. Nothing is locked while they are computed, and two of    *)
(* the three read the grades in several statements, so a score may be      *)
(* overridden or a grade locked in between. An override looks at is_locked *)
(* when it loads the grade and holds no row: it may be stored after the    *)
(* grade was locked.                                                       *)
(*                                                                         *)
(* A resubmitted essay has a grade for each version. Scores run from      *)
(* LeastScore to TopScore; their share of that range is compared exactly,  *)
(* in fifths, of which each has a bucket.                                  *)
(***************************************************************************)
EXTENDS Integers, FiniteSets, Functions

CONSTANTS
  Marks,       \* grades of the assignment
  EssayOfMark, \* grade -> essay
  PupilOf,     \* essay -> student; an essay without one is not graded
  SkillOf,     \* criterion -> canonical skill its name is mapped to
  LeastScore,  \* range of the criteria in the rubric snapshot
  TopScore,
  MarkScores,  \* scores the grades may have to begin with: grade -> criterion -> score
  Regrades,    \* bound: overrides
  Views        \* bound: requests for one of the three

ASSUME InsightsAssumption ==
  /\ IsFiniteSet(Marks) /\ IsFiniteSet(DOMAIN SkillOf) /\ DOMAIN SkillOf # {}
  /\ Regrades \in Nat /\ Views \in Nat
  /\ EssayOfMark \in [Marks -> DOMAIN PupilOf]
  /\ LeastScore \in Int /\ TopScore \in Int /\ LeastScore < TopScore
  /\ \A scores \in MarkScores :
       scores \in [Marks -> [DOMAIN SkillOf -> LeastScore .. TopScore]]

VARIABLES
  marks,     \* grade -> is_locked, total_score and final scores, and (history)
             \* whether it was locked with no override of it under way
  overrides, \* calls under way: what they set to what, and the grade as loaded
  view,      \* the request under way and what it has read
  downloads, \* export_requested entries of the audit log
  budget     \* what remains of the bounds

insightsVars == <<marks, overrides, view, downloads, budget>>

---------------------------------------------------------------------------
(* Aggregation *)

\* Score rows: those of the locked grades, one for each criterion.
ScoreRows == {[mark |-> m, criterion |-> c, score |-> marks[m].scores[c]] :
                m \in {n \in Marks : marks[n].locked}, c \in DOMAIN SkillOf}

\* A fifth of the range, in fifths of a point.
Fifth == TopScore - LeastScore

NormaliseScore(score) == 5 * (score - LeastScore)

SumOfShares(rows) == SumFunction([r \in rows |-> NormaliseScore(r.score)])

\* Mutant: a full score is past the last bucket.
BucketIndexPast(share) == share \div Fifth

\* Five buckets, each with its lower border; the last one has its upper one, too.
BucketIndex(share) ==
  IF share = 5 * Fifth THEN 4
  ELSE CHOOSE b \in 0 .. 4 : b * Fifth <= share /\ share < (b + 1) * Fifth

Distribution(rows) ==
  [b \in 0 .. 4 |-> Cardinality({r \in rows : BucketIndex(NormaliseScore(r.score)) = b})]

Concern(rows) == rows # {} /\ SumOfShares(rows) < 3 * Fifth * Cardinality(rows)

InSkill(rows, skill) == {r \in rows : SkillOf[r.criterion] = skill}

OfPupil(rows, s) == {r \in rows : PupilOf[EssayOfMark[r.mark]] = s}

SkillAverage(rows, skill) ==
  LET own == InSkill(rows, skill)
  IN [sum |-> SumOfShares(own), points |-> Cardinality(own), buckets |-> Distribution(own),
      students |-> Cardinality({PupilOf[EssayOfMark[r.mark]] : r \in own})]

\* Skills below three fifths on average, each with the students who are so in it.
CommonIssues(rows) ==
  LET affected(skill) == {s \in {PupilOf[EssayOfMark[r.mark]] : r \in rows} :
                            Concern(OfPupil(InSkill(rows, skill), s))}
      skills == {SkillOf[r.criterion] : r \in rows}
  IN {[skill |-> k, affected |-> Cardinality(affected(k))] :
        k \in {j \in skills : Concern(InSkill(rows, j))}}

\* How often a score was given for a criterion, those never given left out.
CriterionAnalytics(rows, c) ==
  LET own == {r \in rows : r.criterion = c}
  IN [sum |-> SumOfShares(own), points |-> Cardinality(own),
      frequency |-> [n \in {r.score : r \in own} |-> Cardinality({r \in own : r.score = n})]]

---------------------------------------------------------------------------
(* Grades *)

SumOfScores(scores) == SumFunction(scores)

NoView == [op |-> "none", pc |-> "idle", lockedEssays |-> 0, rows |-> {}, totals |-> {}]

\* After an override the total is the sum of the scores before (GradeReview,
\* TotalIsSum).
InsightsInit ==
  /\ \E scores \in MarkScores, before \in MarkScores :
       marks = [m \in Marks |-> [locked |-> FALSE, settled |-> FALSE,
                                 total |-> SumOfScores(before[m]), scores |-> scores[m]]]
  /\ overrides = {}
  /\ view = NoView
  /\ downloads = 0
  /\ budget = [regrades |-> Regrades, views |-> Views]

\* Mutant: the lock is not looked at.
StartAnyOverride(m, c, score) ==
  /\ budget.regrades > 0
  /\ budget' = [budget EXCEPT !.regrades = @ - 1]
  /\ overrides' = overrides \union
       {[mark |-> m, criterion |-> c, score |-> score, loaded |-> marks[m]]}
  /\ UNCHANGED <<marks, view, downloads>>

\* The grade is loaded and found not locked.
StartOverrideMark(m, c, score) ==
  /\ budget.regrades > 0 /\ ~ marks[m].locked
  /\ budget' = [budget EXCEPT !.regrades = @ - 1]
  /\ overrides' = overrides \union
       {[mark |-> m, criterion |-> c, score |-> score, loaded |-> marks[m]]}
  /\ UNCHANGED <<marks, view, downloads>>

\* A column is left out if its value is the one loaded.
CommitOverrideMark(e) ==
  LET sum == SumOfScores(e.loaded.scores) IN
  /\ overrides' = overrides \ {e}
  /\ marks' = [marks EXCEPT
       ![e.mark].scores[e.criterion] =
         IF e.score = e.loaded.scores[e.criterion] THEN @ ELSE e.score,
       ![e.mark].total = IF sum = e.loaded.total THEN @ ELSE sum]
  /\ UNCHANGED <<view, downloads, budget>>

DropOverrideMark(e) ==
  /\ overrides' = overrides \ {e}
  /\ UNCHANGED <<marks, view, downloads, budget>>

LockMark(m) ==
  /\ ~ marks[m].locked
  /\ marks' = [marks EXCEPT ![m].locked = TRUE,
                            ![m].settled = \A e \in overrides : e.mark # m]
  /\ UNCHANGED <<overrides, view, downloads, budget>>

---------------------------------------------------------------------------
(* Requests *)

AskView(state) ==
  /\ view.pc \in {"idle", "shown"} /\ budget.views > 0
  /\ budget' = [budget EXCEPT !.views = @ - 1]
  /\ view' = state
  /\ UNCHANGED <<marks, overrides, downloads>>

\* One statement reads all score rows.
GetClassInsights ==
  AskView([NoView EXCEPT !.op = "insights", !.pc = "shown", !.rows = ScoreRows])

\* Mutant: grades are counted, not essays.
CountLockedGrades ==
  AskView([NoView EXCEPT !.op = "analytics", !.pc = "counted",
             !.lockedEssays = Cardinality({m \in Marks : marks[m].locked})])

\* First the essays with a locked grade are counted,
CountLockedEssays ==
  AskView([NoView EXCEPT !.op = "analytics", !.pc = "counted",
             !.lockedEssays = Cardinality({EssayOfMark[m] : m \in {n \in Marks : marks[n].locked}})])

\* then the score rows are read.
ReadScoreRows ==
  /\ view.pc = "counted"
  /\ view' = [view EXCEPT !.pc = "shown", !.rows = ScoreRows]
  /\ UNCHANGED <<marks, overrides, downloads, budget>>

\* The locked grades with their totals,
ReadMarks ==
  AskView([NoView EXCEPT !.op = "csv", !.pc = "totals",
             !.totals = {[mark |-> m, total |-> marks[m].total] :
                           m \in {n \in Marks : marks[n].locked}}])

\* then the scores of those grades; an entry of the audit log is committed.
ReadColumns ==
  /\ view.pc = "totals"
  /\ view' = [view EXCEPT !.pc = "shown",
       !.rows = {[mark |-> r.mark, criterion |-> c, score |-> marks[r.mark].scores[c]] :
                   r \in view.totals, c \in DOMAIN SkillOf}]
  /\ downloads' = downloads + 1
  /\ UNCHANGED <<marks, overrides, budget>>

InsightsNext ==
  \/ \E m \in Marks :
       \/ LockMark(m)
       \/ \E c \in DOMAIN SkillOf, score \in LeastScore .. TopScore : StartOverrideMark(m, c, score)
  \/ \E e \in overrides : CommitOverrideMark(e) \/ DropOverrideMark(e)
  \/ GetClassInsights
  \/ CountLockedEssays \/ ReadScoreRows
  \/ ReadMarks \/ ReadColumns

InsightsSpec == InsightsInit /\ [][InsightsNext]_insightsVars

---------------------------------------------------------------------------
(* Properties *)

\* Grades and requests have their types.
InsightsTypeOK ==
  /\ \A m \in Marks : marks[m].scores \in [DOMAIN SkillOf -> LeastScore .. TopScore]
  /\ \A e \in overrides : e.mark \in Marks /\ e.criterion \in DOMAIN SkillOf
  /\ view.op \in {"none", "insights", "analytics", "csv"}
  /\ view.pc \in {"idle", "counted", "totals", "shown"}
  /\ downloads \in 0 .. Views

\* A common issue is the issue of at least one student, and not of none when the
\* average hides it; the buckets of a skill hold each score once
\* (get_class_insights).
IssuesAreSomeones ==
  LET skills == {SkillOf[r.criterion] : r \in view.rows}
  IN view.op = "insights" =>
       /\ \A issue \in CommonIssues(view.rows) : issue.affected > 0
       /\ \A k \in skills :
            LET average == SkillAverage(view.rows, k)
            IN /\ SumFunction(average.buckets) = average.points
               \* the sum lies between those of the borders of the buckets
               /\ LET low == SumFunction([b \in 0 .. 4 |-> Fifth * b * average.buckets[b]])
                  IN low <= average.sum /\ average.sum <= low + Fifth * average.points

\* The analytics never count an essay as locked whose scores they do not show,
\* and agree with the insights on the same rows: the criteria of a skill sum up
\* to the skill (get_assignment_analytics).
AnalyticsMatchInsights ==
  view.op = "analytics" /\ view.pc = "shown" =>
    /\ view.lockedEssays <= Cardinality({EssayOfMark[r.mark] : r \in view.rows})
    /\ \A k \in {SkillOf[c] : c \in DOMAIN SkillOf} :
         LET own == {c \in DOMAIN SkillOf : SkillOf[c] = k}
         IN SumFunction([c \in own |-> CriterionAnalytics(view.rows, c).sum])
              = SkillAverage(view.rows, k).sum

\* Every line of the CSV is of a locked grade, and the total and the scores,
\* though read one after the other, are those the grade still has if no
\* override of it was under way when it was locked (export_grades_csv). The
\* lines of the other grades may not even fit together.
ExportedGradesAreFinal ==
  view.op = "csv" /\ view.pc = "shown" =>
    \A r \in view.totals :
      /\ marks[r.mark].locked
      /\ marks[r.mark].settled =>
           /\ r.total = marks[r.mark].total
           /\ \A s \in view.rows :
                s.mark = r.mark => s.score = marks[s.mark].scores[s.criterion]

\* What the three screens tell of the locked grades: of issues and counts, and
\* of the exported grades that no override under way could still change.
ScreensAgree == IssuesAreSomeones /\ AnalyticsMatchInsights /\ ExportedGradesAreFinal
=============================================================================
