----------------------------- MODULE RubricBook -----------------------------
(***************************************************************************)
(* A teacher's rubrics with their weighted criteria, the copies and        *)
(* templates made of them, and the snapshot each assignment keeps          *)
(* (services/rubric.py, rubric_template.py, assignment.py).                *)
(*                                                                         *)
(* Weights arrive in thousandths of a percent and are kept in hundredths.  *)
(* A criterion carries the save that wrote it; a copy of it carries the    *)
(* same.                                                                   *)
(***************************************************************************)
EXTENDS Integers, Sequences, FiniteSets, Functions

CONSTANTS
  Editors,    \* request handlers
  Drafts,     \* what a teacher may send: a sequence of weights
  MaxRubrics, \* bound: rubrics, copies and templates
  MaxRequests,   \* bound: requests
  MaxUses     \* bound: assignments created

ASSUME RubricAssumption ==
  /\ Drafts \subseteq Seq(Nat \ {0})
  /\ IsFiniteSet(Editors)

VARIABLES
  rubrics,  \* rows of rubrics, each with its rows of rubric_criteria
  uses,     \* assignments: the rubric, the status and the snapshot
  saves,    \* sets of criteria saved so far
  editor,   \* handler -> where its request is
  requests  \* requests so far

rubricVars == <<rubrics, uses, saves, editor, requests>>

---------------------------------------------------------------------------
(* Weights *)

\* Decimal.quantize: a tie goes to the even neighbour.
Quantized(weight) ==
  LET down == weight \div 10
  IN IF weight % 10 > 5 \/ (weight % 10 = 5 /\ down % 2 = 1) THEN down + 1 ELSE down

\* Numeric(5, 2) of PostgreSQL: a tie goes up.
ColumnValue(weight) == (weight + 5) \div 10

\* Mutant: the new criteria of an update are not validated.
ValidateNothing(draft) == Len(draft) > 0

ValidateWeightSum(draft) == SumFunction([i \in DOMAIN draft |-> Quantized(draft[i])]) = 10000

BuildCriteria(draft, save) ==
  {[save |-> save, display_order |-> i, weight |-> ColumnValue(draft[i])] : i \in DOMAIN draft}

WeightSum(criteria) == SumFunction([c \in criteria |-> c.weight])

---------------------------------------------------------------------------
(* Data *)

Rubric(criteria, template) == [criteria |-> criteria, template |-> template, deleted |-> FALSE]

RubricExists(r) == r \in DOMAIN rubrics /\ ~rubrics[r].deleted

BlockingStatuses == {"open", "grading", "review"}

InUse(r) == \E use \in DOMAIN uses : uses[use].rubric = r /\ uses[use].status \in BlockingStatuses

NoEdit == [pc |-> "idle", rubric |-> 0, draft |-> <<>>, read |-> {}]

RubricInit ==
  /\ rubrics = <<>>
  /\ uses = <<>>
  /\ saves = 0
  /\ editor = [e \in Editors |-> NoEdit]
  /\ requests = 0

Request == requests < MaxRequests /\ requests' = requests + 1

Begin(e, pc, r, draft) ==
  /\ editor[e].pc = "idle" /\ Request
  /\ editor' = [editor EXCEPT ![e] = [NoEdit EXCEPT !.pc = pc, !.rubric = r, !.draft = draft]]

Finish(e) == editor' = [editor EXCEPT ![e] = NoEdit]

ReadCriteria(e, pc, next) ==
  /\ editor[e].pc = pc
  /\ editor' = [editor EXCEPT ![e].pc = next, ![e].read = rubrics[editor[e].rubric].criteria]
  /\ UNCHANGED <<rubrics, uses, saves, requests>>

---------------------------------------------------------------------------
(* Rubrics *)

CreateRubric(draft) ==
  /\ ValidateWeightSum(draft)
  /\ Len(rubrics) < MaxRubrics /\ Request
  /\ saves' = saves + 1
  /\ rubrics' = Append(rubrics, Rubric(BuildCriteria(draft, saves'), FALSE))
  /\ UNCHANGED <<uses, editor>>

StartUpdate(e, r, draft) ==
  /\ RubricExists(r) /\ ValidateWeightSum(draft)
  /\ Begin(e, "update", r, draft)
  /\ UNCHANGED <<rubrics, uses, saves>>

\* db.delete of an AsyncSession is a coroutine that nothing awaits: the
\* criteria there were stay beside the new ones.
CommitUpdate(e) ==
  /\ editor[e].pc = "update"
  /\ saves' = saves + 1
  /\ rubrics' = [rubrics EXCEPT ![editor[e].rubric].criteria =
                   @ \union BuildCriteria(editor[e].draft, saves')]
  /\ Finish(e)
  /\ UNCHANGED <<uses, requests>>

\* Refused if an assignment that uses it is under way.
StartDelete(e, r) ==
  /\ RubricExists(r) /\ ~InUse(r)
  /\ Begin(e, "delete", r, <<>>)
  /\ UNCHANGED <<rubrics, uses, saves>>

CommitDelete(e) ==
  /\ editor[e].pc = "delete"
  /\ rubrics' = [rubrics EXCEPT ![editor[e].rubric].deleted = TRUE]
  /\ Finish(e)
  /\ UNCHANGED <<uses, saves, requests>>

---------------------------------------------------------------------------
(* Copies *)

StartCopy(e, r, pc) ==
  /\ RubricExists(r)
  /\ Begin(e, pc, r, <<>>)
  /\ UNCHANGED <<rubrics, uses, saves>>

DuplicateRubric(e) ==
  /\ editor[e].pc = "duplicate" /\ Len(rubrics) < MaxRubrics
  /\ rubrics' = Append(rubrics, Rubric(editor[e].read, FALSE))
  /\ Finish(e)
  /\ UNCHANGED <<uses, saves, requests>>

SaveAsTemplate(e) ==
  /\ editor[e].pc = "template" /\ Len(rubrics) < MaxRubrics
  /\ rubrics' = Append(rubrics, Rubric(editor[e].read, TRUE))
  /\ Finish(e)
  /\ UNCHANGED <<uses, saves, requests>>

---------------------------------------------------------------------------
(* Assignments *)

RubricSnapshot(criteria) ==
  {[display_order |-> c.display_order, weight |-> c.weight, save |-> c.save] : c \in criteria}

CreateAssignment(e) ==
  /\ editor[e].pc = "assign" /\ Len(uses) < MaxUses
  /\ uses' = Append(uses, [rubric |-> editor[e].rubric, status |-> "draft",
                           snapshot |-> RubricSnapshot(editor[e].read)])
  /\ Finish(e)
  /\ UNCHANGED <<rubrics, saves, requests>>

MoveAssignment(use) ==
  /\ uses[use].status \in {"draft", "open", "grading", "review"}
  /\ uses' = [uses EXCEPT ![use].status =
       CASE @ = "draft" -> "open" [] @ = "open" -> "grading"
         [] @ = "grading" -> "review" [] @ = "review" -> "complete"]
  /\ UNCHANGED <<rubrics, saves, editor, requests>>

RubricNext ==
  \/ \E draft \in Drafts : CreateRubric(draft)
  \/ \E e \in Editors :
       \/ \E r \in DOMAIN rubrics :
            \/ \E draft \in Drafts : StartUpdate(e, r, draft)
            \/ StartDelete(e, r)
            \/ \E pc \in {"duplicating", "templating", "assigning"} : StartCopy(e, r, pc)
       \/ CommitUpdate(e) \/ CommitDelete(e)
       \/ ReadCriteria(e, "duplicating", "duplicate") \/ DuplicateRubric(e)
       \/ ReadCriteria(e, "templating", "template") \/ SaveAsTemplate(e)
       \/ ReadCriteria(e, "assigning", "assign") \/ CreateAssignment(e)
  \/ \E use \in DOMAIN uses : MoveAssignment(use)

RubricSpec == RubricInit /\ [][RubricNext]_rubricVars

---------------------------------------------------------------------------
(* Properties *)

\* Rubrics, assignments and requests have their types.
RubricTypeOK ==
  /\ \A r \in DOMAIN rubrics : rubrics[r].template \in BOOLEAN /\ rubrics[r].deleted \in BOOLEAN
  /\ \A use \in DOMAIN uses :
       /\ uses[use].rubric \in DOMAIN rubrics
       /\ uses[use].status \in {"draft", "complete"} \union BlockingStatuses
  /\ saves \in 0 .. requests
  /\ \A e \in Editors : editor[e].pc # "idle" => editor[e].rubric \in DOMAIN rubrics

\* Every set of criteria a grade can be computed from.
CriteriaSets == {rubrics[r].criteria : r \in DOMAIN rubrics} \union
                {uses[use].snapshot : use \in DOMAIN uses}

SavesIn(criteria) == {c.save : c \in criteria}

\* A rubric, a copy and a snapshot hold whole saves: the weights of each sum
\* to 100, but for what the column rounds otherwise than the validation, which
\* is a hundredth for a criterion at most.
WeightsAreWhole ==
  \A criteria \in CriteriaSets : \A save \in SavesIn(criteria) :
    LET saved == {c \in criteria : c.save = save}
    IN /\ WeightSum(saved) >= 10000
       /\ WeightSum(saved) <= 10000 + Cardinality(saved)

\* "all criteria within a rubric must sum to 100" (models/rubric.py:79), and an
\* update replaces all existing criteria (services/rubric.py:263).
WeightsSumTo100 == \A r \in DOMAIN rubrics : WeightSum(rubrics[r].criteria) = 10000
=============================================================================
