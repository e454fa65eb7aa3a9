----------------------------- MODULE LlmAnswer -----------------------------
(***************************************************************************)
(* Calls of the language model: transport retries, one corrective retry    *)
(* when the reply cannot be parsed, and what is made of a reply that can   *)
(* (llm/client.py, llm/parsers.py). A grading call leads to the grade of a *)
(* resubmitted essay and to its comparison with the version before, which  *)
(* calls the model once more (services/grading.py, resubmission.py).       *)
(*                                                                         *)
(* A reply is an object of the expected shape or it is broken. Its items   *)
(* name a criterion and hold one number, which may be unreadable or        *)
(* infinite, one text, which may be too short, and a confidence.           *)
(***************************************************************************)
EXTENDS Integers, Sequences, FiniteSets, Functions, Rows

CONSTANTS
  Criteria,      \* criteria of the rubric snapshot
  MinScore, MaxScore,
  NoCriterion,   \* an id the snapshot does not have, or none
  LlmReplies,    \* replies the model may give
  LlmMaxRetries, \* settings.llm_max_retries
  MaxRankedItems,\* the copilot keeps 20
  BaseScores,    \* scores of the version before
  Efforts,       \* what may have changed: words before, words after, same words
  LlmKinds,      \* calls a behaviour may begin with
  LlmFaults,     \* bound: transport errors, tasks that die
  Overrides      \* bound: scores the teacher changes meanwhile

\* Numbers that are none.
Unreadable == -99
Infinite == 99

ASSUME LlmAssumption ==
  /\ MinScore \in Nat \ {0} /\ MaxScore \in Nat /\ MinScore < MaxScore
  /\ MaxScore < Infinite /\ NoCriterion \notin Criteria
  /\ IsFiniteSet(Criteria) /\ BaseScores \subseteq [Criteria -> Int]
  /\ LlmKinds \subseteq {"grading", "instruction", "copilot"}
  /\ LlmMaxRetries \in Nat /\ MaxRankedItems \in Nat
  /\ LlmFaults \in Nat /\ Overrides \in Nat

VARIABLES
  llm,         \* the call under way
  answer,      \* what the parser made of the reply
  grade,       \* grade of the version before and of this one: the scores and the total
  revision,    \* what the comparison has read
  comparisons, \* rows of revision_comparisons
  trials       \* what remains of the bounds

llmVars == <<llm, answer, grade, revision, comparisons, trials>>

---------------------------------------------------------------------------
(* Parsing *)

\* What a reply may hold.
Item == [criterion : Criteria \union {NoCriterion}, score : Int, long : BOOLEAN,
         confidence : {"high", "medium", "low", "odd"}]

ASSUME RepliesAssumption ==
  LlmReplies \subseteq [shape : {"json", "broken"}, items : Seq(Item)]

SumOver(scores) == SumFunction(scores)

Clamp(score, low, high) == IF score < low THEN low ELSE IF score > high THEN high ELSE score

Numeric(item) == item.score \notin {Unreadable, Infinite}

\* The last entry for a criterion counts, those for unknown ones are ignored.
Entries(items, c) == {i \in DOMAIN items : items[i].criterion = c}

Returned(items, c) == items[CHOOSE i \in Entries(items, c) : \A j \in Entries(items, c) : j <= i]

MissingCriterion == [score |-> 0, missing |-> TRUE, clamped |-> FALSE, confidence |-> "low",
                     review |-> TRUE]

IsClamped(item) == ~Numeric(item) \/ item.score \notin MinScore .. MaxScore

\* Mutant: only a score that is none lowers the confidence.
ConfidenceUnclamped(item) ==
  IF ~Numeric(item) \/ item.confidence \notin {"high", "medium", "low"}
  THEN "low" ELSE item.confidence

ConfidenceOf(item) ==
  IF IsClamped(item) \/ item.confidence \notin {"high", "medium", "low"}
  THEN "low" ELSE item.confidence

ScoreOf(item) == IF Numeric(item) THEN Clamp(item.score, MinScore, MaxScore) ELSE MinScore

ParseCriterion(item) ==
  [score |-> ScoreOf(item), missing |-> FALSE, clamped |-> IsClamped(item),
   confidence |-> ConfidenceOf(item), review |-> IsClamped(item) \/ ~item.long]

ParseGrading(items) ==
  [c \in Criteria |-> IF Entries(items, c) = {} THEN MissingCriterion
                      ELSE ParseCriterion(Returned(items, c))]

\* addressed is taken from a boolean or a word.
ParseRevision(items) ==
  LET named == RowsAt(items, {i \in DOMAIN items : items[i].criterion # NoCriterion})
  IN [i \in DOMAIN named |-> [criterion |-> named[i].criterion, addressed |-> named[i].long]]

ParseInstruction(items) ==
  [i \in DOMAIN items |-> [minutes |-> IF Numeric(items[i]) THEN items[i].score ELSE 0]]

\* Items without a label are dropped; a value that is none stays none.
ParseCopilot(items) ==
  LET labelled == RowsAt(items, {i \in DOMAIN items : items[i].long})
      value(item) == IF item.score = Unreadable THEN Unreadable ELSE Clamp(item.score, 0, 1)
  IN [i \in 1 .. Clamp(Len(labelled), 0, MaxRankedItems) |-> [value |-> value(labelled[i])]]

\* int() of an infinite number raises what no parser expects.
Overflows(kind, items) ==
  \/ kind = "instruction" /\ \E i \in DOMAIN items : items[i].score = Infinite
  \/ kind = "grading" /\ \E c \in Criteria :
       Entries(items, c) # {} /\ Returned(items, c).score = Infinite

ParsedReply(kind, items) ==
  CASE kind = "grading"     -> ParseGrading(items)
    [] kind = "revision"    -> ParseRevision(items)
    [] kind = "instruction" -> ParseInstruction(items)
    [] kind = "copilot"     -> ParseCopilot(items)

\* _derive_overall_confidence
OverallConfidence(scores) ==
  LET levels == {scores[c].confidence : c \in DOMAIN scores}
  IN IF levels = {} \/ "low" \in levels THEN "low"
     ELSE IF "medium" \in levels THEN "medium" ELSE "high"

---------------------------------------------------------------------------

NoGrade == [scores |-> [c \in {} |-> 0], total |-> 0, confidence |-> "low", clamps |-> {}]

NoRevision == [baseTotal |-> 0, total |-> 0, deltas |-> [c \in {} |-> 0]]

NewCall(kind) == [kind |-> kind, pc |-> "ask", attempt |-> 0, corrective |-> FALSE,
                  sent |-> 0, items |-> <<>>]

LlmInit ==
  /\ \E kind \in LlmKinds : llm = NewCall(kind)
  /\ answer = <<>>
  /\ \E scores \in BaseScores :
       grade = [base |-> [NoGrade EXCEPT !.scores = scores, !.total = SumOver(scores),
                                         !.confidence = "high"],
                revised |-> NoGrade]
  /\ revision = NoRevision
  /\ comparisons = <<>>
  /\ trials = [faults |-> LlmFaults, overrides |-> Overrides]

Graded == DOMAIN grade.revised.scores # {}

LlmFault ==
  /\ trials.faults > 0
  /\ trials' = [trials EXCEPT !.faults = @ - 1]

\* A failed call ends the task or the request; a comparison goes on without it.
Fail(reason) ==
  /\ answer' = <<>>
  /\ llm' = [llm EXCEPT !.pc = IF llm.kind = "revision" THEN "compare" ELSE reason]

---------------------------------------------------------------------------
(* A call of the model *)

\* Timeouts and API errors: the call is sent again, llm_max_retries times.
TransportError ==
  /\ llm.pc = "ask"
  /\ LlmFault
  /\ IF llm.attempt < LlmMaxRetries
     THEN llm' = [llm EXCEPT !.attempt = @ + 1, !.sent = @ + 1] /\ UNCHANGED answer
     ELSE Fail("error")
  /\ UNCHANGED <<grade, revision, comparisons>>

\* A reply of the expected shape.
GoodReply(reply) ==
  /\ llm.pc = "ask" /\ reply.shape = "json"
  /\ IF Overflows(llm.kind, reply.items)
     THEN Fail("escaped")
     ELSE /\ answer' = ParsedReply(llm.kind, reply.items)
          /\ llm' = [llm EXCEPT !.pc = "parsed", !.sent = @ + 1, !.items = reply.items]
  /\ UNCHANGED <<grade, revision, comparisons, trials>>

\* Mutant: the corrective prompt is sent until the reply can be parsed.
BrokenReplyAgain(reply) ==
  /\ llm.pc = "ask" /\ reply.shape = "broken"
  /\ llm.sent < 9
  /\ llm' = [llm EXCEPT !.corrective = TRUE, !.attempt = 0, !.sent = @ + 1]
  /\ UNCHANGED <<answer, grade, revision, comparisons, trials>>

\* Not JSON, not an object, a field missing: one corrective prompt.
BrokenReply(reply) ==
  /\ llm.pc = "ask" /\ reply.shape = "broken"
  /\ IF llm.corrective
     THEN Fail("error")
     ELSE /\ llm' = [llm EXCEPT !.corrective = TRUE, !.attempt = 0, !.sent = @ + 1]
          /\ UNCHANGED answer
  /\ UNCHANGED <<grade, revision, comparisons, trials>>

---------------------------------------------------------------------------
(* The grade, and the comparison with the version before *)

\* Grade and criterion rows, score_clamped entries and the status, one commit.
StoreGrade ==
  /\ llm.kind = "grading" /\ llm.pc = "parsed"
  /\ LET scores == [c \in Criteria |-> answer[c].score]
     IN grade' = [grade EXCEPT !.revised =
          [scores |-> scores, total |-> SumOver(scores),
           confidence |-> OverallConfidence(answer),
           clamps |-> {c \in Criteria : answer[c].clamped}]]
  /\ llm' = [NewCall("grading") EXCEPT !.pc = "totals"]
  /\ answer' = <<>>
  /\ UNCHANGED <<revision, comparisons, trials>>

\* The grade rows, and with them the totals.
ReadTotals ==
  /\ llm.pc = "totals"
  /\ revision' = [revision EXCEPT !.baseTotal = grade.base.total, !.total = grade.revised.total]
  /\ llm' = [llm EXCEPT !.pc = "scores"]
  /\ UNCHANGED <<answer, grade, comparisons, trials>>

\* Mutant: the two versions are swapped.
DeltasSwapped(base, revised) ==
  [c \in DOMAIN base |-> base[c] - (IF c \in DOMAIN revised THEN revised[c] ELSE 0)]

\* A criterion the revised grade lacks counts 0.
Deltas(base, revised) ==
  [c \in DOMAIN base |-> (IF c \in DOMAIN revised THEN revised[c] ELSE 0) - base[c]]

\* The criterion rows. Without feedback on the version before there is
\* nothing to ask the model.
ReadScores(hasFeedback) ==
  /\ llm.pc = "scores"
  /\ revision' = [revision EXCEPT !.deltas = Deltas(grade.base.scores, grade.revised.scores)]
  /\ llm' = IF hasFeedback THEN NewCall("revision")
            ELSE [NewCall("revision") EXCEPT !.pc = "compare"]
  /\ UNCHANGED <<answer, grade, comparisons, trials>>

\* An assessment of a criterion that was not asked about is kept.
FeedbackAddressed ==
  /\ llm.kind = "revision" /\ llm.pc = "parsed"
  /\ llm' = [llm EXCEPT !.pc = "compare"]
  /\ UNCHANGED <<answer, grade, revision, comparisons, trials>>

\* _detect_low_effort; same: the texts have the same words.
FewWordsChanged(effort) ==
  LET delta == IF effort.after > effort.before THEN effort.after - effort.before
               ELSE effort.before - effort.after
  IN delta < 5 /\ (effort.before = 0 \/ 50 * delta < effort.before)

LowEffort(effort) == FewWordsChanged(effort) \/ effort.same

PersistComparison(effort) ==
  /\ llm.pc = "compare"
  /\ comparisons' = Append(comparisons,
       [total |-> revision.total - revision.baseTotal, deltas |-> revision.deltas,
        lowEffort |-> LowEffort(effort), addressed |-> answer])
  /\ llm' = [llm EXCEPT !.pc = "done"]
  /\ UNCHANGED <<answer, grade, revision, trials>>

\* Meanwhile the teacher changes a score; the total written with it is the sum
\* of the scores before (GradeReview, TotalIsSum).
OverrideMeanwhile(version, c) ==
  /\ trials.overrides > 0 /\ Graded
  /\ trials' = [trials EXCEPT !.overrides = @ - 1]
  /\ grade' = [grade EXCEPT ![version].scores[c] = MaxScore]
  /\ UNCHANGED <<llm, answer, revision, comparisons>>

\* The worker dies: the grade, if it is stored, stays without a comparison.
GraderDies ==
  /\ llm.pc \notin {"error", "escaped", "done", "dead"}
  /\ LlmFault
  /\ llm' = [llm EXCEPT !.pc = "dead"]
  /\ UNCHANGED <<answer, grade, revision, comparisons>>

LlmNext ==
  \/ TransportError
  \/ \E reply \in LlmReplies : GoodReply(reply) \/ BrokenReply(reply)
  \/ StoreGrade \/ ReadTotals
  \/ \E hasFeedback \in BOOLEAN : ReadScores(hasFeedback)
  \/ FeedbackAddressed
  \/ \E effort \in Efforts : PersistComparison(effort)
  \/ \E version \in {"base", "revised"}, c \in Criteria : OverrideMeanwhile(version, c)
  \/ GraderDies

LlmSpec == LlmInit /\ [][LlmNext]_llmVars

---------------------------------------------------------------------------
(* Properties *)

\* Calls, answers and grades have their types.
LlmTypeOK ==
  /\ llm.kind \in {"grading", "revision", "instruction", "copilot"}
  /\ llm.pc \in {"ask", "parsed", "totals", "scores", "compare", "done", "error", "escaped", "dead"}
  /\ llm.attempt \in 0 .. LlmMaxRetries
  /\ grade.base.scores \in [Criteria -> Int]
  /\ Graded => grade.revised.scores \in [Criteria -> Int]
  /\ Len(comparisons) <= 1

\* A parsed grading answer has one entry for each criterion of the snapshot. A
\* score that was out of range, unreadable or missing lowers the confidence of
\* the whole essay, and is in range or, when it is missing, 0; every clamp has
\* its score_clamped entry. Ranked items of the copilot have a value between 0
\* and 1 or none, and there are not too many. The model is asked no more often
\* than the retries allow, twice over (llm/parsers.py, llm/client.py).
AnswersFitTheRubric ==
  /\ llm.kind = "grading" /\ llm.pc = "parsed" =>
       /\ DOMAIN answer = Criteria
       /\ \A c \in Criteria :
            /\ answer[c].missing <=> \A i \in DOMAIN llm.items : llm.items[i].criterion # c
            /\ answer[c].score \in MinScore .. MaxScore \/ (answer[c].missing /\ answer[c].score = 0)
            /\ answer[c].missing \/ answer[c].clamped => answer[c].review
  /\ Graded =>
       /\ grade.revised.clamps # {} => grade.revised.confidence = "low"
       /\ trials.overrides = Overrides =>
            /\ (\E c \in Criteria : grade.revised.scores[c] = 0) => grade.revised.confidence = "low"
            /\ grade.revised.total = SumOver(grade.revised.scores)
  /\ llm.kind = "copilot" /\ llm.pc = "parsed" =>
       /\ Len(answer) <= MaxRankedItems
       /\ \A i \in DOMAIN answer : answer[i].value \in {Unreadable, 0, 1}
  /\ llm.sent <= 2 * (LlmMaxRetries + 1)

\* A comparison covers every criterion of the version before, and the deltas of
\* the criteria sum to the delta of the totals, although grades and criteria are
\* read one after the other, unless a score was overridden
\* (compute_revision_comparison).
ComparisonAddsUp ==
  \A i \in DOMAIN comparisons :
    /\ DOMAIN comparisons[i].deltas = Criteria
    /\ trials.overrides = Overrides => SumOver(comparisons[i].deltas) = comparisons[i].total
=============================================================================
