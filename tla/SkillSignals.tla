---------------------------- MODULE SkillSignals ----------------------------
(***************************************************************************)
(* What the lock pipeline computes from the locked grades of one student:  *)
(* normalised scores, their recency-weighted average and trend, and the    *)
(* signals the worklist and the intervention agent raise.                  *)
(*                                                                         *)
(* There is one skill and one criterion per grade, so a student's history  *)
(* is a sequence of scores, oldest first. Scores are percentages; averages *)
(* are compared by cross multiplication, so the four decimals the code     *)
(* rounds to and the error of its floats are left out.                     *)
(***************************************************************************)
EXTENDS Integers, Sequences, FiniteSets, FiniteSetsExt, Functions

\* A final score on the scale of its criterion, clamped to 0..100 per cent; a
\* criterion with no range counts as achieved.
Normalised(final, lowest, highest) ==
  IF highest <= lowest THEN 100
  ELSE LET share == (100 * (final - lowest)) \div (highest - lowest)
       IN  Max({0, Min({100, share})})

Total(scores) == SumFunction(scores)

\* Mutant: the oldest assignment weighs most.
WeightedSumReversed(scores) ==
  SumFunction([i \in DOMAIN scores |-> (Len(scores) + 1 - i) * scores[i]])

\* The weight of assignment i is i.
WeightedSum(scores) == SumFunction([i \in DOMAIN scores |-> i * scores[i]])
Weight(scores)      == SumFunction([i \in DOMAIN scores |-> i])

AverageBelow(scores, limit) == WeightedSum(scores) < limit * Weight(scores)

\* (mean of the newer half - mean of the older half) * older * newer, with
\* the middle score in the newer half.
Shift(scores) ==
  LET older == Len(scores) \div 2
      newer == Len(scores) - older
  IN  older * Total(SubSeq(scores, older + 1, Len(scores)))
        - newer * Total(SubSeq(scores, 1, older))

Trend(scores) ==
  LET older == Len(scores) \div 2
      limit == 5 * older * (Len(scores) - older)
  IN  CASE Shift(scores) > limit    -> "improving"
        [] Shift(scores) < - limit  -> "declining"
        [] OTHER                    -> "stable"

---------------------------------------------------------------------------
(* Worklist triggers. profile is the history the stored profile was        *)
(* computed from; scores is the history read from the grades themselves.   *)

Regression(profile) == Trend(profile) = "declining"

\* Mutant: one assignment is enough.
PersistentGapAtOnce(profile, inPersistentGroup) ==
  inPersistentGroup \/ (AverageBelow(profile, 60) /\ Trend(profile) # "improving")

PersistentGap(profile, inPersistentGroup) ==
  \/ inPersistentGroup
  \/ /\ AverageBelow(profile, 60)
     /\ Len(profile) >= 2
     /\ Trend(profile) # "improving"

\* Population standard deviation above 20 points over at least 3 grades.
HighInconsistency(scores) ==
  LET n == Len(scores)
  IN  /\ n >= 3
      /\ n * SumFunction([i \in DOMAIN scores |-> scores[i] * scores[i]])
           - Total(scores) * Total(scores) > 400 * n * n

\* pairs: <<original, best resubmission>> of each resubmitted essay.
NonResponder(pairs) == \E pair \in pairs : pair[2] - pair[1] < 5

\* How many of the newest steps in a row go down.
Declines(scores) ==
  Max({k \in 0 .. Len(scores) : 
         \A i \in (Len(scores) - k + 1) .. Len(scores) :
           i > 1 /\ scores[i] < scores[i - 1]})

TrajectoryRisk(profile, scores) ==
  /\ Trend(profile) # "declining"
  /\ Len(scores) >= 4
  /\ Declines(scores) >= 3

Triggers == {"regression", "non_responder", "persistent_gap",
             "high_inconsistency", "trajectory_risk"}

Fires(trigger, profile, scores, inPersistentGroup, pairs) ==
  CASE trigger = "regression"         -> Regression(profile)
    [] trigger = "non_responder"      -> NonResponder(pairs)
    [] trigger = "persistent_gap"     -> PersistentGap(profile, inPersistentGroup)
    [] trigger = "high_inconsistency" -> HighInconsistency(scores)
    [] trigger = "trajectory_risk"    -> TrajectoryRisk(profile, scores)

---------------------------------------------------------------------------
(* Signals of the intervention agent, from the profile alone.              *)

Stagnant(profile) == 
  /\ AverageBelow(profile, 60)
  /\ Trend(profile) = "stable"
  /\ Len(profile) >= 3

Interventions(profile) ==
  {trigger \in {"regression", "persistent_gap", "non_responder"} :
     CASE trigger = "regression"     -> Trend(profile) = "declining"
       [] trigger = "non_responder"  -> Stagnant(profile)
       [] trigger = "persistent_gap" ->
            /\ AverageBelow(profile, 60)
            /\ Len(profile) >= 2
            /\ Trend(profile) = "stable"
            /\ ~ Stagnant(profile)}

---------------------------------------------------------------------------
(* Properties, over a set of histories *)

Swapped(h, i) == [h EXCEPT ![i] = h[i + 1], ![i + 1] = h[i]]

\* Recent grades weigh more: moving a lower score one place towards the past
\* never lowers the average (_aggregate_skill_scores).
RecencyCountsIn(histories) ==
  \A h \in histories : \A i \in 1 .. Len(h) - 1 :
    h[i] > h[i + 1] => WeightedSum(Swapped(h, i)) > WeightedSum(h)

\* The agent's thresholds "mirror" the worklist's: what it reports, the
\* worklist also reports, at the same urgency or as a gap of the same skill
\* (intervention_agent._detect_signals, worklist._check_*).
AgentMirrorsWorklistIn(histories) ==
  \A h \in histories :
    /\ "regression" \in Interventions(h) <=> Regression(h)
    /\ Interventions(h) \intersect {"persistent_gap", "non_responder"} # {}
         <=> PersistentGap(h, FALSE) /\ ~ Regression(h)
=============================================================================
