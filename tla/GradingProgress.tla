-------------------------- MODULE GradingProgress --------------------------
(***************************************************************************)
(* The Redis hash that tracks one batch-grading run of one assignment      *)
(* (backend/app/services/grading_progress.py).  Every operator is one      *)
(* pipeline or Lua script of that file, which Redis executes atomically.   *)
(*                                                                         *)
(* A hash field that is absent reads as 0 (total, complete, failed) or     *)
(* "none" (the per-essay status s:{id}).  total is never written as 0: a   *)
(* trigger with no essays is refused before the hash is written, so        *)
(* total = 0 stands for "the field total is absent".  Names and error      *)
(* texts (n:{id}, e:{id}) are display data and are left out.               *)
(***************************************************************************)
EXTENDS Integers, FiniteSets

CONSTANT Essays          \* the essays of the assignment

ASSUME EssaysAssumption == IsFiniteSet(Essays)

EssayField == {"none", "queued", "grading", "complete", "failed"}

Progress == [total : Nat, complete : Nat, failed : Int,
             field : [Essays -> EssayField]]

\* No hash: never initialised, or its TTL elapsed.
NoProgress == [total |-> 0, complete |-> 0, failed |-> 0,
               field |-> [e \in Essays |-> "none"]]

InitializeProgress(batch) ==
  [total |-> Cardinality(batch), complete |-> 0, failed |-> 0,
   field |-> [e \in Essays |-> IF e \in batch THEN "queued" ELSE "none"]]

MarkEssayGrading(p, e) == [p EXCEPT !.field[e] = "grading"]

\* The counter moves only when the field existed and was not terminal already.
MarkEssayComplete(p, e) ==
  IF p.total = 0 \/ p.field[e] = "complete"
  THEN p
  ELSE [p EXCEPT !.field[e] = "complete",
                 !.complete = IF p.field[e] = "none" THEN @ ELSE @ + 1]

MarkEssayFailed(p, e) ==
  IF p.total = 0 \/ p.field[e] = "failed"
  THEN p
  ELSE [p EXCEPT !.field[e] = "failed",
                 !.failed = IF p.field[e] = "none" THEN @ ELSE @ + 1]

\* Mutant: the counter is not decremented.
ResetFieldOnly(p, e) ==
  IF p.field[e] = "failed" THEN [p EXCEPT !.field[e] = "queued"] ELSE p

ResetEssayForRetry(p, e) ==
  IF p.field[e] = "failed"
  THEN [p EXCEPT !.field[e] = "queued", !.failed = @ - 1]
  ELSE p

\* Mutant: off by one.
IsBatchNearlyComplete(p) == p.total > 0 /\ p.complete + p.failed >= p.total - 1

\* tasks/grading.py: every essay of the batch has a terminal outcome.
IsBatchComplete(p) == p.total > 0 /\ p.complete + p.failed >= p.total

\* get_progress, get_grading_status and _derive_batch_status: what the
\* teacher's panel shows for the batch.
BatchStatus(p) ==
  IF p = NoProgress                          THEN "idle"
  ELSE IF p.complete + p.failed < p.total    THEN "processing"
  ELSE IF p.failed = 0                       THEN "complete"
  ELSE IF p.complete = 0                     THEN "failed"
  ELSE                                            "partial"
=============================================================================
