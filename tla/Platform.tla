------------------------------ MODULE Platform ------------------------------
(***************************************************************************)
(* The parts of the platform around grading: the intake of essays, their   *)
(* integrity check, exports, the session of the browser, the teacher's     *)
(* account, rosters, rubrics, recorded comments, calls of the language     *)
(* model, and the screens about a class. They share no rows, objects or    *)
(* keys that their properties are about, so a step of one leaves the       *)
(* others alone and their interleavings add nothing: a behaviour takes     *)
(* steps of one part, chosen at the start.                                 *)
(***************************************************************************)
EXTENDS EssayIntake, IntegrityCheck, ExportJob, BrowserSession,
        TeacherAccount, ClassRoster, RubricBook, MediaComments, LlmAnswer, ClassInsights

CONSTANT Parts  \* parts to consider

VARIABLE part  \* the part that takes the steps

ASSUME PlatformAssumption ==
  Parts \subseteq {"intake", "integrity", "export", "session", "account", "roster", "rubric",
                   "media", "llm", "insights"}

platformVars ==
  <<part, intakeVars, integrityVars, exportVars, sessionVars, accountVars, rosterVars,
    rubricVars, mediaVars, llmVars, insightsVars>>

PlatformInit ==
  /\ part \in Parts
  /\ IntakeInit /\ IntegrityInit /\ ExportInit /\ SessionInit
  /\ AccountInit /\ RosterInit /\ RubricInit /\ MediaInit /\ LlmInit /\ InsightsInit
  \* of the parts that rest one initial state is enough
  /\ part # "intake"    => allowed  = CHOOSE bounds \in IntakeBounds : TRUE
  /\ part # "integrity" => provider = CHOOSE name \in Providers : TRUE
  /\ part # "export"    => locked   = CHOOSE found \in LockedEssays : TRUE
  /\ part # "session"   => OpenOnes = CHOOSE open \in OpenTabs : TRUE
  /\ part # "account"   => /\ spare = CHOOSE bounds \in AccountBounds : TRUE
                           /\ account.trialEnds % Quarters = 0
  /\ part # "insights"  =>
       \A m \in Marks : /\ marks[m].scores = (CHOOSE scores \in MarkScores : TRUE)[m]
                         /\ marks[m].total = SumOfScores(marks[m].scores)
  /\ part # "llm"       => /\ llm = NewCall(CHOOSE kind \in LlmKinds : TRUE)
                           /\ grade.base.scores = CHOOSE scores \in BaseScores : TRUE

PlatformNext ==
  /\ UNCHANGED part
  /\ \/ /\ part = "intake" /\ IntakeNext
        /\ UNCHANGED <<integrityVars, exportVars, sessionVars, accountVars,
                       rosterVars, rubricVars, mediaVars, llmVars, insightsVars>>
     \/ /\ part = "integrity" /\ IntegrityNext
        /\ UNCHANGED <<intakeVars, exportVars, sessionVars, accountVars,
                       rosterVars, rubricVars, mediaVars, llmVars, insightsVars>>
     \/ /\ part = "export" /\ ExportNext
        /\ UNCHANGED <<intakeVars, integrityVars, sessionVars, accountVars,
                       rosterVars, rubricVars, mediaVars, llmVars, insightsVars>>
     \/ /\ part = "session" /\ SessionNext
        /\ UNCHANGED <<intakeVars, integrityVars, exportVars, accountVars,
                       rosterVars, rubricVars, mediaVars, llmVars, insightsVars>>
     \/ /\ part = "account" /\ AccountNext
        /\ UNCHANGED <<intakeVars, integrityVars, exportVars, sessionVars,
                       rosterVars, rubricVars, mediaVars, llmVars, insightsVars>>
     \/ /\ part = "roster" /\ RosterNext
        /\ UNCHANGED <<intakeVars, integrityVars, exportVars, sessionVars,
                       accountVars, rubricVars, mediaVars, llmVars, insightsVars>>
     \/ /\ part = "rubric" /\ RubricNext
        /\ UNCHANGED <<intakeVars, integrityVars, exportVars, sessionVars,
                       accountVars, rosterVars, mediaVars, llmVars, insightsVars>>
     \/ /\ part = "media" /\ MediaNext
        /\ UNCHANGED <<intakeVars, integrityVars, exportVars, sessionVars,
                       accountVars, rosterVars, rubricVars, llmVars, insightsVars>>
     \/ /\ part = "llm" /\ LlmNext
        /\ UNCHANGED <<intakeVars, integrityVars, exportVars, sessionVars,
                       accountVars, rosterVars, rubricVars, mediaVars, insightsVars>>
     \/ /\ part = "insights" /\ InsightsNext
        /\ UNCHANGED <<intakeVars, integrityVars, exportVars, sessionVars, accountVars,
                       rosterVars, rubricVars, mediaVars, llmVars>>

\* A worker goes on with the export it has begun.
PlatformSpec ==
  /\ PlatformInit
  /\ [][PlatformNext]_platformVars
  /\ WF_platformVars(/\ part = "export" /\ ExportStep
                     /\ UNCHANGED <<part, intakeVars, integrityVars, sessionVars, accountVars,
                                    rosterVars, rubricVars, mediaVars, llmVars, insightsVars>>)

\* Rows, objects, keys, messages, tokens and answers have their types.
PlatformTypeOK ==
  /\ IntakeTypeOK /\ IntegrityTypeOK /\ ExportTypeOK /\ SessionTypeOK
  /\ AccountTypeOK /\ RosterTypeOK /\ RubricTypeOK /\ MediaTypeOK /\ LlmTypeOK
  /\ InsightsTypeOK
=============================================================================
