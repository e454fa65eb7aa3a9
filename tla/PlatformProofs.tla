--------------------------- MODULE PlatformProofs ---------------------------
(***************************************************************************)
(* What every behaviour of the platform keeps. The model of the platform   *)
(* lets one part at a time take steps; its behaviours are behaviours of    *)
(* each part's own specification, so what the other proof modules show of  *)
(* a part alone holds of the parts together.                               *)
(***************************************************************************)
EXTENDS Platform, EssayProofs, AccountProofs, RecordsProofs

---------------------------------------------------------------------------
(* The steps of the parts *)

\* The platform starts as each of its parts does.
LEMMA PartsStart ==
  PlatformInit => /\ IntakeInit /\ IntegrityInit /\ ExportInit /\ SessionInit /\ AccountInit
                  /\ RosterInit /\ RubricInit /\ MediaInit /\ LlmInit /\ InsightsInit
BY DEF PlatformInit

\* A step of the platform is a step of a part or leaves that part alone.
LEMMA PartsStep ==
  [PlatformNext]_platformVars =>
    /\ [IntakeNext]_intakeVars
    /\ [IntegrityNext]_integrityVars
    /\ [ExportNext]_exportVars
    /\ [SessionNext]_sessionVars
    /\ [AccountNext]_accountVars
    /\ [RosterNext]_rosterVars
    /\ [RubricNext]_rubricVars
    /\ [MediaNext]_mediaVars
    /\ [LlmNext]_llmVars
    /\ [InsightsNext]_insightsVars
<1>1. CASE PlatformNext
  BY <1>1 DEF PlatformNext
<1>2. CASE UNCHANGED platformVars
  BY <1>2 DEF platformVars
<1>. QED
  BY <1>1, <1>2

LEMMA PartsBehave ==
  PlatformSpec =>
    /\ IntakeSpec
    /\ IntegritySpec
    /\ SessionSpec
    /\ AccountSpec
    /\ RosterSpec
    /\ RubricSpec
    /\ MediaSpec
    /\ LlmSpec
    /\ InsightsSpec
    /\ ExportInit /\ [][ExportNext]_exportVars
BY PartsStart, PartsStep, PTL DEF PlatformSpec, IntakeSpec, IntegritySpec, SessionSpec, AccountSpec, RosterSpec, RubricSpec, MediaSpec, LlmSpec, InsightsSpec

LEMMA PlatformExportsHold == PlatformSpec => []ExportInv
BY PartsBehave, ExportInitInv, ExportStepKeeps, PTL

---------------------------------------------------------------------------
(* Theorems *)

\* Whatever part takes the steps, the rows, objects, keys, messages, tokens and
\* answers of all parts have their types.
THEOREM PlatformTypesHold == PlatformSpec => []PlatformTypeOK
<1>1. PlatformSpec => []ExportTypeOK
  BY PlatformExportsHold, ExportTyped, PTL
<1>. QED
  BY <1>1, PartsBehave, IntakeTypesHold, IntegrityTypesHold, SessionTypesHold, AccountTypesHold,
     RosterTypesHold, RubricTypesHold, MediaTypesHold, LlmTypesHold, InsightsTypesHold, PTL
     DEF PlatformTypeOK

\* The files, reports, exports, sessions, mails, counters, rosters, rubrics,
\* recordings, answers and screens keep what they promise together, not only
\* when their part runs alone, and snapshots stay in their places.
THEOREM PlatformIsSafe ==
  PlatformSpec =>
    /\ SnapshotsAreKept
    /\ [](/\ FilesMatchVersions /\ SignalsAreFaithful /\ SignalsAreCurrent
          /\ ReportsAreKept
          /\ CompleteIsDownloadable
          /\ RefreshIsSafe
          /\ MailsAreAccountedFor /\ CountersExpire /\ LinksWorkOnce
          /\ ReimportAddsNothing
          /\ WeightsAreWhole
          /\ CommentsCanBePlayed
          /\ AnswersFitTheRubric /\ ComparisonAddsUp
          /\ ScreensAgree)
<1>1. ExportInv => CompleteIsDownloadable
  BY DEF ExportInv
<1>2. PlatformSpec => []CompleteIsDownloadable
  BY <1>1, PlatformExportsHold, PTL
<1>. QED
  BY <1>2, PartsBehave, FilesAlwaysMatchVersions, SignalsAreAlwaysFaithful,
     CachedSignalsAreAlwaysCurrent, SnapshotsAreAlwaysKept, ReportsAreAlwaysKept, RefreshIsAlwaysSafe,
     MailsAreAlwaysAccountedFor, CountersAlwaysExpire, LinksAlwaysWorkOnce, ReimportNeverAdds,
     WeightsAreAlwaysWhole, CommentsCanAlwaysBePlayed, AnswersAlwaysFitTheRubric,
     ComparisonsAlwaysAddUp, ScreensAlwaysAgree, PTL
=============================================================================
