------------------------------ MODULE ExportJob ------------------------------
(***************************************************************************)
(* One PDF export of an assignment: the handler that creates the record in *)
(* Redis and sends the task, the task that builds the ZIP and reports its  *)
(* progress in the record, its retries, and the expiry of the record.      *)
(*                                                                         *)
(* Every command to Redis, commit and upload is an action. The essays are  *)
(* numbers: how many can be exported and how many are skipped, for want of *)
(* a student or of a locked grade.                                         *)
(***************************************************************************)
EXTENDS Integers

CONSTANTS
  LockedEssays,  \* what the query may find: [fit, unfit], numbers of essays
  MaxExportRetries,
  ExportFaults,  \* bound: failures of Redis, S3, the database, a PDF, a process
  NoJob,         \* the key does not exist
  NoTask         \* the broker holds no message of this export

ASSUME ExportAssumption ==
  /\ LockedEssays \subseteq [fit : Nat, unfit : Nat]
  /\ MaxExportRetries \in Nat

VARIABLES
  job,       \* the hash export:{task_id}
  zip,       \* the ZIP is in the bucket
  locked,    \* the locked essays of the assignment
  request,   \* where trigger_export is
  message,   \* retries so far of the task in the broker, or NoTask
  exporter,  \* the task that runs
  trouble    \* what remains of the bound, and whether a failure went unreported

exportVars == <<job, zip, locked, request, message, exporter, trouble>>

---------------------------------------------------------------------------

\* owned: the hash has teacher_id; expires: it has a time to live.
Job == [status : {"pending", "processing", "complete", "failed"}, total : Nat,
        complete : Nat, file : BOOLEAN, owned : BOOLEAN, expires : BOOLEAN]

ASSUME NoJobAssumption == NoJob \notin Job

\* What the readers take absent fields for.
Blank == [status |-> "pending", total |-> 0, complete |-> 0, file |-> FALSE,
          owned |-> FALSE, expires |-> FALSE]

\* HSET creates the key if it has expired.
Current == IF job = NoJob THEN Blank ELSE job

NoRun == [pc |-> "idle", retries |-> 0, fit |-> 0, unfit |-> 0, complete |-> 0, skipped |-> 0]

ExportInit ==
  /\ job = NoJob
  /\ zip = FALSE
  /\ locked \in LockedEssays
  /\ request = "create"
  /\ message = NoTask
  /\ exporter = NoRun
  /\ trouble = [faults |-> ExportFaults, mute |-> FALSE]

Trouble == trouble.faults > 0 /\ trouble' = [trouble EXCEPT !.faults = @ - 1]

Write(fields) == job' = fields

\* Something fails, and that is reported if Redis does not fail as well.
ReportFailure ==
  \/ Trouble /\ Write([Current EXCEPT !.status = "failed"])
  \/ /\ trouble.faults > 1
     /\ trouble' = [faults |-> trouble.faults - 2, mute |-> TRUE]
     /\ UNCHANGED job

---------------------------------------------------------------------------
(* trigger_export *)

CreateRecord ==
  /\ request = "create"
  /\ job' = [Blank EXCEPT !.owned = TRUE]
  /\ request' = "expire"
  /\ UNCHANGED <<zip, locked, message, exporter, trouble>>

SetTtl ==
  /\ request = "expire"
  /\ job' = [job EXCEPT !.expires = TRUE]
  /\ request' = "audit"
  /\ UNCHANGED <<zip, locked, message, exporter, trouble>>

CommitAudit ==
  /\ request = "audit"
  /\ request' = "send"
  /\ UNCHANGED <<job, zip, locked, message, exporter, trouble>>

\* If the task cannot be sent the call raises, and the record is marked failed
\* if Redis can be reached.
Send ==
  /\ request = "send"
  /\ \/ /\ message' = 0
        /\ request' = "answered"
        /\ UNCHANGED <<job, trouble>>
     \/ /\ ReportFailure
        /\ request' = "raised"
        /\ UNCHANGED message
  /\ UNCHANGED <<zip, locked, exporter>>

\* Any other failure leaves things as they are.
RaiseRequest ==
  /\ request \notin {"answered", "raised"}
  /\ Trouble
  /\ request' = "raised"
  /\ UNCHANGED <<job, zip, locked, message, exporter>>

---------------------------------------------------------------------------
(* export_assignment *)

Running(pc) == exporter.pc = pc

\* Fields of an earlier attempt are reset.
StartExport ==
  /\ Running("idle")
  /\ message # NoTask
  /\ exporter' = [NoRun EXCEPT !.pc = "load", !.retries = message]
  /\ message' = NoTask
  /\ Write([Current EXCEPT !.status = "processing", !.complete = 0, !.total = 0])
  /\ UNCHANGED <<zip, locked, request, trouble>>

LoadEssays ==
  /\ Running("load")
  /\ IF locked.fit + locked.unfit = 0
     THEN /\ Write([Current EXCEPT !.status = "failed"])
          /\ exporter' = NoRun
     ELSE /\ Write([Current EXCEPT !.total = locked.fit + locked.unfit])
          /\ exporter' = [exporter EXCEPT !.pc = "pdf", !.fit = locked.fit,
                                          !.unfit = locked.unfit]
  /\ UNCHANGED <<zip, locked, request, message, trouble>>

AddPdf ==
  /\ Running("pdf")
  /\ exporter.fit > 0
  /\ exporter' = [exporter EXCEPT !.fit = @ - 1, !.complete = @ + 1]
  /\ Write([Current EXCEPT !.complete = exporter.complete + 1])
  /\ UNCHANGED <<zip, locked, request, message, trouble>>

SkipEssay ==
  /\ Running("pdf")
  /\ exporter.unfit > 0
  /\ exporter' = [exporter EXCEPT !.unfit = @ - 1, !.skipped = @ + 1]
  /\ UNCHANGED <<job, zip, locked, request, message, trouble>>

\* Mutant: the total keeps counting the essays skipped.
CloseZipKeepTotal ==
  /\ Running("pdf")
  /\ exporter.fit = 0 /\ exporter.unfit = 0
  /\ exporter' = [exporter EXCEPT !.pc = "zipped"]
  /\ UNCHANGED <<job, zip, locked, request, message, trouble>>

\* The total is corrected for the essays skipped.
CloseZip ==
  /\ Running("pdf")
  /\ exporter.fit = 0 /\ exporter.unfit = 0
  /\ IF exporter.skipped > 0 THEN Write([Current EXCEPT !.total = exporter.complete])
     ELSE UNCHANGED job
  /\ exporter' = [exporter EXCEPT !.pc = "zipped"]
  /\ UNCHANGED <<zip, locked, request, message, trouble>>

\* An export without any PDF fails.
RefuseEmptyZip ==
  /\ Running("zipped")
  /\ exporter.complete = 0
  /\ Write([Current EXCEPT !.status = "failed"])
  /\ exporter' = NoRun
  /\ UNCHANGED <<zip, locked, request, message, trouble>>

\* Mutant: the task returns without a word when the upload fails.
UploadZipSilently ==
  /\ Running("zipped")
  /\ exporter.complete > 0
  /\ \/ /\ zip' = TRUE
        /\ exporter' = [exporter EXCEPT !.pc = "report"]
        /\ UNCHANGED trouble
     \/ /\ Trouble
        /\ exporter' = NoRun
        /\ UNCHANGED zip
  /\ UNCHANGED <<job, locked, request, message>>

\* An upload that fails is not retried.
UploadZip ==
  /\ Running("zipped")
  /\ exporter.complete > 0
  /\ \/ /\ zip' = TRUE
        /\ exporter' = [exporter EXCEPT !.pc = "report"]
        /\ UNCHANGED <<job, trouble>>
     \/ /\ Trouble
        /\ Write([Current EXCEPT !.status = "failed"])
        /\ exporter' = NoRun
        /\ UNCHANGED zip
  /\ UNCHANGED <<locked, request, message>>

MarkComplete ==
  /\ Running("report")
  /\ Write([Current EXCEPT !.status = "complete", !.file = TRUE])
  /\ exporter' = [exporter EXCEPT !.pc = "extend"]
  /\ UNCHANGED <<zip, locked, request, message, trouble>>

ExtendTtl ==
  /\ Running("extend")
  /\ IF job = NoJob THEN UNCHANGED job ELSE Write([job EXCEPT !.expires = TRUE])
  /\ exporter' = NoRun
  /\ UNCHANGED <<zip, locked, request, message, trouble>>

\* Mutant: one retry too many.
RaiseExportOnceMore ==
  /\ ~ Running("idle")
  /\ ReportFailure
  /\ message' = IF exporter.retries <= MaxExportRetries THEN exporter.retries + 1 ELSE NoTask
  /\ exporter' = NoRun
  /\ UNCHANGED <<zip, locked, request>>

\* Any other exception: it is reported, and the task runs again while retries
\* remain.
RaiseExport ==
  /\ ~ Running("idle")
  /\ ReportFailure
  /\ message' = IF exporter.retries < MaxExportRetries THEN exporter.retries + 1 ELSE NoTask
  /\ exporter' = NoRun
  /\ UNCHANGED <<zip, locked, request>>

\* The worker dies; the task was acknowledged when it began.
ExporterDies ==
  /\ ~ Running("idle")
  /\ trouble.faults > 0
  /\ trouble' = [faults |-> trouble.faults - 1, mute |-> TRUE]
  /\ exporter' = NoRun
  /\ UNCHANGED <<job, zip, locked, request, message>>

Expire ==
  /\ job # NoJob
  /\ job.expires
  /\ job' = NoJob
  /\ UNCHANGED <<zip, locked, request, message, exporter, trouble>>

RequestStep == CreateRecord \/ SetTtl \/ CommitAudit \/ Send

ExportStep ==
  \/ StartExport  \/ LoadEssays \/ AddPdf       \/ SkipEssay
  \/ CloseZip     \/ RefuseEmptyZip
  \/ UploadZip    \/ MarkComplete \/ ExtendTtl

ExportNext ==
  \/ RequestStep \/ RaiseRequest
  \/ ExportStep  \/ RaiseExport \/ ExporterDies
  \/ Expire

ExportSpec ==
  /\ ExportInit
  /\ [][ExportNext]_exportVars
  /\ WF_exportVars(ExportStep)

---------------------------------------------------------------------------
(* Properties *)

ExportTypeOK ==
  /\ job \in Job \union {NoJob}
  /\ message \in 0 .. MaxExportRetries \union {NoTask}
  /\ exporter.fit + exporter.complete <= locked.fit

\* An export shown as complete can be downloaded: its ZIP is in the bucket, its
\* key in the record, and the progress reads n of n for the n essays that could
\* be exported, whatever was skipped, failed and tried again. (A record that
\* expired while the task ran and was created anew is not shown to anybody.)
CompleteIsDownloadable ==
  job # NoJob => (job.status = "complete" /\ job.owned =>
    job.file /\ zip /\ job.total = locked.fit /\ job.complete = locked.fit)

\* An export whose id the teacher was given does not stay pending or processing
\* for ever, unless its worker dies or cannot report: it ends complete or failed,
\* or its record has expired.
ExportsEnd ==
  request = "answered" ~>
    trouble.mute \/ job = NoJob \/ ~ job.owned \/ job.status \in {"complete", "failed"}
=============================================================================
