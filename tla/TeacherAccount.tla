--------------------------- MODULE TeacherAccount ---------------------------
(***************************************************************************)
(* A teacher's account from sign-up to the end of the trial, and the       *)
(* public contact forms: the rate counters in Redis, verification links,   *)
(* the mail tasks with their retries and audit entries, and the daily scan *)
(* for trials that end (services/auth.py, contact.py, dpa.py,              *)
(* tasks/email.py). All visits come from one address and concern one       *)
(* e-mail.                                                                 *)
(*                                                                         *)
(* Time is counted in quarters of a day; requests, scans and mails end     *)
(* within a quarter, unless a worker is late.                              *)
(***************************************************************************)
EXTENDS Integers, Sequences, FiniteSets

CONSTANTS
  Visits,         \* request handlers
  SignupLimit,    \* _SIGNUP_RATE_LIMIT_MAX, and that of the contact forms
  ResendLimit,    \* _RESEND_RATE_LIMIT_MAX
  MaxMailRetries, \* max_retries of the mail tasks
  TrialDays,      \* _TRIAL_DURATION_DAYS
  MaxLinks,       \* bound: verification links issued
  AccountBounds   \* bounds a behaviour may run under: the counted requests it
                  \* has, calls, faults, late scans, days; timely: no fault so far

ASSUME AccountAssumption ==
  /\ SignupLimit \in Nat \ {0} /\ ResendLimit \in Nat \ {0}
  /\ MaxMailRetries \in Nat /\ MaxLinks \in Nat /\ IsFiniteSet(Visits)
  \* the first mail about the end of a trial comes after its first day
  /\ TrialDays \in Nat /\ TrialDays > 7
  /\ AccountBounds \subseteq [uses : SUBSET {"signup", "resend", "inquiry", "dpa"},
                             calls : Nat, faults : Nat, late : Nat, days : Nat, timely : BOOLEAN]

VARIABLES
  account,  \* the row of users
  links,    \* verification links: issued, in Redis, received, used
  counter,  \* rate counter -> its value, and whether it expires
  visit,    \* handler -> where its request is
  outbox,   \* mail tasks that have not ended
  mails,    \* kind -> history: how many were ordered, sent and logged
  clock,    \* quarters of a day
  scans,    \* scans that have not ended
  spare     \* what remains of the bounds

accountVars == <<account, links, counter, visit, outbox, mails, clock, scans, spare>>

---------------------------------------------------------------------------
(* Data *)

Link == 1 .. MaxLinks

Counters == {"signup", "resend", "inquiry", "dpa"}

LimitOf(key) == IF key = "resend" THEN ResendLimit ELSE SignupLimit

Quarters == 4

\* The scan is fired at 06:00.
ScanQuarter == 1

Day(time) == time \div Quarters

TrialMails == {"seven", "one", "expired"}

\* Mails to the teacher that leave an email_sent entry.
LoggedMails == TrialMails \union {"welcome"}

MailKinds == LoggedMails \union {"verification", "inquiry", "dpa"}

\* id: which link a verification mail carries, else the number of the mail.
MailTask == [kind : MailKinds, id : Nat, tries : 0 .. MaxMailRetries,
             sent : BOOLEAN]

NoVisit == [pc |-> "idle", op |-> "none", link |-> 0, seen |-> FALSE]

NoAccount == [exists |-> FALSE, verified |-> FALSE, trialEnds |-> 0]

AccountInit ==
  /\ spare \in AccountBounds
  /\ \/ spare.days = 0 /\ account = NoAccount
     \* verified earlier this day
     \/ /\ spare.days > 0
        /\ \E quarter \in 0 .. Quarters - 1 :
             account = [exists |-> TRUE, verified |-> TRUE,
                        trialEnds |-> TrialDays * Quarters + quarter]
  /\ links = [issued |-> 0, live |-> {}, received |-> {}, used |-> {}]
  /\ counter = [key \in Counters |-> [n |-> 0, expires |-> FALSE]]
  /\ visit = [v \in Visits |-> NoVisit]
  /\ outbox = {}
  /\ mails = [kind \in MailKinds |-> [ordered |-> 0, sent |-> 0, logged |-> 0]]
  /\ clock = account.trialEnds % Quarters
  /\ scans = {}

Setback ==
  /\ spare.faults > 0
  /\ spare' = [spare EXCEPT !.faults = @ - 1, !.timely = FALSE]

\* A mail task is put into the queue.
Enqueue(kind, id) ==
  /\ outbox' = outbox \union {[kind |-> kind, id |-> id, tries |-> 0, sent |-> FALSE]}
  /\ mails' = [mails EXCEPT ![kind].ordered = @ + 1]

\* For an endpoint; if the broker is down, this is logged and nothing else.
Order(kind, id) ==
  \/ Enqueue(kind, id) /\ UNCHANGED spare
  \/ Setback /\ UNCHANGED <<outbox, mails>>

Answer(v) == visit' = [visit EXCEPT ![v] = NoVisit]

VisitAt(v, pc) == visit[v].pc = pc

Goto(v, pc) == visit' = [visit EXCEPT ![v].pc = pc]

---------------------------------------------------------------------------
(* Rate counters *)

\* INCR, which begins the request. Over the limit it is refused, but not
\* before the first of a window has had EXPIRE.
CountRequest(v, key) ==
  /\ VisitAt(v, "idle") /\ spare.calls > 0
  /\ spare' = [spare EXCEPT !.calls = @ - 1]
  /\ counter' = [counter EXCEPT ![key].n = @ + 1]
  /\ LET n == counter[key].n + 1
     IN visit' = IF n > LimitOf(key) THEN visit
                 ELSE [visit EXCEPT ![v] = [NoVisit EXCEPT
                         !.pc = IF n = 1 THEN "window" ELSE "counted", !.op = key]]
  /\ UNCHANGED <<account, links, outbox, mails, clock, scans>>

\* Mutant: EXPIRE when the limit is reached.
SetWindowLate(v) ==
  /\ VisitAt(v, "window")
  /\ counter' = [counter EXCEPT ![visit[v].op].expires = (LimitOf(visit[v].op) = 1)]
  /\ Goto(v, "counted")
  /\ UNCHANGED <<account, links, outbox, mails, clock, scans, spare>>

SetWindow(v) ==
  /\ VisitAt(v, "window")
  /\ counter' = [counter EXCEPT ![visit[v].op].expires = TRUE]
  /\ Goto(v, "counted")
  /\ UNCHANGED <<account, links, outbox, mails, clock, scans, spare>>

WindowEnds(key) ==
  /\ counter[key].expires
  /\ counter' = [counter EXCEPT ![key] = [n |-> 0, expires |-> FALSE]]
  /\ UNCHANGED <<account, links, visit, outbox, mails, clock, scans, spare>>

---------------------------------------------------------------------------
(* Sign-up, resend, contact forms *)

CheckEmail(v) ==
  /\ VisitAt(v, "counted") /\ visit[v].op = "signup"
  /\ IF account.exists THEN Answer(v) ELSE Goto(v, "insert")
  /\ UNCHANGED <<account, links, counter, outbox, mails, clock, scans, spare>>

\* The password was hashed meanwhile; the key on the e-mail refuses a second row.
CreateUser(v) ==
  /\ VisitAt(v, "insert")
  /\ IF account.exists
     THEN Answer(v) /\ UNCHANGED account
     ELSE Goto(v, "issue") /\ account' = [account EXCEPT !.exists = TRUE]
  /\ UNCHANGED <<links, counter, outbox, mails, clock, scans, spare>>

ResendVerification(v) ==
  /\ VisitAt(v, "counted") /\ visit[v].op = "resend"
  /\ IF ~account.exists \/ account.verified THEN Answer(v) ELSE Goto(v, "issue")
  /\ UNCHANGED <<account, links, counter, outbox, mails, clock, scans, spare>>

StoreVerificationToken(v) ==
  /\ VisitAt(v, "issue") /\ links.issued < MaxLinks
  /\ LET link == links.issued + 1
     IN /\ links' = [links EXCEPT !.issued = link, !.live = @ \union {link}]
        /\ visit' = [visit EXCEPT ![v].pc = "order", ![v].link = link]
  /\ UNCHANGED <<account, counter, outbox, mails, clock, scans, spare>>

OrderVerification(v) ==
  /\ VisitAt(v, "order")
  /\ Order("verification", visit[v].link)
  /\ Answer(v)
  /\ UNCHANGED <<account, links, counter, clock, scans>>

\* The form is stored, then the notification ordered.
CreateInquiry(v) ==
  /\ VisitAt(v, "counted") /\ visit[v].op = "inquiry"
  /\ Order("inquiry", mails["inquiry"].ordered + 1)
  /\ Answer(v)
  /\ UNCHANGED <<account, links, counter, clock, scans>>

CreateDpaRequest(v) ==
  /\ VisitAt(v, "counted") /\ visit[v].op = "dpa"
  /\ Order("dpa", mails["dpa"].ordered + 1)
  /\ Answer(v)
  /\ UNCHANGED <<account, links, counter, clock, scans>>

---------------------------------------------------------------------------
(* Verification *)

\* Mutant: GET, and the link stays.
ConsumeLinkNot(v, link) ==
  /\ VisitAt(v, "idle") /\ spare.calls > 0
  /\ link \in links.received \intersect links.live
  /\ spare' = [spare EXCEPT !.calls = @ - 1]
  /\ links' = [links EXCEPT !.used = @ \union {link}]
  /\ visit' = [visit EXCEPT ![v] = [NoVisit EXCEPT !.pc = "verify"]]
  /\ UNCHANGED <<account, counter, outbox, mails, clock, scans>>

\* GETDEL; a link that is not in Redis is answered 422.
ConsumeVerificationToken(v, link) ==
  /\ VisitAt(v, "idle") /\ spare.calls > 0
  /\ link \in links.received \intersect links.live
  /\ spare' = [spare EXCEPT !.calls = @ - 1]
  /\ links' = [links EXCEPT !.live = @ \ {link}, !.used = @ \union {link}]
  /\ visit' = [visit EXCEPT ![v] = [NoVisit EXCEPT !.pc = "verify"]]
  /\ UNCHANGED <<account, counter, outbox, mails, clock, scans>>

ReadUser(v) ==
  /\ VisitAt(v, "verify")
  /\ visit' = [visit EXCEPT ![v].pc = "mark", ![v].seen = account.verified]
  /\ UNCHANGED <<account, links, counter, outbox, mails, clock, scans, spare>>

\* An account that was verified keeps its trial.
MarkVerified(v) ==
  /\ VisitAt(v, "mark")
  /\ account' = [account EXCEPT !.verified = TRUE,
       !.trialEnds = IF visit[v].seen THEN @ ELSE clock + TrialDays * Quarters]
  /\ Goto(v, "welcome")
  /\ UNCHANGED <<links, counter, outbox, mails, clock, scans, spare>>

OrderWelcome(v) ==
  /\ VisitAt(v, "welcome")
  /\ Order("welcome", mails["welcome"].ordered + 1)
  /\ Answer(v)
  /\ UNCHANGED <<account, links, counter, clock, scans>>

VisitDies(v) ==
  /\ visit[v].pc # "idle"
  /\ Setback
  /\ Answer(v)
  /\ UNCHANGED <<account, links, counter, outbox, mails, clock, scans>>

---------------------------------------------------------------------------
(* Mail tasks *)

Replace(task, tasks) == outbox' = (outbox \ {task}) \union tasks

SendMail(task) ==
  /\ ~task.sent
  /\ mails' = [mails EXCEPT ![task.kind].sent = @ + 1]
  /\ links' = IF task.kind = "verification"
              THEN [links EXCEPT !.received = @ \union {task.id}] ELSE links
  /\ Replace(task, IF task.kind \in LoggedMails THEN {[task EXCEPT !.sent = TRUE]} ELSE {})
  /\ UNCHANGED <<account, counter, visit, clock, scans, spare>>

\* Mutant: the task keeps the entry for the retry it may need.
WriteEmailAuditLogAndStay(task) ==
  /\ task.sent
  /\ mails' = [mails EXCEPT ![task.kind].logged = @ + 1]
  /\ Replace(task, IF task.tries < MaxMailRetries
                   THEN {[task EXCEPT !.tries = @ + 1, !.sent = FALSE]} ELSE {})
  /\ UNCHANGED <<account, links, counter, visit, clock, scans, spare>>

WriteEmailAuditLog(task) ==
  /\ task.sent
  /\ mails' = [mails EXCEPT ![task.kind].logged = @ + 1]
  /\ Replace(task, {})
  /\ UNCHANGED <<account, links, counter, visit, clock, scans, spare>>

\* SMTP, or the connection of the audit entry, raises; the task begins again,
\* with the mail, until its retries are used up.
RetryMail(task) ==
  /\ Setback
  /\ Replace(task, IF task.tries < MaxMailRetries
                   THEN {[task EXCEPT !.tries = @ + 1, !.sent = FALSE]} ELSE {})
  /\ UNCHANGED <<account, links, counter, visit, mails, clock, scans>>

\* The worker dies, or the database refuses the entry: the task is gone.
MailerDies(task) ==
  /\ Setback
  /\ Replace(task, {})
  /\ UNCHANGED <<account, links, counter, visit, mails, clock, scans>>

---------------------------------------------------------------------------
(* The daily scan *)

\* The windows of the scan, in the order it goes through them.
Windows == <<[kind |-> "seven", days |-> 7], [kind |-> "one", days |-> 1],
             [kind |-> "expired", days |-> 0]>>

\* Mutant: the trials that end today, when none of them has ended yet.
InWindowToday(days) ==
  /\ account.verified
  /\ Day(account.trialEnds) = Day(clock) + days
  /\ days = 0 => account.trialEnds <= clock

InWindow(days) ==
  /\ account.verified
  /\ Day(account.trialEnds) = IF days = 0 THEN Day(clock) - 1 ELSE Day(clock) + days
  /\ days = 0 => account.trialEnds <= clock

\* One query, and a mail for each teacher it finds.
ScanWindow(scan) ==
  LET window == Windows[scan.next]
  IN /\ scans' = (scans \ {scan}) \union
                   IF scan.next = Len(Windows) THEN {} ELSE {[scan EXCEPT !.next = @ + 1]}
     /\ IF InWindow(window.days)
        THEN Enqueue(window.kind, mails[window.kind].ordered + 1)
        ELSE UNCHANGED <<outbox, mails>>
     /\ UNCHANGED <<account, links, counter, visit, clock, spare>>

\* The worker dies, or the broker is down.
ScanDies(scan) ==
  /\ Setback
  /\ scans' = scans \ {scan}
  /\ UNCHANGED <<account, links, counter, visit, outbox, mails, clock>>

Begun == {scan \in scans : scan.next > 1}

\* A quarter of a day passes. What has begun has ended, and a scan waits for
\* a worker no longer than that, unless the workers are late.
Tick ==
  /\ clock < spare.days * Quarters
  /\ outbox = {} /\ Begun = {} /\ \A v \in Visits : VisitAt(v, "idle")
  /\ scans # {} => spare.late > 0
  /\ spare' = IF scans = {} THEN spare ELSE [spare EXCEPT !.late = @ - 1, !.timely = FALSE]
  /\ clock' = clock + 1
  /\ scans' = IF clock' % Quarters = ScanQuarter
              THEN scans \union {[day |-> Day(clock'), next |-> 1]} ELSE scans
  /\ UNCHANGED <<account, links, counter, visit, outbox, mails>>

---------------------------------------------------------------------------

VisitStep(v) ==
  \/ \E key \in spare.uses : CountRequest(v, key)
  \/ SetWindow(v)
  \/ CheckEmail(v) \/ CreateUser(v)
  \/ ResendVerification(v) \/ StoreVerificationToken(v) \/ OrderVerification(v)
  \/ CreateInquiry(v) \/ CreateDpaRequest(v)
  \/ \E link \in Link : ConsumeVerificationToken(v, link)
  \/ ReadUser(v) \/ MarkVerified(v) \/ OrderWelcome(v)
  \/ VisitDies(v)

MailStep(task) == SendMail(task) \/ WriteEmailAuditLog(task) \/ RetryMail(task) \/ MailerDies(task)

AccountNext ==
  \/ \E v \in Visits : VisitStep(v)
  \/ \E key \in Counters : WindowEnds(key)
  \/ \E task \in outbox : MailStep(task)
  \/ \E scan \in scans : ScanWindow(scan) \/ ScanDies(scan)
  \/ Tick

AccountSpec == AccountInit /\ [][AccountNext]_accountVars

---------------------------------------------------------------------------
(* Properties *)

\* Rows, links, counters, requests and tasks have their types.
AccountTypeOK ==
  /\ account \in [exists : BOOLEAN, verified : BOOLEAN, trialEnds : Nat]
  /\ account.verified => account.exists /\ account.trialEnds > 0
  /\ links.issued \in Nat
  /\ \A set \in {links.live, links.received, links.used} : set \subseteq 1 .. links.issued
  /\ counter \in [Counters -> [n : Nat, expires : BOOLEAN]]
  /\ visit \in [Visits -> [pc : {"idle", "window", "counted", "insert", "issue", "order",
                                 "verify", "mark", "welcome"},
                           op : Counters \union {"none"}, link : Nat, seen : BOOLEAN]]
  /\ outbox \subseteq MailTask
  /\ clock \in Nat

DueDay(kind) == Day(account.trialEnds) +
                CASE kind = "seven" -> -7 [] kind = "one" -> -1 [] kind = "expired" -> 1

ScanTime(day) == day * Quarters + ScanQuarter

\* The teacher is told once, seven days and one day before the trial ends and
\* after it has ended, by the scan of that day and of no other, when no scan
\* dies or waits for a worker until another day (scan_trial_expirations).
TrialMailsComeOnce ==
  spare.timely /\ spare.days > 0 =>
    \A kind \in TrialMails :
      LET due == ScanTime(DueDay(kind))
      IN /\ clock < due => mails[kind].ordered = 0
         /\ clock = due => mails[kind].ordered <= 1
         /\ clock > due => mails[kind].ordered = 1

\* A link verifies once: there is one welcome for each that was used, also
\* when it is opened in two windows, or two links are (verify_email).
LinksWorkOnce == mails["welcome"].ordered <= Cardinality(links.used)

\* And an email_sent entry stands for a mail that was sent, one for one order;
\* a mail is sent twice only if its entry could not be written.
MailLogIsTrue ==
  \A kind \in LoggedMails :
    /\ mails[kind].logged <= mails[kind].sent
    /\ mails[kind].logged <= mails[kind].ordered
    /\ spare.timely => mails[kind].sent <= mails[kind].ordered

\* Links, the mails of the trial and the log of the mails keep to the three
\* properties above.
MailsAreAccountedFor == LinksWorkOnce /\ TrialMailsComeOnce /\ MailLogIsTrue

\* A counter that has begun expires, unless its first request died on the way:
\* nobody is kept out for ever.
CountersExpire ==
  \A key \in Counters :
    counter[key].n > 0 /\ spare.timely =>
      counter[key].expires \/ \E v \in Visits : VisitAt(v, "window") /\ visit[v].op = key
=============================================================================
