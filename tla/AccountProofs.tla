--------------------------- MODULE AccountProofs ----------------------------
(* Theorems about the teacher's account and the session of the browser:
   TeacherAccount and BrowserSession, for all limits and bounds. *)
EXTENDS TeacherAccount, BrowserSession, FiniteSetTheorems, TLAPS

-----------------------------------------------------------------------------
(* The account: types *)

VisitSteps == {"idle", "window", "counted", "insert", "issue", "order", "verify", "mark", "welcome"}

VisitState == [pc : VisitSteps, op : Counters \union {"none"}, link : Nat, seen : BOOLEAN]

Allowance == [uses : SUBSET {"signup", "resend", "inquiry", "dpa"},
              calls : Nat, faults : Nat, late : Nat, days : Nat, timely : BOOLEAN]

LinkTable == [issued : Nat, live : SUBSET Nat, received : SUBSET Nat, used : SUBSET Nat]

MailCount == [ordered : Nat, sent : Nat, logged : Nat]

Scan == [day : Int, next : 1 .. 3]

RequestTypes ==
  /\ counter \in [Counters -> [n : Nat, expires : BOOLEAN]]
  /\ visit \in [Visits -> VisitState]
  /\ spare \in Allowance

MailTypes ==
  /\ account \in [exists : BOOLEAN, verified : BOOLEAN, trialEnds : Nat]
  /\ links \in LinkTable
  /\ mails \in [MailKinds -> MailCount]
  /\ outbox \subseteq [kind : MailKinds, id : Nat, tries : Int, sent : BOOLEAN]
  /\ scans \subseteq Scan
  /\ clock \in Nat

AccountTypes == RequestTypes /\ MailTypes

LEMMA NoVisitType == NoVisit \in VisitState /\ NoVisit.pc = "idle"
BY DEF NoVisit, VisitState, VisitSteps

\* One handler moves, the others stay.
LEMMA SetVisit ==
  ASSUME RequestTypes, NEW v \in Visits, NEW new \in VisitState,
         visit' = [visit EXCEPT ![v] = new]
  PROVE  /\ visit' \in [Visits -> VisitState]
         /\ visit'[v] = new
         /\ \A u \in Visits \ {v} : visit'[u] = visit[u]
BY DEF RequestTypes

LEMMA AnswerStep ==
  ASSUME RequestTypes, NEW v \in Visits, Answer(v)
  PROVE  /\ visit' \in [Visits -> VisitState]
         /\ visit'[v].pc = "idle"
         /\ \A u \in Visits \ {v} : visit'[u] = visit[u]
BY NoVisitType, SetVisit DEF Answer

LEMMA GotoStep ==
  ASSUME RequestTypes, NEW v \in Visits, NEW pc \in VisitSteps, Goto(v, pc)
  PROVE  /\ visit' \in [Visits -> VisitState]
         /\ visit'[v].pc = pc /\ visit'[v].op = visit[v].op
         /\ \A u \in Visits \ {v} : visit'[u] = visit[u]
<1>. DEFINE new == [visit[v] EXCEPT !.pc = pc]
<1>1. visit[v] \in VisitState
  BY DEF RequestTypes
<1>2. new \in VisitState /\ new.pc = pc /\ new.op = visit[v].op
  BY <1>1 DEF VisitState
<1>3. visit' = [visit EXCEPT ![v] = new]
  BY DEF Goto
<1>. HIDE DEF new
<1>. QED
  BY <1>2, <1>3, SetVisit

LEMMA SetbackStep ==
  ASSUME RequestTypes, Setback
  PROVE  spare' \in Allowance /\ spare'.timely = FALSE
<1>1. spare \in Allowance /\ spare.faults - 1 \in Nat
  BY DEF RequestTypes, Setback, Allowance
<1>2. spare' = [spare EXCEPT !.faults = spare.faults - 1, !.timely = FALSE]
  BY DEF Setback
<1>. QED
  BY <1>1, <1>2 DEF Allowance

\* A request that is counted leaves the other allowances as they are.
LEMMA SpendCall ==
  ASSUME RequestTypes, spare.calls > 0, spare' = [spare EXCEPT !.calls = @ - 1]
  PROVE  spare' \in Allowance /\ spare'.timely = spare.timely
BY DEF RequestTypes, Allowance

LEMMA EnqueueStep ==
  ASSUME MailTypes, NEW kind \in MailKinds, NEW id \in Nat, Enqueue(kind, id)
  PROVE  /\ mails' \in [MailKinds -> MailCount]
         /\ mails'[kind].ordered = mails[kind].ordered + 1
         /\ \A k \in MailKinds \ {kind} : mails'[k].ordered = mails[k].ordered
         /\ outbox' \subseteq [kind : MailKinds, id : Nat, tries : Int, sent : BOOLEAN]
<1>1. mails[kind] \in MailCount /\ mails' = [mails EXCEPT ![kind].ordered = mails[kind].ordered + 1]
  BY DEF MailTypes, Enqueue
<1>2. /\ mails' \in [MailKinds -> MailCount]
      /\ mails'[kind].ordered = mails[kind].ordered + 1
      /\ \A k \in MailKinds \ {kind} : mails'[k].ordered = mails[k].ordered
  BY <1>1 DEF MailTypes, MailCount
<1>3. outbox' \subseteq [kind : MailKinds, id : Nat, tries : Int, sent : BOOLEAN]
  <2>1. [kind |-> kind, id |-> id, tries |-> 0, sent |-> FALSE]
          \in [kind : MailKinds, id : Nat, tries : Int, sent : BOOLEAN]
    OBVIOUS
  <2>. QED
    BY <2>1 DEF Enqueue, MailTypes
<1>. QED
  BY <1>2, <1>3

LEMMA OrderStep ==
  ASSUME AccountTypes, NEW kind \in MailKinds, NEW id \in Nat, Order(kind, id)
  PROVE  /\ mails' \in [MailKinds -> MailCount]
         /\ mails'[kind].ordered <= mails[kind].ordered + 1
         /\ \A k \in MailKinds \ {kind} : mails'[k].ordered = mails[k].ordered
         /\ outbox' \subseteq [kind : MailKinds, id : Nat, tries : Int, sent : BOOLEAN]
         /\ spare' \in Allowance /\ (spare'.timely => spare.timely)
<1>1. CASE Enqueue(kind, id) /\ UNCHANGED spare
  BY <1>1, EnqueueStep DEF AccountTypes, RequestTypes, MailTypes, MailCount
<1>2. CASE Setback /\ UNCHANGED <<outbox, mails>>
  <2>1. mails[kind].ordered \in Nat
    BY DEF AccountTypes, MailTypes, MailCount
  <2>. QED
    <3>1. spare' \in Allowance /\ spare'.timely = FALSE
      BY <1>2, SetbackStep DEF AccountTypes
    <3>2. spare'.timely => spare.timely
      BY <3>1
    <3>. QED
      BY <1>2, <2>1, <3>1, <3>2 DEF AccountTypes, MailTypes
<1>. QED
  BY <1>1, <1>2 DEF Order

LEMMA KindsAreMails ==
  /\ "verification" \in MailKinds /\ "welcome" \in MailKinds
  /\ "inquiry" \in MailKinds /\ "dpa" \in MailKinds
  /\ {"seven", "one", "expired"} \subseteq MailKinds
BY DEF MailKinds, LoggedMails, TrialMails

---------------------------------------------------------------------------
(* The invariant, and the steps that matter for it *)

\* Requests that have consumed a link and not yet ordered the welcome.
Verifying == {v \in Visits : visit[v].pc \in {"verify", "mark", "welcome"}}

\* A link is in Redis or was used, and each welcome ordered or still to be
\* ordered has a link of its own.
LinksAreSpent ==
  /\ links.live \intersect links.used = {}
  /\ links.live \union links.used \subseteq 1 .. links.issued
  /\ mails["welcome"].ordered + Cardinality(Verifying) <= Cardinality(links.used)

AccountInv == AccountTypes /\ CountersExpire /\ LinksAreSpent

\* A step that moves one handler, which is at no window unless something failed.
Moves(v) ==
  /\ visit' \in [Visits -> VisitState]
  /\ \A u \in Visits \ {v} : visit'[u] = visit[u]
  /\ visit[v].pc = "window" => spare'.timely = FALSE
  /\ spare' \in Allowance /\ (spare'.timely => spare.timely)

LEMMA CountersKept ==
  ASSUME RequestTypes, CountersExpire, NEW v \in Visits, Moves(v), UNCHANGED counter
  PROVE  RequestTypes' /\ CountersExpire'
<1>1. RequestTypes'
  BY DEF Moves, RequestTypes
<1>2. CountersExpire'
  <2>. SUFFICES ASSUME NEW key \in Counters, counter[key].n > 0, spare'.timely
                PROVE  counter[key].expires \/ \E u \in Visits : visit'[u].pc = "window" /\ visit'[u].op = key
    BY DEF CountersExpire, VisitAt
  <2>1. counter[key].expires \/ \E u \in Visits : visit[u].pc = "window" /\ visit[u].op = key
    BY DEF CountersExpire, VisitAt, Moves
  <2>2. visit[v].pc # "window"
    BY DEF Moves, Allowance
  <2>. QED
    BY <2>1, <2>2 DEF Moves
<1>. QED
  BY <1>1, <1>2

LEMMA CountKeeps ==
  ASSUME RequestTypes, CountersExpire, NEW v \in Visits, NEW key \in Counters, CountRequest(v, key)
  PROVE  RequestTypes' /\ CountersExpire' /\ visit'[v].pc \in {"idle", "window", "counted"}
         /\ \A u \in Visits \ {v} : visit'[u] = visit[u]
<1>. DEFINE n == counter[key].n + 1
            new == [NoVisit EXCEPT !.pc = IF n = 1 THEN "window" ELSE "counted", !.op = key]
<1>1. counter[key].n \in Nat /\ n \in Nat \ {0}
  BY DEF RequestTypes
<1>2. /\ new \in VisitState /\ new.op = key
      /\ new.pc = IF n = 1 THEN "window" ELSE "counted"
  BY DEF NoVisit, VisitState, VisitSteps, Counters
<1>3. /\ counter' \in [Counters -> [n : Nat, expires : BOOLEAN]]
      /\ counter'[key].n = n /\ counter'[key].expires = counter[key].expires
      /\ \A k \in Counters \ {key} : counter'[k] = counter[k]
  <2>1. counter[key] \in [n : Nat, expires : BOOLEAN] /\ counter' = [counter EXCEPT ![key].n = counter[key].n + 1]
    BY DEF RequestTypes, CountRequest
  <2>. QED
    BY <1>1, <2>1 DEF RequestTypes
<1>4. spare' \in Allowance /\ spare'.timely = spare.timely
  BY SpendCall DEF CountRequest
<1>5. visit[v].pc = "idle"
  BY DEF CountRequest, VisitAt
<1>6. LimitOf(key) \in Nat \ {0}
  BY AccountAssumption DEF LimitOf
<1>7. visit' = IF n > LimitOf(key) THEN visit ELSE [visit EXCEPT ![v] = new]
  BY DEF CountRequest
<1>. HIDE DEF n, new
<1>8. /\ visit' \in [Visits -> VisitState]
      /\ \A u \in Visits \ {v} : visit'[u] = visit[u]
      /\ n <= LimitOf(key) => visit'[v] = new
      /\ n > LimitOf(key) => visit'[v] = visit[v]
  <2>1. CASE n > LimitOf(key)
    <3>1. visit' = visit /\ ~ (n <= LimitOf(key))
      BY <1>1, <1>6, <1>7, <2>1
    <3>. QED
      BY <3>1 DEF RequestTypes
  <2>2. CASE ~ (n > LimitOf(key))
    BY <1>2, <1>7, <2>2, SetVisit
  <2>. QED
    BY <2>1, <2>2
<1>9. RequestTypes'
  BY <1>3, <1>4, <1>8 DEF RequestTypes
<1>10. CountersExpire'
  <2>. SUFFICES ASSUME NEW k \in Counters, counter'[k].n > 0, spare'.timely
                PROVE  counter'[k].expires \/ \E u \in Visits : visit'[u].pc = "window" /\ visit'[u].op = k
    BY DEF CountersExpire, VisitAt
  <2>1. CASE k = key /\ n = 1
    <3>1. visit'[v] = new
      BY <1>6, <1>8, <2>1
    <3>. QED
      BY <1>2, <2>1, <3>1
  <2>2. CASE k # key \/ n # 1
    <3>1. counter[k].n > 0 /\ counter'[k].expires = counter[k].expires
      BY <1>1, <1>3, <2>2 DEF n
    <3>2. counter[k].expires \/ \E u \in Visits : visit[u].pc = "window" /\ visit[u].op = k
      BY <1>4, <3>1 DEF CountersExpire, VisitAt
    <3>. QED
      BY <1>5, <1>8, <3>1, <3>2
  <2>. QED
    BY <2>1, <2>2
<1>11. visit'[v].pc \in {"idle", "window", "counted"}
  <2>1. n <= LimitOf(key) \/ n > LimitOf(key)
    BY <1>1, <1>6
  <2>. QED
    BY <1>2, <1>5, <1>8, <2>1
<1>. QED
  BY <1>8, <1>9, <1>10, <1>11

LEMMA WindowKeeps ==
  ASSUME RequestTypes, CountersExpire, NEW v \in Visits, SetWindow(v)
  PROVE  RequestTypes' /\ CountersExpire' /\ visit'[v].pc = "counted"
         /\ \A u \in Visits \ {v} : visit'[u] = visit[u]
<1>1. /\ visit' \in [Visits -> VisitState]
      /\ visit'[v].pc = "counted" /\ visit'[v].op = visit[v].op
      /\ \A u \in Visits \ {v} : visit'[u] = visit[u]
  <2>1. "counted" \in VisitSteps
    BY DEF VisitSteps
  <2>. QED
    BY <2>1, GotoStep DEF SetWindow
<1>. DEFINE key == visit[v].op
<1>2. counter' = [counter EXCEPT ![key].expires = TRUE] /\ spare' = spare
  BY DEF SetWindow
<1>3. visit[v].pc = "window"
  BY DEF SetWindow, VisitAt
<1>. HIDE DEF key
<1>4. counter' \in [Counters -> [n : Nat, expires : BOOLEAN]]
  BY <1>2 DEF RequestTypes
<1>5. \A k \in Counters : /\ counter'[k].n = counter[k].n
                          /\ k = key => counter'[k].expires
                          /\ k # key => counter'[k].expires = counter[k].expires
  BY <1>2 DEF RequestTypes
<1>6. RequestTypes'
  BY <1>1, <1>2, <1>4 DEF RequestTypes
<1>7. CountersExpire'
  <2>. SUFFICES ASSUME NEW k \in Counters, counter'[k].n > 0, spare'.timely
                PROVE  counter'[k].expires \/ \E u \in Visits : visit'[u].pc = "window" /\ visit'[u].op = k
    BY DEF CountersExpire, VisitAt
  <2>1. counter[k].expires \/ \E u \in Visits : visit[u].pc = "window" /\ visit[u].op = k
    BY <1>2, <1>5 DEF CountersExpire, VisitAt
  <2>. QED
    BY <1>1, <1>5, <2>1 DEF key
<1>. QED
  BY <1>1, <1>6, <1>7

LEMMA ExpiryKeeps ==
  ASSUME RequestTypes, CountersExpire, NEW key \in Counters, WindowEnds(key)
  PROVE  RequestTypes' /\ CountersExpire'
<1>1. counter' = [counter EXCEPT ![key] = [n |-> 0, expires |-> FALSE]] /\ visit' = visit /\ spare' = spare
  BY DEF WindowEnds
<1>2. /\ counter' \in [Counters -> [n : Nat, expires : BOOLEAN]]
      /\ counter'[key].n = 0
      /\ \A k \in Counters \ {key} : counter'[k] = counter[k]
  BY <1>1 DEF RequestTypes
<1>3. RequestTypes'
  BY <1>1, <1>2 DEF RequestTypes
<1>4. CountersExpire'
  BY <1>1, <1>2 DEF CountersExpire, VisitAt
<1>. QED
  BY <1>3, <1>4

\* A step of one handler that opens no verification and orders no welcome.
LEMMA VisitKeeps ==
  ASSUME AccountInv, NEW v \in Visits, Moves(v), UNCHANGED <<counter, links>>, MailTypes',
         mails'["welcome"].ordered = mails["welcome"].ordered,
         visit'[v].pc \in {"verify", "mark", "welcome"} => visit[v].pc \in {"verify", "mark", "welcome"}
  PROVE  AccountInv'
<1>1. RequestTypes' /\ CountersExpire'
  BY CountersKept DEF AccountInv, AccountTypes
<1>2. Verifying' \subseteq Verifying
  BY DEF Moves, Verifying
<1>3. IsFiniteSet(Verifying)
  BY AccountAssumption, FS_Subset DEF Verifying
<1>4. /\ Cardinality(Verifying') <= Cardinality(Verifying)
      /\ Cardinality(Verifying') \in Nat /\ Cardinality(Verifying) \in Nat
  BY <1>2, <1>3, FS_Subset, FS_CardinalityType
<1>5. /\ links.used \subseteq 1 .. links.issued /\ links.issued \in Nat
      /\ mails["welcome"].ordered \in Nat
  BY KindsAreMails DEF AccountInv, AccountTypes, MailTypes, LinkTable, MailCount, LinksAreSpent
<1>6. Cardinality(links.used) \in Nat
  <2>1. IsFiniteSet(1 .. links.issued)
    BY FS_Interval DEF AccountInv, AccountTypes, MailTypes, LinkTable
  <2>. QED
    BY <1>5, <2>1, FS_Subset, FS_CardinalityType
<1>7. LinksAreSpent'
  <2>1. mails["welcome"].ordered + Cardinality(Verifying') <= Cardinality(links.used)
    BY <1>4, <1>5, <1>6 DEF AccountInv, LinksAreSpent
  <2>. QED
    BY <2>1 DEF AccountInv, LinksAreSpent
<1>. QED
  BY <1>1, <1>7 DEF AccountInv, AccountTypes

\* A mail task or a scan moves.
LEMMA BackgroundKeeps ==
  ASSUME AccountInv, UNCHANGED <<counter, visit>>, MailTypes',
         spare' \in Allowance, spare'.timely => spare.timely,
         links'.issued = links.issued, links'.live = links.live, links'.used = links.used,
         mails'["welcome"].ordered = mails["welcome"].ordered
  PROVE  AccountInv'
<1>1. RequestTypes'
  BY DEF AccountInv, AccountTypes, RequestTypes
<1>2. CountersExpire'
  <2>. SUFFICES ASSUME NEW key \in Counters, counter[key].n > 0, spare'.timely
                PROVE  counter[key].expires \/ \E u \in Visits : visit[u].pc = "window" /\ visit[u].op = key
    BY DEF CountersExpire, VisitAt
  <2>. QED
    BY DEF AccountInv, CountersExpire, VisitAt
<1>3. Verifying' = Verifying
  BY DEF Verifying
<1>4. LinksAreSpent'
  BY <1>3 DEF AccountInv, LinksAreSpent
<1>. QED
  BY <1>1, <1>2, <1>4 DEF AccountInv, AccountTypes

LEMMA StoreKeeps ==
  ASSUME AccountInv, NEW v \in Visits, StoreVerificationToken(v)
  PROVE  AccountInv'
<1>. DEFINE link == links.issued + 1
            new == [visit[v] EXCEPT !.pc = "order", !.link = link]
<1>1. links \in LinkTable /\ link \in Nat
  BY DEF AccountInv, AccountTypes, MailTypes, LinkTable
<1>2. visit[v] \in VisitState
  BY DEF AccountInv, AccountTypes, RequestTypes
<1>3. new \in VisitState /\ new.pc = "order"
  BY <1>1, <1>2 DEF VisitState, VisitSteps
<1>4. /\ visit[v].pc = "issue" /\ visit' = [visit EXCEPT ![v] = new]
      /\ links' = [links EXCEPT !.issued = link, !.live = links.live \union {link}]
      /\ UNCHANGED <<account, counter, outbox, mails, clock, scans, spare>>
  BY DEF StoreVerificationToken, VisitAt
<1>5. /\ links' \in LinkTable /\ links'.issued = link /\ links'.used = links.used
      /\ links'.live = links.live \union {link}
  BY <1>1, <1>4 DEF LinkTable
<1>. HIDE DEF new
<1>6. /\ visit' \in [Visits -> VisitState] /\ visit'[v] = new
      /\ \A u \in Visits \ {v} : visit'[u] = visit[u]
  BY <1>3, <1>4, SetVisit DEF AccountInv, AccountTypes
<1>7. MailTypes'
  BY <1>4, <1>5 DEF AccountInv, AccountTypes, MailTypes
<1>8. RequestTypes' /\ CountersExpire'
  <2>1. Moves(v)
    BY <1>4, <1>6 DEF Moves, AccountInv, AccountTypes, RequestTypes
  <2>. QED
    BY <1>4, <2>1, CountersKept DEF AccountInv, AccountTypes
<1>9. Verifying' = Verifying
  BY <1>3, <1>4, <1>6 DEF Verifying
<1>10. LinksAreSpent'
  <2>1. link \notin links.used
    BY <1>1 DEF AccountInv, LinksAreSpent, LinkTable
  <2>2. \A l \in 1 .. links.issued : l \in 1 .. link
    BY <1>1 DEF LinkTable
  <2>3. link \in 1 .. link
    BY <1>1 DEF LinkTable
  <2>4. /\ links'.live \intersect links'.used = {}
        /\ links'.live \union links'.used \subseteq 1 .. links'.issued
    BY <1>5, <2>1, <2>2, <2>3 DEF AccountInv, LinksAreSpent
  <2>. QED
    BY <1>4, <1>5, <1>9, <2>4 DEF AccountInv, LinksAreSpent
<1>. QED
  BY <1>7, <1>8, <1>10 DEF AccountInv, AccountTypes

\* A link that is consumed cannot have been used before: there is one more.
LEMMA ConsumeKeeps ==
  ASSUME AccountInv, NEW v \in Visits, NEW link \in Link, ConsumeVerificationToken(v, link)
  PROVE  AccountInv'
<1>. DEFINE new == [NoVisit EXCEPT !.pc = "verify"]
<1>1. links \in LinkTable
  BY DEF AccountInv, AccountTypes, MailTypes
<1>2. new \in VisitState /\ new.pc = "verify"
  BY DEF NoVisit, VisitState, VisitSteps
<1>3. /\ visit[v].pc = "idle" /\ visit' = [visit EXCEPT ![v] = new]
      /\ link \in links.live
      /\ links' = [links EXCEPT !.live = links.live \ {link}, !.used = links.used \union {link}]
      /\ UNCHANGED <<account, counter, outbox, mails, clock, scans>>
  BY DEF ConsumeVerificationToken, VisitAt
<1>4. spare' \in Allowance /\ spare'.timely = spare.timely
  BY SpendCall DEF ConsumeVerificationToken, AccountInv, AccountTypes
<1>5. /\ links' \in LinkTable /\ links'.issued = links.issued
      /\ links'.live = links.live \ {link} /\ links'.used = links.used \union {link}
  BY <1>1, <1>3 DEF LinkTable
<1>. HIDE DEF new
<1>6. /\ visit' \in [Visits -> VisitState] /\ visit'[v] = new
      /\ \A u \in Visits \ {v} : visit'[u] = visit[u]
  BY <1>2, <1>3, SetVisit DEF AccountInv, AccountTypes
<1>7. MailTypes'
  BY <1>3, <1>5 DEF AccountInv, AccountTypes, MailTypes
<1>8. RequestTypes' /\ CountersExpire'
  <2>1. Moves(v)
    BY <1>3, <1>4, <1>6 DEF Moves
  <2>. QED
    BY <1>3, <2>1, CountersKept DEF AccountInv, AccountTypes
<1>9. Verifying' = Verifying \union {v} /\ v \notin Verifying
  BY <1>2, <1>3, <1>6 DEF Verifying
<1>10. Cardinality(Verifying') = Cardinality(Verifying) + 1 /\ Cardinality(Verifying) \in Nat
  <2>1. IsFiniteSet(Verifying)
    BY AccountAssumption, FS_Subset DEF Verifying
  <2>. QED
    BY <1>9, <2>1, FS_AddElement, FS_CardinalityType
<1>11. /\ Cardinality(links'.used) = Cardinality(links.used) + 1
       /\ Cardinality(links.used) \in Nat
  <2>1. link \notin links.used
    BY <1>3 DEF AccountInv, LinksAreSpent
  <2>2. IsFiniteSet(1 .. links.issued)
    BY <1>1, FS_Interval DEF LinkTable
  <2>3. IsFiniteSet(links.used)
    BY <2>2, FS_Subset DEF AccountInv, LinksAreSpent
  <2>. QED
    BY <1>5, <2>1, <2>3, FS_AddElement, FS_CardinalityType
<1>12. LinksAreSpent'
  <2>1. mails["welcome"].ordered \in Nat
    BY KindsAreMails DEF AccountInv, AccountTypes, MailTypes, MailCount
  <2>2. mails'["welcome"].ordered + Cardinality(Verifying') <= Cardinality(links'.used)
    BY <1>3, <1>10, <1>11, <2>1 DEF AccountInv, LinksAreSpent
  <2>3. /\ links'.live \intersect links'.used = {}
        /\ links'.live \union links'.used \subseteq 1 .. links'.issued
    BY <1>3, <1>5 DEF AccountInv, LinksAreSpent
  <2>. QED
    BY <2>2, <2>3 DEF LinksAreSpent
<1>. QED
  BY <1>7, <1>8, <1>12 DEF AccountInv, AccountTypes

LEMMA WelcomeKeeps ==
  ASSUME AccountInv, NEW v \in Visits, OrderWelcome(v)
  PROVE  AccountInv'
<1>1. /\ mails' \in [MailKinds -> MailCount]
      /\ mails'["welcome"].ordered <= mails["welcome"].ordered + 1
      /\ outbox' \subseteq [kind : MailKinds, id : Nat, tries : Int, sent : BOOLEAN]
      /\ spare' \in Allowance /\ (spare'.timely => spare.timely)
  <2>1. mails["welcome"].ordered + 1 \in Nat /\ "welcome" \in MailKinds
    BY KindsAreMails DEF AccountInv, AccountTypes, MailTypes, MailCount
  <2>. QED
    BY <2>1, OrderStep DEF OrderWelcome, AccountInv
<1>2. /\ visit' \in [Visits -> VisitState] /\ visit'[v].pc = "idle"
      /\ \A u \in Visits \ {v} : visit'[u] = visit[u]
  BY AnswerStep DEF OrderWelcome, AccountInv, AccountTypes
<1>3. visit[v].pc = "welcome" /\ UNCHANGED <<account, links, counter, clock, scans>>
  BY DEF OrderWelcome, VisitAt
<1>4. RequestTypes' /\ CountersExpire'
  <2>1. Moves(v)
    BY <1>1, <1>2, <1>3 DEF Moves
  <2>. QED
    BY <1>3, <2>1, CountersKept DEF AccountInv, AccountTypes
<1>5. MailTypes'
  BY <1>1, <1>3 DEF AccountInv, AccountTypes, MailTypes
<1>6. Verifying' = Verifying \ {v} /\ v \in Verifying
  BY <1>2, <1>3 DEF Verifying
<1>7. Cardinality(Verifying') = Cardinality(Verifying) - 1 /\ Cardinality(Verifying) \in Nat
  <2>1. IsFiniteSet(Verifying)
    BY AccountAssumption, FS_Subset DEF Verifying
  <2>. QED
    BY <1>6, <2>1, FS_RemoveElement, FS_CardinalityType
<1>8. Cardinality(links.used) \in Nat
  <2>1. IsFiniteSet(1 .. links.issued)
    BY FS_Interval DEF AccountInv, AccountTypes, MailTypes, LinkTable
  <2>. QED
    BY <2>1, FS_Subset, FS_CardinalityType DEF AccountInv, LinksAreSpent
<1>9. LinksAreSpent'
  <2>1. mails["welcome"].ordered \in Nat /\ mails'["welcome"].ordered \in Nat
    BY <1>1, KindsAreMails DEF AccountInv, AccountTypes, MailTypes, MailCount
  <2>2. mails'["welcome"].ordered + Cardinality(Verifying') <= Cardinality(links.used)
    BY <1>1, <1>7, <1>8, <2>1 DEF AccountInv, LinksAreSpent
  <2>. QED
    BY <1>3, <2>2 DEF AccountInv, LinksAreSpent
<1>. QED
  BY <1>4, <1>5, <1>9 DEF AccountInv, AccountTypes

\* Counting, its window and the end of the window touch no mail and no link.
LEMMA CounterKeeps ==
  ASSUME AccountInv,
         \/ \E v \in Visits : SetWindow(v) \/ \E key \in Counters : CountRequest(v, key)
         \/ \E key \in Counters : WindowEnds(key)
  PROVE  AccountInv'
<1>1. RequestTypes' /\ CountersExpire' /\ Verifying' \subseteq Verifying
  <2>1. CASE \E key \in Counters : WindowEnds(key)
    BY <2>1, ExpiryKeeps DEF AccountInv, AccountTypes, Verifying, WindowEnds
  <2>2. ASSUME NEW v \in Visits, NEW key \in Counters, CountRequest(v, key)
        PROVE  RequestTypes' /\ CountersExpire' /\ Verifying' \subseteq Verifying
    BY <2>2, CountKeeps DEF AccountInv, AccountTypes, Verifying
  <2>3. ASSUME NEW v \in Visits, SetWindow(v)
        PROVE  RequestTypes' /\ CountersExpire' /\ Verifying' \subseteq Verifying
    BY <2>3, WindowKeeps DEF AccountInv, AccountTypes, Verifying
  <2>. QED
    BY <2>1, <2>2, <2>3
<1>2. UNCHANGED <<account, links, mails, outbox, scans, clock>>
  BY DEF SetWindow, CountRequest, WindowEnds
<1>3. MailTypes'
  BY <1>2 DEF AccountInv, AccountTypes, MailTypes
<1>4. /\ Cardinality(Verifying') <= Cardinality(Verifying)
      /\ Cardinality(Verifying') \in Nat /\ Cardinality(Verifying) \in Nat
  <2>1. IsFiniteSet(Verifying)
    BY AccountAssumption, FS_Subset DEF Verifying
  <2>. QED
    BY <1>1, <2>1, FS_Subset, FS_CardinalityType
<1>5. Cardinality(links.used) \in Nat
  <2>1. IsFiniteSet(1 .. links.issued)
    BY FS_Interval DEF AccountInv, AccountTypes, MailTypes, LinkTable
  <2>. QED
    BY <2>1, FS_Subset, FS_CardinalityType DEF AccountInv, LinksAreSpent
<1>6. LinksAreSpent'
  <2>1. mails["welcome"].ordered \in Nat
    BY KindsAreMails DEF AccountInv, AccountTypes, MailTypes, MailCount
  <2>2. mails["welcome"].ordered + Cardinality(Verifying') <= Cardinality(links.used)
    BY <1>4, <1>5, <2>1 DEF AccountInv, LinksAreSpent
  <2>. QED
    BY <1>2, <2>2 DEF AccountInv, LinksAreSpent
<1>. QED
  BY <1>1, <1>3, <1>6 DEF AccountInv, AccountTypes

\* Steps of one handler between the counter and the mail.
LEMMA HandlerKeeps ==
  ASSUME AccountInv, NEW v \in Visits,
         \/ CheckEmail(v) \/ CreateUser(v) \/ ResendVerification(v)
         \/ ReadUser(v) \/ MarkVerified(v) \/ VisitDies(v)
  PROVE  AccountInv'
<1>. USE DEF VisitAt
<1>1. UNCHANGED <<counter, links, mails, outbox, scans, clock>>
  BY DEF CheckEmail, CreateUser, ResendVerification, ReadUser, MarkVerified, VisitDies
<1>2. MailTypes'
  <2>1. account \in [exists : BOOLEAN, verified : BOOLEAN, trialEnds : Nat] /\ clock \in Nat
    BY DEF AccountInv, AccountTypes, MailTypes
  <2>2. account' \in [exists : BOOLEAN, verified : BOOLEAN, trialEnds : Nat]
    <3>1. CASE UNCHANGED account
      BY <2>1, <3>1
    <3>2. CASE account' = [account EXCEPT !.exists = TRUE]
      BY <2>1, <3>2
    <3>3. CASE MarkVerified(v)
      <4>. DEFINE end == IF visit[v].seen THEN account.trialEnds ELSE clock + TrialDays * Quarters
      <4>1. end \in Nat
        BY <2>1, AccountAssumption DEF Quarters
      <4>2. account' = [account EXCEPT !.verified = TRUE, !.trialEnds = end]
        BY <3>3 DEF MarkVerified
      <4>. HIDE DEF end
      <4>. QED
        BY <2>1, <4>1, <4>2
    <3>. QED
      BY <3>1, <3>2, <3>3 DEF CheckEmail, CreateUser, ResendVerification, ReadUser, VisitDies
  <2>. QED
    BY <1>1, <2>2 DEF AccountInv, AccountTypes, MailTypes
<1>3. RequestTypes /\ spare \in Allowance
  BY DEF AccountInv, AccountTypes, RequestTypes
<1>4. {"insert", "issue", "mark", "welcome"} \subseteq VisitSteps
  BY DEF VisitSteps
<1>5. ASSUME Answer(v), visit[v].pc # "window" \/ spare'.timely = FALSE,
             spare' \in Allowance, spare'.timely => spare.timely
      PROVE  AccountInv'
  <2>1. /\ visit' \in [Visits -> VisitState] /\ visit'[v].pc = "idle"
        /\ \A u \in Visits \ {v} : visit'[u] = visit[u]
    BY <1>3, <1>5, AnswerStep
  <2>2. Moves(v)
    BY <1>5, <2>1 DEF Moves
  <2>. QED
    BY <1>1, <1>2, <2>1, <2>2, VisitKeeps
<1>6. ASSUME NEW pc \in {"insert", "issue", "welcome"}, Goto(v, pc), UNCHANGED spare,
             visit[v].pc # "window", pc = "welcome" => visit[v].pc = "mark"
      PROVE  AccountInv'
  <2>1. /\ visit' \in [Visits -> VisitState] /\ visit'[v].pc = pc
        /\ \A u \in Visits \ {v} : visit'[u] = visit[u]
    BY <1>3, <1>4, <1>6, GotoStep
  <2>2. Moves(v)
    BY <1>3, <1>6, <2>1 DEF Moves
  <2>. QED
    BY <1>1, <1>2, <1>6, <2>1, <2>2, VisitKeeps
<1>7. CASE CheckEmail(v) \/ CreateUser(v) \/ ResendVerification(v)
  <2>1. visit[v].pc # "window" /\ UNCHANGED spare
    BY <1>7 DEF CheckEmail, CreateUser, ResendVerification
  <2>2. Answer(v) \/ Goto(v, "insert") \/ Goto(v, "issue")
    BY <1>7 DEF CheckEmail, CreateUser, ResendVerification
  <2>3. CASE Goto(v, "insert")
    BY <1>6, <2>1, <2>3
  <2>4. CASE Goto(v, "issue")
    BY <1>6, <2>1, <2>4
  <2>5. CASE Answer(v)
    BY <1>3, <1>5, <2>1, <2>5
  <2>. QED
    BY <2>2, <2>3, <2>4, <2>5
<1>10. CASE MarkVerified(v)
  BY <1>6, <1>10 DEF MarkVerified
<1>11. CASE VisitDies(v)
  <2>1. spare' \in Allowance /\ spare'.timely = FALSE
    BY <1>3, <1>11, SetbackStep DEF VisitDies
  <2>2. spare'.timely => spare.timely
    BY <2>1
  <2>. QED
    BY <1>5, <1>11, <2>1, <2>2 DEF VisitDies
<1>12. CASE ReadUser(v)
  <2>1. visit[v] \in VisitState /\ visit[v].pc = "verify"
    BY <1>3, <1>12 DEF ReadUser, RequestTypes
  <2>2. visit' = [visit EXCEPT ![v].pc = "mark", ![v].seen = account.verified]
    BY <1>12 DEF ReadUser
  <2>3. CASE account.verified \in BOOLEAN
    <3>. DEFINE now == [visit[v] EXCEPT !.pc = "mark", !.seen = account.verified]
    <3>1. now \in VisitState /\ now.pc = "mark"
      BY <1>4, <2>1, <2>3 DEF VisitState
    <3>2. visit' = [visit EXCEPT ![v] = now]
      BY <2>2
    <3>. HIDE DEF now
    <3>3. /\ visit' \in [Visits -> VisitState] /\ visit'[v] = now
          /\ \A u \in Visits \ {v} : visit'[u] = visit[u]
      BY <1>3, <3>1, <3>2, SetVisit
    <3>4. Moves(v)
      BY <1>3, <1>12, <2>1, <3>3 DEF Moves, ReadUser
    <3>. QED
      BY <1>1, <1>2, <2>1, <3>1, <3>3, <3>4, VisitKeeps
  <2>. QED
    BY <2>3 DEF AccountInv, AccountTypes, MailTypes
<1>. QED
  BY <1>7, <1>10, <1>11, <1>12

\* Steps of one handler that order a mail other than the welcome.
LEMMA OrderKeeps ==
  ASSUME AccountInv, NEW v \in Visits,
         OrderVerification(v) \/ CreateInquiry(v) \/ CreateDpaRequest(v)
  PROVE  AccountInv'
<1>1. PICK kind \in {"verification", "inquiry", "dpa"}, id \in Nat : Order(kind, id)
  <2>1. visit[v].link \in Nat /\ \A k \in MailKinds : mails[k].ordered + 1 \in Nat
    BY DEF AccountInv, AccountTypes, RequestTypes, MailTypes, VisitState, MailCount
  <2>. QED
    BY <2>1, KindsAreMails DEF OrderVerification, CreateInquiry, CreateDpaRequest
<1>2. /\ mails' \in [MailKinds -> MailCount]
      /\ mails'["welcome"].ordered = mails["welcome"].ordered
      /\ outbox' \subseteq [kind : MailKinds, id : Nat, tries : Int, sent : BOOLEAN]
      /\ spare' \in Allowance /\ (spare'.timely => spare.timely)
  <2>1. kind \in MailKinds /\ "welcome" \in MailKinds \ {kind}
    BY KindsAreMails
  <2>. QED
    BY <1>1, <2>1, OrderStep DEF AccountInv
<1>3. /\ visit' \in [Visits -> VisitState] /\ visit'[v].pc = "idle"
      /\ \A u \in Visits \ {v} : visit'[u] = visit[u]
  BY AnswerStep DEF OrderVerification, CreateInquiry, CreateDpaRequest, AccountInv, AccountTypes
<1>4. visit[v].pc # "window" /\ UNCHANGED <<account, links, counter, clock, scans>>
  BY DEF OrderVerification, CreateInquiry, CreateDpaRequest, VisitAt
<1>5. MailTypes'
  BY <1>2, <1>4 DEF AccountInv, AccountTypes, MailTypes
<1>6. Moves(v)
  BY <1>2, <1>3, <1>4 DEF Moves
<1>. QED
  BY <1>2, <1>3, <1>4, <1>5, <1>6, VisitKeeps

LEMMA MailKeeps ==
  ASSUME AccountInv, NEW task \in outbox, MailStep(task)
  PROVE  AccountInv'
<1>. DEFINE Tasks == [kind : MailKinds, id : Nat, tries : Int, sent : BOOLEAN]
<1>0. /\ task \in Tasks /\ task.kind \in MailKinds /\ task.id \in Nat
      /\ outbox \subseteq Tasks /\ links \in LinkTable
      /\ mails \in [MailKinds -> MailCount] /\ mails[task.kind] \in MailCount
      /\ spare \in Allowance /\ RequestTypes
  BY DEF AccountInv, AccountTypes, MailTypes, RequestTypes
<1>1. UNCHANGED <<account, counter, visit, clock, scans>>
  BY DEF MailStep, SendMail, WriteEmailAuditLog, RetryMail, MailerDies
<1>2. outbox' \subseteq Tasks
  <2>1. [task EXCEPT !.sent = TRUE] \in Tasks
    BY <1>0
  <2>2. [task EXCEPT !.tries = task.tries + 1, !.sent = FALSE] \in Tasks
    <3>1. task.tries + 1 \in Int
      BY <1>0
    <3>. QED
      BY <1>0, <3>1
  <2>. QED
    BY <1>0, <2>1, <2>2 DEF MailStep, SendMail, WriteEmailAuditLog, RetryMail, MailerDies, Replace
<1>3. /\ mails' \in [MailKinds -> MailCount]
      /\ \A k \in MailKinds : mails'[k].ordered = mails[k].ordered
  <2>1. CASE UNCHANGED mails
    BY <1>0, <2>1
  <2>2. CASE mails' = [mails EXCEPT ![task.kind].sent = mails[task.kind].sent + 1]
    BY <1>0, <2>2 DEF MailCount
  <2>3. CASE mails' = [mails EXCEPT ![task.kind].logged = mails[task.kind].logged + 1]
    BY <1>0, <2>3 DEF MailCount
  <2>. QED
    BY <2>1, <2>2, <2>3 DEF MailStep, SendMail, WriteEmailAuditLog, RetryMail, MailerDies
<1>4. /\ links' \in LinkTable /\ links'.issued = links.issued
      /\ links'.live = links.live /\ links'.used = links.used
  <2>1. CASE UNCHANGED links
    BY <1>0, <2>1
  <2>2. CASE links' = [links EXCEPT !.received = links.received \union {task.id}]
    BY <1>0, <2>2 DEF LinkTable
  <2>. QED
    BY <2>1, <2>2 DEF MailStep, SendMail, WriteEmailAuditLog, RetryMail, MailerDies
<1>5. spare' \in Allowance /\ (spare'.timely => spare.timely)
  <2>1. CASE UNCHANGED spare
    BY <1>0, <2>1
  <2>2. CASE Setback
    <3>1. spare' \in Allowance /\ spare'.timely = FALSE
      BY <1>0, <2>2, SetbackStep
    <3>. QED
      BY <3>1
  <2>. QED
    BY <2>1, <2>2 DEF MailStep, SendMail, WriteEmailAuditLog, RetryMail, MailerDies
<1>6. MailTypes'
  BY <1>1, <1>2, <1>3, <1>4 DEF AccountInv, AccountTypes, MailTypes
<1>7. mails'["welcome"].ordered = mails["welcome"].ordered
  BY <1>3, KindsAreMails
<1>. QED
  BY <1>1, <1>4, <1>5, <1>6, <1>7, BackgroundKeeps

LEMMA ScanKeeps ==
  ASSUME AccountInv, NEW scan \in scans, ScanWindow(scan) \/ ScanDies(scan)
  PROVE  AccountInv'
<1>0. scan \in Scan /\ scans \subseteq Scan /\ RequestTypes /\ MailTypes /\ spare \in Allowance
  BY DEF AccountInv, AccountTypes, MailTypes, RequestTypes
<1>1. CASE ScanDies(scan)
  <2>1. /\ UNCHANGED <<account, links, counter, visit, outbox, mails, clock>>
        /\ scans' \subseteq Scan
    BY <1>0, <1>1 DEF ScanDies
  <2>2. spare' \in Allowance /\ spare'.timely = FALSE
    BY <1>0, <1>1, SetbackStep DEF ScanDies
  <2>3. MailTypes'
    BY <1>0, <2>1 DEF MailTypes
  <2>. QED
    BY <2>1, <2>2, <2>3, BackgroundKeeps
<1>2. CASE ScanWindow(scan)
  <2>. DEFINE kind == Windows[scan.next].kind
  <2>1. kind \in MailKinds \ {"welcome"}
    <3>1. scan.next \in 1 .. 3
      BY <1>0 DEF Scan
    <3>2. scan.next = 1 \/ scan.next = 2 \/ scan.next = 3
      BY <3>1
    <3>3. kind \in {"seven", "one", "expired"}
      BY <3>2 DEF Windows
    <3>. QED
      BY <3>3, KindsAreMails
  <2>2. scans' \subseteq Scan
    <3>1. Len(Windows) = 3
      BY DEF Windows
    <3>2. CASE scan.next = 3
      BY <1>0, <1>2, <3>1, <3>2 DEF ScanWindow
    <3>3. CASE scan.next # 3
      <4>1. [scan EXCEPT !.next = scan.next + 1] \in Scan
        BY <1>0, <3>3 DEF Scan
      <4>2. scans' = (scans \ {scan}) \union {[scan EXCEPT !.next = scan.next + 1]}
        BY <1>2, <3>1, <3>3 DEF ScanWindow
      <4>. QED
        BY <1>0, <4>1, <4>2
    <3>. QED
      BY <3>2, <3>3
  <2>3. UNCHANGED <<account, links, counter, visit, clock, spare>>
    BY <1>2 DEF ScanWindow
  <2>4. Enqueue(kind, mails[kind].ordered + 1) \/ UNCHANGED <<outbox, mails>>
    BY <1>2 DEF ScanWindow
  <2>. HIDE DEF kind
  <2>5. /\ mails' \in [MailKinds -> MailCount]
        /\ mails'["welcome"].ordered = mails["welcome"].ordered
        /\ outbox' \subseteq [kind : MailKinds, id : Nat, tries : Int, sent : BOOLEAN]
    <3>1. mails[kind].ordered + 1 \in Nat
      BY <1>0, <2>1 DEF MailTypes, MailCount
    <3>2. CASE Enqueue(kind, mails[kind].ordered + 1)
      BY <1>0, <2>1, <3>1, <3>2, EnqueueStep, KindsAreMails
    <3>3. CASE UNCHANGED <<outbox, mails>>
      BY <1>0, <3>3 DEF MailTypes
    <3>. QED
      BY <2>4, <3>2, <3>3
  <2>6. MailTypes'
    BY <1>0, <2>2, <2>3, <2>5 DEF MailTypes
  <2>. QED
    BY <1>0, <2>3, <2>5, <2>6, BackgroundKeeps
<1>. QED
  BY <1>1, <1>2

LEMMA TickKeeps ==
  ASSUME AccountInv, Tick
  PROVE  AccountInv'
<1>0. scans \subseteq Scan /\ clock \in Nat /\ MailTypes /\ spare \in Allowance
  BY DEF AccountInv, AccountTypes, MailTypes, RequestTypes
<1>1. clock' = clock + 1 /\ UNCHANGED <<account, links, counter, visit, outbox, mails>>
  BY DEF Tick
<1>2. scans' \subseteq Scan
  <2>1. Day(clock') \in Int
    BY <1>0, <1>1 DEF Day, Quarters
  <2>2. [day |-> Day(clock'), next |-> 1] \in Scan
    BY <2>1 DEF Scan
  <2>. QED
    BY <1>0, <2>2 DEF Tick
<1>3. spare' \in Allowance /\ (spare'.timely => spare.timely)
  <2>1. CASE scans = {}
    BY <1>0, <2>1 DEF Tick
  <2>2. CASE scans # {}
    <3>1. spare.late - 1 \in Nat
      BY <1>0, <2>2 DEF Tick, Allowance
    <3>2. spare' = [spare EXCEPT !.late = spare.late - 1, !.timely = FALSE]
      BY <2>2 DEF Tick
    <3>3. spare' \in Allowance /\ spare'.timely = FALSE
      BY <1>0, <3>1, <3>2 DEF Allowance
    <3>. QED
      BY <3>3
  <2>. QED
    BY <2>1, <2>2
<1>4. MailTypes'
  BY <1>0, <1>1, <1>2 DEF MailTypes
<1>. QED
  BY <1>1, <1>3, <1>4, BackgroundKeeps

---------------------------------------------------------------------------

LEMMA AccountInitInv == AccountInit => AccountInv
<1>. SUFFICES ASSUME AccountInit PROVE AccountInv
  OBVIOUS
<1>1. spare \in Allowance
  BY AccountAssumption DEF AccountInit, Allowance
<1>2. counter \in [Counters -> [n : Nat, expires : BOOLEAN]] /\ \A k \in Counters : counter[k].n = 0
  BY DEF AccountInit
<1>3. visit \in [Visits -> VisitState] /\ \A v \in Visits : visit[v].pc = "idle"
  BY NoVisitType DEF AccountInit
<1>4. clock \in Nat /\ account \in [exists : BOOLEAN, verified : BOOLEAN, trialEnds : Nat]
  <2>1. account \in [exists : BOOLEAN, verified : BOOLEAN, trialEnds : Nat]
    <3>1. CASE account = NoAccount
      BY <3>1 DEF NoAccount
    <3>2. CASE \E quarter \in 0 .. Quarters - 1 :
                 account = [exists |-> TRUE, verified |-> TRUE, trialEnds |-> TrialDays * Quarters + quarter]
      BY <3>2, AccountAssumption DEF Quarters
    <3>. QED
      BY <3>1, <3>2 DEF AccountInit
  <2>. QED
    BY <2>1 DEF AccountInit, Quarters
<1>5. links \in LinkTable /\ links.issued = 0 /\ links.live = {} /\ links.used = {}
  BY DEF AccountInit, LinkTable
<1>6. mails \in [MailKinds -> MailCount] /\ mails["welcome"].ordered = 0
  BY KindsAreMails DEF AccountInit, MailCount
<1>7. AccountTypes
  BY <1>1, <1>2, <1>3, <1>4, <1>5, <1>6 DEF AccountInit, AccountTypes, RequestTypes, MailTypes
<1>8. CountersExpire
  BY <1>2 DEF CountersExpire
<1>9. LinksAreSpent
  <2>1. Verifying = {}
    BY <1>3 DEF Verifying
  <2>2. Cardinality({}) = 0
    BY FS_EmptySet
  <2>. QED
    BY <1>5, <1>6, <2>1, <2>2 DEF LinksAreSpent
<1>. QED
  BY <1>7, <1>8, <1>9 DEF AccountInv

LEMMA AccountStep == AccountInv /\ [AccountNext]_accountVars => AccountInv'
<1>. SUFFICES ASSUME AccountInv, [AccountNext]_accountVars PROVE AccountInv'
  OBVIOUS
<1>1. ASSUME NEW v \in Visits, VisitStep(v) PROVE AccountInv'
  <2>1. CASE \E key \in spare.uses : CountRequest(v, key)
    <3>1. spare.uses \subseteq Counters
      BY DEF AccountInv, AccountTypes, RequestTypes, Allowance, Counters
    <3>. QED
      BY <2>1, <3>1, CounterKeeps
  <2>2. CASE SetWindow(v)
    BY <2>2, CounterKeeps
  <2>. QED
    BY <1>1, <2>1, <2>2, HandlerKeeps, OrderKeeps, StoreKeeps, ConsumeKeeps, WelcomeKeeps DEF VisitStep
<1>2. CASE \E key \in Counters : WindowEnds(key)
  BY <1>2, CounterKeeps
<1>3. CASE UNCHANGED accountVars
  <2>1. UNCHANGED <<account, counter, visit, spare, links, mails, outbox, scans, clock>>
    BY <1>3 DEF accountVars
  <2>2. MailTypes'
    BY <2>1 DEF AccountInv, AccountTypes, MailTypes
  <2>. QED
    BY <2>1, <2>2, BackgroundKeeps DEF AccountInv, AccountTypes, RequestTypes
<1>. QED
  BY <1>1, <1>2, <1>3, MailKeeps, ScanKeeps, TickKeeps DEF AccountNext

LEMMA AccountInvHolds == AccountSpec => []AccountInv
BY AccountInitInv, AccountStep, PTL DEF AccountSpec

\* A rate counter expires unless its first request died before EXPIRE
\* (_check_rate_limit), whatever the limits.
THEOREM CountersAlwaysExpire == AccountSpec => []CountersExpire
<1>1. AccountInv => CountersExpire
  BY DEF AccountInv
<1>. QED
  BY <1>1, AccountInvHolds, PTL

---------------------------------------------------------------------------
(* The log of the mails *)

\* Tasks of a kind that have not ended: those whose mail is sent, and the others.
TasksOf(kind) == {task \in outbox : task.kind = kind}

SentOf(kind) == {task \in TasksOf(kind) : task.sent}

UnsentOf(kind) == {task \in TasksOf(kind) : ~ task.sent}

\* A task stands for an order without an entry yet; if it has sent its mail, for
\* a mail without an entry, if not, for an order without a mail.
MailsAreCounted ==
  /\ IsFiniteSet(outbox)
  /\ \A kind \in MailKinds :
       /\ mails[kind].logged + Cardinality(SentOf(kind)) <= mails[kind].sent
       /\ mails[kind].logged + Cardinality(TasksOf(kind)) <= mails[kind].ordered
       /\ spare.timely => mails[kind].sent + Cardinality(UnsentOf(kind)) <= mails[kind].ordered

LEMMA GrowsByOne ==
  ASSUME NEW S, IsFiniteSet(S), NEW x, NEW T, T \subseteq S \union {x}
  PROVE  IsFiniteSet(T) /\ Cardinality(T) <= Cardinality(S) + 1
<1>1. /\ IsFiniteSet(S \union {x}) /\ Cardinality(S) \in Nat
      /\ Cardinality(S \union {x}) = Cardinality(S) \/ Cardinality(S \union {x}) = Cardinality(S) + 1
  BY FS_AddElement, FS_CardinalityType
<1>2. IsFiniteSet(T) /\ Cardinality(T) <= Cardinality(S \union {x}) /\ Cardinality(T) \in Nat
  BY <1>1, FS_Subset, FS_CardinalityType
<1>. QED
  BY <1>1, <1>2

LEMMA GrowsNot ==
  ASSUME NEW S, IsFiniteSet(S), NEW T, T \subseteq S
  PROVE  IsFiniteSet(T) /\ Cardinality(T) <= Cardinality(S)
BY FS_Subset

LEMMA ShrinksByOne ==
  ASSUME NEW S, IsFiniteSet(S), NEW x \in S, NEW T, T \subseteq S \ {x}
  PROVE  Cardinality(T) + 1 <= Cardinality(S)
<1>1. /\ IsFiniteSet(S \ {x}) /\ Cardinality(S \ {x}) = Cardinality(S) - 1
      /\ Cardinality(S) \in Nat
  BY FS_RemoveElement, FS_CardinalityType
<1>2. Cardinality(T) <= Cardinality(S) - 1 /\ Cardinality(T) \in Nat
  BY <1>1, FS_Subset, FS_CardinalityType
<1>. QED
  BY <1>1, <1>2

LEMMA Replaces ==
  ASSUME NEW S, IsFiniteSet(S), NEW x \in S, NEW y, NEW T, T \subseteq (S \ {x}) \union {y}
  PROVE  IsFiniteSet(T) /\ Cardinality(T) <= Cardinality(S)
<1>1. /\ IsFiniteSet(S \ {x}) /\ Cardinality(S \ {x}) = Cardinality(S) - 1
      /\ Cardinality(S) \in Nat
  BY FS_RemoveElement, FS_CardinalityType
<1>2. IsFiniteSet(T) /\ Cardinality(T) <= Cardinality(S \ {x}) + 1
  BY <1>1, GrowsByOne
<1>. QED
  BY <1>1, <1>2

LEMMA TasksAreFinite ==
  ASSUME IsFiniteSet(outbox), NEW kind
  PROVE  /\ IsFiniteSet(TasksOf(kind)) /\ IsFiniteSet(SentOf(kind)) /\ IsFiniteSet(UnsentOf(kind))
         /\ Cardinality(TasksOf(kind)) \in Nat /\ Cardinality(SentOf(kind)) \in Nat
         /\ Cardinality(UnsentOf(kind)) \in Nat
<1>1. TasksOf(kind) \subseteq outbox /\ SentOf(kind) \subseteq outbox /\ UnsentOf(kind) \subseteq outbox
  BY DEF TasksOf, SentOf, UnsentOf
<1>. QED
  BY <1>1, FS_Subset, FS_CardinalityType

\* One kind of mail is accounted for after a step, if at most as many tasks have
\* come as were ordered, and as many have gone as have an entry.
LEMMA KindIsCounted ==
  ASSUME MailsAreCounted, NEW kind \in MailKinds, IsFiniteSet(outbox'),
         mails[kind] \in MailCount, mails'[kind] \in MailCount, spare'.timely => spare.timely,
         Cardinality(SentOf(kind)') - Cardinality(SentOf(kind))
           <= (mails'[kind].sent - mails[kind].sent) - (mails'[kind].logged - mails[kind].logged),
         Cardinality(TasksOf(kind)') - Cardinality(TasksOf(kind))
           <= (mails'[kind].ordered - mails[kind].ordered) - (mails'[kind].logged - mails[kind].logged),
         spare'.timely => Cardinality(UnsentOf(kind)') - Cardinality(UnsentOf(kind))
           <= (mails'[kind].ordered - mails[kind].ordered) - (mails'[kind].sent - mails[kind].sent)
  PROVE  /\ mails'[kind].logged + Cardinality(SentOf(kind)') <= mails'[kind].sent
         /\ mails'[kind].logged + Cardinality(TasksOf(kind)') <= mails'[kind].ordered
         /\ spare'.timely => mails'[kind].sent + Cardinality(UnsentOf(kind)') <= mails'[kind].ordered
<1>1. /\ Cardinality(TasksOf(kind)) \in Nat /\ Cardinality(SentOf(kind)) \in Nat
      /\ Cardinality(UnsentOf(kind)) \in Nat
  BY TasksAreFinite DEF MailsAreCounted
<1>2. /\ Cardinality(TasksOf(kind)') \in Nat /\ Cardinality(SentOf(kind)') \in Nat
      /\ Cardinality(UnsentOf(kind)') \in Nat
  <2>1. /\ TasksOf(kind)' \subseteq outbox' /\ SentOf(kind)' \subseteq outbox'
        /\ UnsentOf(kind)' \subseteq outbox'
    BY DEF TasksOf, SentOf, UnsentOf
  <2>. QED
    BY <2>1, FS_Subset, FS_CardinalityType
<1>3. /\ mails[kind].logged \in Nat /\ mails[kind].sent \in Nat /\ mails[kind].ordered \in Nat
      /\ mails'[kind].logged \in Nat /\ mails'[kind].sent \in Nat /\ mails'[kind].ordered \in Nat
  BY DEF MailCount
<1>4. /\ mails[kind].logged + Cardinality(SentOf(kind)) <= mails[kind].sent
      /\ mails[kind].logged + Cardinality(TasksOf(kind)) <= mails[kind].ordered
      /\ spare.timely => mails[kind].sent + Cardinality(UnsentOf(kind)) <= mails[kind].ordered
  BY DEF MailsAreCounted
<1>5. mails'[kind].logged + Cardinality(SentOf(kind)') <= mails'[kind].sent
  BY <1>1, <1>2, <1>3, <1>4
<1>6. mails'[kind].logged + Cardinality(TasksOf(kind)') <= mails'[kind].ordered
  BY <1>1, <1>2, <1>3, <1>4
<1>7. spare'.timely => mails'[kind].sent + Cardinality(UnsentOf(kind)') <= mails'[kind].ordered
  <2>. SUFFICES ASSUME spare'.timely
                PROVE  mails'[kind].sent + Cardinality(UnsentOf(kind)') <= mails'[kind].ordered
    OBVIOUS
  <2>1. mails[kind].sent + Cardinality(UnsentOf(kind)) <= mails[kind].ordered
    BY <1>4
  <2>2. Cardinality(UnsentOf(kind)') - Cardinality(UnsentOf(kind))
          <= (mails'[kind].ordered - mails[kind].ordered) - (mails'[kind].sent - mails[kind].sent)
    OBVIOUS
  <2>. QED
    BY <1>1, <1>2, <1>3, <2>1, <2>2
<1>. QED
  BY <1>5, <1>6, <1>7

\* A kind of which nothing is ordered, sent or entered, and no task comes.
LEMMA KindRests ==
  ASSUME MailsAreCounted, NEW kind \in MailKinds, IsFiniteSet(outbox'),
         mails[kind] \in MailCount, mails'[kind] = mails[kind], spare'.timely => spare.timely,
         {task \in outbox' : task.kind = kind} \subseteq outbox
  PROVE  /\ mails'[kind].logged + Cardinality(SentOf(kind)') <= mails'[kind].sent
         /\ mails'[kind].logged + Cardinality(TasksOf(kind)') <= mails'[kind].ordered
         /\ spare'.timely => mails'[kind].sent + Cardinality(UnsentOf(kind)') <= mails'[kind].ordered
<1>1. /\ TasksOf(kind)' \subseteq TasksOf(kind) /\ SentOf(kind)' \subseteq SentOf(kind)
      /\ UnsentOf(kind)' \subseteq UnsentOf(kind)
  BY DEF TasksOf, SentOf, UnsentOf
<1>2. /\ IsFiniteSet(TasksOf(kind)) /\ IsFiniteSet(SentOf(kind)) /\ IsFiniteSet(UnsentOf(kind))
      /\ Cardinality(TasksOf(kind)) \in Nat /\ Cardinality(SentOf(kind)) \in Nat
      /\ Cardinality(UnsentOf(kind)) \in Nat
  BY TasksAreFinite DEF MailsAreCounted
<1>3. /\ Cardinality(TasksOf(kind)') <= Cardinality(TasksOf(kind))
      /\ Cardinality(SentOf(kind)') <= Cardinality(SentOf(kind))
      /\ Cardinality(UnsentOf(kind)') <= Cardinality(UnsentOf(kind))
      /\ Cardinality(TasksOf(kind)') \in Nat /\ Cardinality(SentOf(kind)') \in Nat
      /\ Cardinality(UnsentOf(kind)') \in Nat
  BY <1>1, <1>2, FS_Subset, FS_CardinalityType
<1>4. mails[kind].logged \in Nat /\ mails[kind].sent \in Nat /\ mails[kind].ordered \in Nat
  BY DEF MailCount
<1>. QED
  BY <1>2, <1>3, <1>4, KindIsCounted

\* A task is ordered.
LEMMA EnqueueCounts ==
  ASSUME MailTypes, MailsAreCounted, NEW kind \in MailKinds, NEW id \in Nat, Enqueue(kind, id),
         spare'.timely => spare.timely
  PROVE  MailsAreCounted'
<1>. DEFINE new == [kind |-> kind, id |-> id, tries |-> 0, sent |-> FALSE]
<1>1. outbox' = outbox \union {new} /\ new.kind = kind /\ new.sent = FALSE
  BY DEF Enqueue
<1>2. mails' = [mails EXCEPT ![kind].ordered = mails[kind].ordered + 1]
  BY DEF Enqueue
<1>. HIDE DEF new
<1>3. IsFiniteSet(outbox') /\ IsFiniteSet(outbox)
  BY <1>1, GrowsByOne DEF MailsAreCounted
<1>4. \A k \in MailKinds : mails[k] \in MailCount
  BY DEF MailTypes
<1>5. ASSUME NEW k \in MailKinds \ {kind}
      PROVE  mails'[k] = mails[k] /\ {task \in outbox' : task.kind = k} \subseteq outbox
  BY <1>1, <1>2 DEF MailTypes
<1>6. /\ mails'[kind] \in MailCount /\ mails'[kind].ordered = mails[kind].ordered + 1
      /\ mails'[kind].sent = mails[kind].sent /\ mails'[kind].logged = mails[kind].logged
  BY <1>2, <1>4 DEF MailTypes, MailCount
<1>7. /\ Cardinality(SentOf(kind)') - Cardinality(SentOf(kind)) <= 0
      /\ Cardinality(TasksOf(kind)') - Cardinality(TasksOf(kind)) <= 1
      /\ Cardinality(UnsentOf(kind)') - Cardinality(UnsentOf(kind)) <= 1
  <2>1. /\ SentOf(kind)' \subseteq SentOf(kind) /\ TasksOf(kind)' \subseteq TasksOf(kind) \union {new}
        /\ UnsentOf(kind)' \subseteq UnsentOf(kind) \union {new}
    BY <1>1 DEF SentOf, TasksOf, UnsentOf
  <2>2. /\ IsFiniteSet(TasksOf(kind)) /\ IsFiniteSet(SentOf(kind)) /\ IsFiniteSet(UnsentOf(kind))
        /\ Cardinality(TasksOf(kind)) \in Nat /\ Cardinality(SentOf(kind)) \in Nat
        /\ Cardinality(UnsentOf(kind)) \in Nat
    BY <1>3, TasksAreFinite
  <2>3. /\ IsFiniteSet(SentOf(kind)') /\ Cardinality(SentOf(kind)') <= Cardinality(SentOf(kind))
        /\ IsFiniteSet(TasksOf(kind)') /\ Cardinality(TasksOf(kind)') <= Cardinality(TasksOf(kind)) + 1
        /\ IsFiniteSet(UnsentOf(kind)') /\ Cardinality(UnsentOf(kind)') <= Cardinality(UnsentOf(kind)) + 1
    BY <2>1, <2>2, GrowsNot, GrowsByOne
  <2>4. /\ Cardinality(SentOf(kind)') \in Nat /\ Cardinality(TasksOf(kind)') \in Nat
        /\ Cardinality(UnsentOf(kind)') \in Nat
    BY <2>3, FS_CardinalityType
  <2>. QED
    BY <2>2, <2>3, <2>4
<1>8. /\ Cardinality(SentOf(kind)') - Cardinality(SentOf(kind))
           <= (mails'[kind].sent - mails[kind].sent) - (mails'[kind].logged - mails[kind].logged)
      /\ Cardinality(TasksOf(kind)') - Cardinality(TasksOf(kind))
           <= (mails'[kind].ordered - mails[kind].ordered) - (mails'[kind].logged - mails[kind].logged)
      /\ Cardinality(UnsentOf(kind)') - Cardinality(UnsentOf(kind))
           <= (mails'[kind].ordered - mails[kind].ordered) - (mails'[kind].sent - mails[kind].sent)
  <2>1. /\ mails[kind].ordered \in Nat /\ mails[kind].sent \in Nat /\ mails[kind].logged \in Nat
    BY <1>4 DEF MailCount
  <2>. QED
    BY <1>6, <1>7, <2>1
<1>9. /\ mails'[kind].logged + Cardinality(SentOf(kind)') <= mails'[kind].sent
      /\ mails'[kind].logged + Cardinality(TasksOf(kind)') <= mails'[kind].ordered
      /\ spare'.timely => mails'[kind].sent + Cardinality(UnsentOf(kind)') <= mails'[kind].ordered
  BY <1>3, <1>4, <1>6, <1>8, KindIsCounted
<1>. QED
  <2>. SUFFICES ASSUME NEW k \in MailKinds
                PROVE  /\ mails'[k].logged + Cardinality(SentOf(k)') <= mails'[k].sent
                       /\ mails'[k].logged + Cardinality(TasksOf(k)') <= mails'[k].ordered
                       /\ spare'.timely => mails'[k].sent + Cardinality(UnsentOf(k)') <= mails'[k].ordered
    BY <1>3 DEF MailsAreCounted
  <2>1. CASE k = kind
    BY <1>9, <2>1
  <2>2. CASE k # kind
    BY <1>3, <1>4, <1>5, <2>2, KindRests
  <2>. QED
    BY <2>1, <2>2

\* A task sends its mail, enters it, begins again or is gone.
LEMMA MailStepCounts ==
  ASSUME AccountTypes, MailTypes', MailsAreCounted, NEW task \in outbox, MailStep(task)
  PROVE  MailsAreCounted' /\ (spare'.timely => spare.timely)
<1>. DEFINE kind == task.kind
            again == [task EXCEPT !.tries = @ + 1, !.sent = FALSE]
            done == [task EXCEPT !.sent = TRUE]
<1>1. /\ task \in [kind : MailKinds, id : Nat, tries : Int, sent : BOOLEAN]
      /\ kind \in MailKinds /\ task.sent \in BOOLEAN
      /\ mails \in [MailKinds -> MailCount] /\ mails' \in [MailKinds -> MailCount]
  BY DEF AccountTypes, MailTypes
<1>2. again.kind = kind /\ again.sent = FALSE /\ done.kind = kind /\ done.sent = TRUE
  BY <1>1
<1>3. spare'.timely => spare.timely
  <2>1. CASE Setback
    BY <2>1, SetbackStep DEF AccountTypes
  <2>2. CASE UNCHANGED spare
    BY <2>2
  <2>. QED
    BY <2>1, <2>2 DEF MailStep, SendMail, WriteEmailAuditLog, RetryMail, MailerDies
<1>4. /\ outbox' \subseteq (outbox \ {task}) \union {again, done}
      /\ \A k \in MailKinds \ {kind} : mails'[k] = mails[k]
  BY <1>1 DEF MailStep, SendMail, WriteEmailAuditLog, RetryMail, MailerDies, Replace
<1>5. IsFiniteSet(outbox) /\ IsFiniteSet(outbox')
  <2>1. IsFiniteSet(outbox \union {again}) /\ IsFiniteSet((outbox \union {again}) \union {done})
    BY GrowsByOne DEF MailsAreCounted
  <2>2. outbox' \subseteq (outbox \union {again}) \union {done}
    BY <1>4
  <2>. QED
    BY <2>1, <2>2, FS_Subset DEF MailsAreCounted
<1>6. /\ IsFiniteSet(TasksOf(kind)) /\ IsFiniteSet(SentOf(kind)) /\ IsFiniteSet(UnsentOf(kind))
      /\ Cardinality(TasksOf(kind)) \in Nat /\ Cardinality(SentOf(kind)) \in Nat
      /\ Cardinality(UnsentOf(kind)) \in Nat
  BY <1>5, TasksAreFinite
<1>7. task \in TasksOf(kind) /\ (task.sent => task \in SentOf(kind)) /\ (~ task.sent => task \in UnsentOf(kind))
  BY <1>1 DEF TasksOf, SentOf, UnsentOf
<1>8. /\ mails[kind].ordered \in Nat /\ mails[kind].sent \in Nat /\ mails[kind].logged \in Nat
      /\ mails[kind] \in MailCount /\ mails'[kind] \in MailCount
  BY <1>1 DEF MailCount
<1>9. /\ Cardinality(TasksOf(kind)') \in Nat /\ Cardinality(SentOf(kind)') \in Nat
      /\ Cardinality(UnsentOf(kind)') \in Nat
  <2>1. /\ TasksOf(kind)' \subseteq outbox' /\ SentOf(kind)' \subseteq outbox'
        /\ UnsentOf(kind)' \subseteq outbox'
    BY DEF TasksOf, SentOf, UnsentOf
  <2>. QED
    BY <1>5, <2>1, FS_Subset, FS_CardinalityType
<1>10. /\ Cardinality(SentOf(kind)') - Cardinality(SentOf(kind))
            <= (mails'[kind].sent - mails[kind].sent) - (mails'[kind].logged - mails[kind].logged)
       /\ Cardinality(TasksOf(kind)') - Cardinality(TasksOf(kind))
            <= (mails'[kind].ordered - mails[kind].ordered) - (mails'[kind].logged - mails[kind].logged)
       /\ spare'.timely => Cardinality(UnsentOf(kind)') - Cardinality(UnsentOf(kind))
            <= (mails'[kind].ordered - mails[kind].ordered) - (mails'[kind].sent - mails[kind].sent)
  <2>1. CASE SendMail(task)
    <3>1. ~ task.sent /\ outbox' \subseteq (outbox \ {task}) \union {done}
      BY <2>1 DEF SendMail, Replace
    <3>2. /\ mails'[kind].sent = mails[kind].sent + 1 /\ mails'[kind].logged = mails[kind].logged
          /\ mails'[kind].ordered = mails[kind].ordered
      BY <1>1, <1>8, <2>1 DEF SendMail, MailCount
    <3>3. /\ SentOf(kind)' \subseteq SentOf(kind) \union {done}
          /\ TasksOf(kind)' \subseteq (TasksOf(kind) \ {task}) \union {done}
          /\ UnsentOf(kind)' \subseteq UnsentOf(kind) \ {task}
      <4>. HIDE DEF done, again, kind
      <4>. QED
        BY <1>2, <3>1 DEF SentOf, TasksOf, UnsentOf
    <3>. HIDE DEF done, again, kind
    <3>4. /\ Cardinality(SentOf(kind)') <= Cardinality(SentOf(kind)) + 1
          /\ Cardinality(TasksOf(kind)') <= Cardinality(TasksOf(kind))
          /\ Cardinality(UnsentOf(kind)') + 1 <= Cardinality(UnsentOf(kind))
      BY <1>6, <1>7, <3>1, <3>3, GrowsByOne, Replaces, ShrinksByOne
    <3>. QED
      BY <1>6, <1>8, <1>9, <3>2, <3>4
  <2>2. CASE WriteEmailAuditLog(task)
    <3>1. task.sent /\ outbox' = outbox \ {task}
      BY <2>2 DEF WriteEmailAuditLog, Replace
    <3>2. /\ mails'[kind].logged = mails[kind].logged + 1 /\ mails'[kind].sent = mails[kind].sent
          /\ mails'[kind].ordered = mails[kind].ordered
      BY <1>1, <1>8, <2>2 DEF WriteEmailAuditLog, MailCount
    <3>. HIDE DEF done, again, kind
    <3>3. /\ SentOf(kind)' \subseteq SentOf(kind) \ {task}
          /\ TasksOf(kind)' \subseteq TasksOf(kind) \ {task}
          /\ UnsentOf(kind)' \subseteq UnsentOf(kind)
      BY <3>1 DEF SentOf, TasksOf, UnsentOf
    <3>4. /\ Cardinality(SentOf(kind)') + 1 <= Cardinality(SentOf(kind))
          /\ Cardinality(TasksOf(kind)') + 1 <= Cardinality(TasksOf(kind))
          /\ Cardinality(UnsentOf(kind)') <= Cardinality(UnsentOf(kind))
      BY <1>6, <1>7, <3>1, <3>3, GrowsNot, ShrinksByOne
    <3>. QED
      BY <1>6, <1>8, <1>9, <3>2, <3>4
  <2>3. CASE RetryMail(task) \/ MailerDies(task)
    <3>1. UNCHANGED mails /\ outbox' \subseteq (outbox \ {task}) \union {again} /\ Setback
      BY <2>3 DEF RetryMail, MailerDies, Replace
    <3>2. spare'.timely = FALSE
      BY <3>1, SetbackStep DEF AccountTypes
    <3>. HIDE DEF done, again, kind
    <3>3. /\ SentOf(kind)' \subseteq SentOf(kind)
          /\ TasksOf(kind)' \subseteq (TasksOf(kind) \ {task}) \union {again}
      BY <1>2, <3>1 DEF SentOf, TasksOf
    <3>4. /\ Cardinality(SentOf(kind)') <= Cardinality(SentOf(kind))
          /\ Cardinality(TasksOf(kind)') <= Cardinality(TasksOf(kind))
      BY <1>6, <1>7, <3>3, GrowsNot, Replaces
    <3>. QED
      BY <1>6, <1>8, <1>9, <3>1, <3>2, <3>4
  <2>. QED
    BY <2>1, <2>2, <2>3 DEF MailStep
<1>. HIDE DEF kind
<1>11. /\ mails'[kind].logged + Cardinality(SentOf(kind)') <= mails'[kind].sent
       /\ mails'[kind].logged + Cardinality(TasksOf(kind)') <= mails'[kind].ordered
       /\ spare'.timely => mails'[kind].sent + Cardinality(UnsentOf(kind)') <= mails'[kind].ordered
  BY <1>1, <1>3, <1>5, <1>8, <1>10, KindIsCounted
<1>. QED
  <2>. SUFFICES ASSUME NEW k \in MailKinds
                PROVE  /\ mails'[k].logged + Cardinality(SentOf(k)') <= mails'[k].sent
                       /\ mails'[k].logged + Cardinality(TasksOf(k)') <= mails'[k].ordered
                       /\ spare'.timely => mails'[k].sent + Cardinality(UnsentOf(k)') <= mails'[k].ordered
    BY <1>3, <1>5 DEF MailsAreCounted
  <2>1. CASE k = kind
    BY <1>11, <2>1
  <2>2. CASE k # kind
    <3>. HIDE DEF again, done
    <3>1. {t \in outbox' : t.kind = k} \subseteq outbox
      BY <1>2, <1>4, <2>2
    <3>2. mails[k] \in MailCount /\ mails'[k] = mails[k]
      BY <1>1, <1>4, <2>2
    <3>. QED
      BY <1>3, <1>5, <3>1, <3>2, KindRests
  <2>. QED
    BY <2>1, <2>2

\* What the steps that order no mail of the trial leave alone.
Elsewhere ==
  /\ UNCHANGED <<clock, scans>>
  /\ \/ UNCHANGED <<outbox, mails>>
     \/ \E kind \in MailKinds \ TrialMails, id \in Nat : Enqueue(kind, id)

SpareGoesOn == spare'.days = spare.days /\ (spare'.timely => spare.timely)

LEMMA SetbackGoesOn ==
  ASSUME RequestTypes, Setback
  PROVE  SpareGoesOn /\ ~ spare'.timely
<1>1. spare' \in Allowance /\ spare'.timely = FALSE
  BY SetbackStep
<1>2. spare'.days = spare.days
  BY DEF Setback, RequestTypes, Allowance
<1>. QED
  BY <1>1, <1>2 DEF SpareGoesOn

LEMMA SpareStaysGoesOn ==
  ASSUME UNCHANGED spare
  PROVE  SpareGoesOn
BY DEF SpareGoesOn

LEMMA OrderElsewhere ==
  ASSUME AccountTypes, NEW kind \in MailKinds \ TrialMails, NEW id \in Nat,
         Order(kind, id), UNCHANGED <<clock, scans>>
  PROVE  Elsewhere /\ SpareGoesOn
<1>1. CASE Enqueue(kind, id) /\ UNCHANGED spare
  BY <1>1, SpareStaysGoesOn DEF Elsewhere
<1>2. CASE Setback /\ UNCHANGED <<outbox, mails>>
  BY <1>2, SetbackGoesOn DEF Elsewhere, AccountTypes
<1>. QED
  BY <1>1, <1>2 DEF Order

LEMMA VisitElsewhere ==
  ASSUME AccountTypes, NEW v \in Visits, VisitStep(v)
  PROVE  Elsewhere /\ SpareGoesOn
<1>1. CASE \/ \E key \in spare.uses : CountRequest(v, key)
           \/ \E link \in Link : ConsumeVerificationToken(v, link)
  <2>1. spare.calls > 0 /\ spare' = [spare EXCEPT !.calls = spare.calls - 1]
    BY <1>1 DEF CountRequest, ConsumeVerificationToken
  <2>2. spare'.timely = spare.timely /\ spare'.days = spare.days
    BY <2>1 DEF AccountTypes, RequestTypes, Allowance
  <2>. QED
    BY <1>1, <2>2 DEF CountRequest, ConsumeVerificationToken, Elsewhere, SpareGoesOn
<1>2. CASE \/ SetWindow(v) \/ CheckEmail(v) \/ CreateUser(v) \/ ResendVerification(v)
           \/ StoreVerificationToken(v) \/ ReadUser(v) \/ MarkVerified(v)
  BY <1>2, SpareStaysGoesOn
  DEF SetWindow, CheckEmail, CreateUser, ResendVerification, StoreVerificationToken, ReadUser,
      MarkVerified, Elsewhere
<1>3. CASE OrderVerification(v) \/ CreateInquiry(v) \/ CreateDpaRequest(v) \/ OrderWelcome(v)
  <2>1. PICK kind \in {"verification", "inquiry", "dpa", "welcome"}, id \in Nat : Order(kind, id)
    <3>1. visit[v].link \in Nat /\ \A k \in MailKinds : mails[k].ordered + 1 \in Nat
      BY DEF AccountTypes, RequestTypes, MailTypes, VisitState, MailCount
    <3>. QED
      BY <1>3, <3>1, KindsAreMails DEF OrderVerification, CreateInquiry, CreateDpaRequest, OrderWelcome
  <2>2. kind \in MailKinds \ TrialMails
    BY KindsAreMails DEF TrialMails
  <2>3. UNCHANGED <<clock, scans>>
    BY <1>3 DEF OrderVerification, CreateInquiry, CreateDpaRequest, OrderWelcome
  <2>. QED
    BY <2>1, <2>2, <2>3, OrderElsewhere
<1>4. CASE VisitDies(v)
  BY <1>4, SetbackGoesOn DEF VisitDies, Elsewhere, AccountTypes
<1>. QED
  BY <1>1, <1>2, <1>3, <1>4 DEF VisitStep

LEMMA TickGoesOn ==
  ASSUME AccountTypes, Tick
  PROVE  SpareGoesOn /\ (spare'.timely => scans = {})
<1>1. CASE scans = {}
  BY <1>1, SpareStaysGoesOn DEF Tick
<1>2. CASE scans # {}
  <2>1. spare' = [spare EXCEPT !.late = @ - 1, !.timely = FALSE]
    BY <1>2 DEF Tick
  <2>2. spare'.timely = FALSE /\ spare'.days = spare.days
    BY <2>1 DEF AccountTypes, RequestTypes, Allowance
  <2>. QED
    BY <2>2 DEF SpareGoesOn
<1>. QED
  BY <1>1, <1>2

\* What a scan may order is a mail of the trial.
LEMMA WindowsAre ==
  ASSUME NEW n \in 1 .. 3
  PROVE  /\ Windows[n].kind \in TrialMails /\ Windows[n].kind \in MailKinds
         /\ n = 1 => Windows[n].kind = "seven" /\ Windows[n].days = 7
         /\ n = 2 => Windows[n].kind = "one" /\ Windows[n].days = 1
         /\ n = 3 => Windows[n].kind = "expired" /\ Windows[n].days = 0
<1>1. n = 1 \/ n = 2 \/ n = 3
  OBVIOUS
<1>. QED
  BY <1>1, KindsAreMails DEF Windows, TrialMails

LEMMA MailsStayCounted ==
  ASSUME MailsAreCounted, UNCHANGED <<outbox, mails>>, spare'.timely => spare.timely
  PROVE  MailsAreCounted'
BY DEF MailsAreCounted, TasksOf, SentOf, UnsentOf

LEMMA MailsCountedStep ==
  ASSUME AccountInv, AccountInv', MailsAreCounted, [AccountNext]_accountVars
  PROVE  MailsAreCounted'
<1>0. AccountTypes /\ RequestTypes /\ MailTypes /\ MailTypes'
  BY DEF AccountInv, AccountTypes
<1>1. ASSUME NEW v \in Visits, VisitStep(v) PROVE MailsAreCounted'
  <2>1. Elsewhere /\ (spare'.timely => spare.timely)
    BY <1>0, <1>1, VisitElsewhere DEF SpareGoesOn
  <2>2. CASE UNCHANGED <<outbox, mails>>
    BY <2>1, <2>2, MailsStayCounted
  <2>3. CASE \E kind \in MailKinds \ TrialMails, id \in Nat : Enqueue(kind, id)
    BY <1>0, <2>1, <2>3, EnqueueCounts
  <2>. QED
    BY <2>1, <2>2, <2>3 DEF Elsewhere
<1>2. ASSUME NEW key \in Counters, WindowEnds(key) PROVE MailsAreCounted'
  BY <1>2, MailsStayCounted DEF WindowEnds
<1>3. ASSUME NEW task \in outbox, MailStep(task) PROVE MailsAreCounted'
  BY <1>0, <1>3, MailStepCounts
<1>4. ASSUME NEW scan \in scans, ScanWindow(scan) PROVE MailsAreCounted'
  <2>1. scan.next \in 1 .. 3 /\ UNCHANGED spare
    BY <1>0, <1>4 DEF MailTypes, Scan, ScanWindow
  <2>. DEFINE kind == Windows[scan.next].kind
  <2>2. Enqueue(kind, mails[kind].ordered + 1) \/ UNCHANGED <<outbox, mails>>
    BY <1>4 DEF ScanWindow
  <2>3. kind \in MailKinds
    BY <2>1, WindowsAre
  <2>. HIDE DEF kind
  <2>4. mails[kind].ordered + 1 \in Nat
    BY <1>0, <2>3 DEF MailTypes, MailCount
  <2>. QED
    BY <1>0, <2>1, <2>2, <2>3, <2>4, EnqueueCounts, MailsStayCounted
<1>5. ASSUME NEW scan \in scans, ScanDies(scan) PROVE MailsAreCounted'
  BY <1>0, <1>5, SetbackGoesOn, MailsStayCounted DEF ScanDies
<1>6. CASE Tick
  <2>1. UNCHANGED <<outbox, mails>>
    BY <1>6 DEF Tick
  <2>2. spare'.timely => spare.timely
    BY <1>0, <1>6, TickGoesOn DEF SpareGoesOn
  <2>. QED
    BY <2>1, <2>2, MailsStayCounted
<1>7. CASE UNCHANGED accountVars
  BY <1>7, MailsStayCounted DEF accountVars
<1>. QED
  BY <1>1, <1>2, <1>3, <1>4, <1>5, <1>6, <1>7 DEF AccountNext

LEMMA MailsCountedInit == AccountInit => MailsAreCounted
<1>. SUFFICES ASSUME AccountInit PROVE MailsAreCounted
  OBVIOUS
<1>1. outbox = {} /\ \A k \in MailKinds : mails[k] = [ordered |-> 0, sent |-> 0, logged |-> 0]
  BY DEF AccountInit
<1>2. IsFiniteSet({}) /\ Cardinality({}) = 0
  BY FS_EmptySet
<1>3. \A k \in MailKinds : TasksOf(k) = {} /\ SentOf(k) = {} /\ UnsentOf(k) = {}
  BY <1>1 DEF TasksOf, SentOf, UnsentOf
<1>. QED
  BY <1>1, <1>2, <1>3 DEF MailsAreCounted

---------------------------------------------------------------------------
(* The mails about the end of the trial *)

\* The time of the scan that finds the trial in its n-th window.
Due(n) == ScanTime(DueDay(Windows[n].kind))

\* Handlers that can neither change the account nor issue a link.
VisitsAreIdle ==
  /\ links.live = {}
  /\ \A v \in Visits : visit[v].pc \in {"idle", "window", "counted"}

\* The one scan under way is that of this quarter.
OneScan ==
  \/ scans = {}
  \/ clock % Quarters = ScanQuarter /\ \E n \in 1 .. 3 : scans = {[day |-> Day(clock), next |-> n]}

MailsFollowScans ==
  \A n \in 1 .. 3 :
    LET ordered == mails[Windows[n].kind].ordered
    IN /\ clock < Due(n) => ordered = 0
       /\ clock = Due(n) => ordered = IF \E scan \in scans : scan.next <= n THEN 0 ELSE 1
       /\ clock > Due(n) => ordered = 1

TrialIsWatched ==
  spare.timely /\ spare.days > 0 =>
    /\ account.exists /\ account.verified /\ Day(account.trialEnds) = TrialDays
    /\ VisitsAreIdle /\ OneScan /\ MailsFollowScans
LEMMA QuartersOfDays ==
  ASSUME NEW time \in Nat
  PROVE  /\ Day(time) \in Nat /\ time % 4 \in 0 .. 3
         /\ time % 4 = time - 4 * Day(time)
<1>1. Day(time) = time \div 4
  BY DEF Day, Quarters
<1>2. time % 4 \in 0 .. 3
  OBVIOUS
<1>3. time \div 4 \in Int /\ time % 4 = time - 4 * (time \div 4)
  OBVIOUS
<1>4. time \div 4 \in Nat
  BY <1>2, <1>3
<1>. QED
  BY <1>1, <1>2, <1>3, <1>4

LEMMA DueTimes ==
  ASSUME account.trialEnds \in Nat
  PROVE  /\ Day(account.trialEnds) \in Nat
         /\ Due(1) = 4 * Day(account.trialEnds) - 27
         /\ Due(2) = 4 * Day(account.trialEnds) - 3
         /\ Due(3) = 4 * Day(account.trialEnds) + 5
<1>1. Day(account.trialEnds) \in Nat
  BY QuartersOfDays
<1>2. /\ Windows[1].kind = "seven" /\ Windows[2].kind = "one" /\ Windows[3].kind = "expired"
  BY WindowsAre
<1>3. /\ DueDay("seven") = Day(account.trialEnds) - 7 /\ DueDay("one") = Day(account.trialEnds) - 1
      /\ DueDay("expired") = Day(account.trialEnds) + 1
  BY <1>1 DEF DueDay
<1>. QED
  BY <1>1, <1>2, <1>3 DEF Due, ScanTime, Quarters, ScanQuarter

\* The scan of a day finds the trial in the window whose mail is due.
LEMMA WindowIsDue ==
  ASSUME account.trialEnds \in Nat, account.verified, clock \in Nat, clock % 4 = 1, NEW n \in 1 .. 3
  PROVE  InWindow(Windows[n].days) <=> clock = Due(n)
<1>. DEFINE ends == account.trialEnds
<1>1. /\ ends \in Nat /\ Day(ends) \in Nat /\ ends - 4 * Day(ends) \in 0 .. 3
      /\ Day(clock) \in Nat /\ clock = 4 * Day(clock) + 1
  <2>1. /\ ends \in Nat /\ Day(ends) \in Nat /\ ends - 4 * Day(ends) \in 0 .. 3
        /\ Day(clock) \in Nat /\ 1 = clock - 4 * Day(clock)
    BY QuartersOfDays
  <2>. QED
    BY <2>1
<1>2. /\ Due(1) = 4 * Day(ends) - 27 /\ Due(2) = 4 * Day(ends) - 3 /\ Due(3) = 4 * Day(ends) + 5
  BY DueTimes
<1>. HIDE DEF ends
<1>3. CASE n = 1
  <2>1. InWindow(7) <=> Day(ends) = Day(clock) + 7
    BY DEF InWindow, ends
  <2>2. Windows[1].days = 7
    BY WindowsAre
  <2>3. Day(ends) = Day(clock) + 7 <=> clock = Due(1)
    BY <1>1, <1>2
  <2>. QED
    BY <1>3, <2>1, <2>2, <2>3
<1>4. CASE n = 2
  <2>1. InWindow(1) <=> Day(ends) = Day(clock) + 1
    BY DEF InWindow, ends
  <2>2. Windows[2].days = 1
    BY WindowsAre
  <2>3. Day(ends) = Day(clock) + 1 <=> clock = Due(2)
    BY <1>1, <1>2
  <2>. QED
    BY <1>4, <2>1, <2>2, <2>3
<1>5. CASE n = 3
  <2>1. InWindow(0) <=> Day(ends) = Day(clock) - 1 /\ ends <= clock
    BY DEF InWindow, ends
  <2>2. Windows[3].days = 0
    BY WindowsAre
  <2>3. Day(ends) = Day(clock) - 1 => ends <= clock
    BY <1>1
  <2>4. Day(ends) = Day(clock) - 1 <=> clock = Due(3)
    <3>1. Day(ends) = Day(clock) - 1 => clock = 4 * Day(ends) + 5
      BY <1>1
    <3>2. clock = 4 * Day(ends) + 5 => Day(ends) = Day(clock) - 1
      BY <1>1
    <3>. QED
      BY <1>2, <3>1, <3>2
  <2>. QED
    BY <1>5, <2>1, <2>2, <2>3, <2>4
<1>. QED
  BY <1>3, <1>4, <1>5

LEMMA DueIsScanTime ==
  ASSUME account.trialEnds \in Nat, NEW n \in 1 .. 3
  PROVE  Due(n) \in Int /\ (\A time \in Nat : time = Due(n) => time % 4 = 1)
<1>1. /\ Day(account.trialEnds) \in Nat
      /\ Due(1) = 4 * Day(account.trialEnds) - 27 /\ Due(2) = 4 * Day(account.trialEnds) - 3
      /\ Due(3) = 4 * Day(account.trialEnds) + 5
  BY DueTimes
<1>2. PICK k \in Int : Due(n) = 4 * k + 1
  <2>1. /\ Day(account.trialEnds) - 7 \in Int /\ Day(account.trialEnds) - 1 \in Int
        /\ Day(account.trialEnds) + 1 \in Int
    BY <1>1
  <2>2. /\ Due(1) = 4 * (Day(account.trialEnds) - 7) + 1 /\ Due(2) = 4 * (Day(account.trialEnds) - 1) + 1
        /\ Due(3) = 4 * (Day(account.trialEnds) + 1) + 1
    BY <1>1
  <2>3. n = 1 \/ n = 2 \/ n = 3
    OBVIOUS
  <2>. QED
    BY <2>1, <2>2, <2>3
<1>3. ASSUME NEW time \in Nat, time = Due(n) PROVE time % 4 = 1
  BY <1>2, <1>3
<1>. QED
  BY <1>2, <1>3

LEMMA TrialInit == AccountInit => TrialIsWatched
<1>. SUFFICES ASSUME AccountInit, spare.days > 0
              PROVE  /\ account.exists /\ account.verified /\ Day(account.trialEnds) = TrialDays
                     /\ VisitsAreIdle /\ OneScan /\ MailsFollowScans
  BY DEF TrialIsWatched
<1>0. AccountTypes
  BY AccountInitInv DEF AccountInv
<1>1. PICK quarter \in 0 .. 3 : account = [exists |-> TRUE, verified |-> TRUE, trialEnds |-> TrialDays * 4 + quarter]
  <2>1. spare.days # 0
    BY <1>0 DEF AccountTypes, RequestTypes, Allowance
  <2>. QED
    BY <2>1 DEF AccountInit, Quarters
<1>2. TrialDays \in Nat /\ TrialDays > 7 /\ account.trialEnds \in Nat
  BY <1>1, AccountAssumption
<1>3. Day(account.trialEnds) = TrialDays
  BY <1>1, <1>2 DEF Day, Quarters
<1>4. clock \in 0 .. 3
  BY <1>2 DEF AccountInit, Quarters
<1>5. \A n \in 1 .. 3 : clock < Due(n) /\ Due(n) \in Int
  <2>1. /\ Due(1) = 4 * TrialDays - 27 /\ Due(2) = 4 * TrialDays - 3 /\ Due(3) = 4 * TrialDays + 5
    BY <1>2, <1>3, DueTimes
  <2>2. \A n \in 1 .. 3 : n = 1 \/ n = 2 \/ n = 3
    OBVIOUS
  <2>. QED
    BY <1>2, <1>4, <2>1, <2>2
<1>6. \A n \in 1 .. 3 : mails[Windows[n].kind].ordered = 0
  BY WindowsAre DEF AccountInit
<1>7. MailsFollowScans
  BY <1>4, <1>5, <1>6 DEF MailsFollowScans
<1>8. VisitsAreIdle /\ OneScan
  BY DEF AccountInit, VisitsAreIdle, OneScan, NoVisit
<1>. QED
  BY <1>1, <1>3, <1>7, <1>8

Watched ==
  /\ account.exists /\ account.verified /\ Day(account.trialEnds) = TrialDays
  /\ VisitsAreIdle /\ OneScan /\ MailsFollowScans

LEMMA DueStays ==
  ASSUME UNCHANGED account, NEW n \in 1 .. 3
  PROVE  Due(n)' = Due(n)
BY DEF Due, ScanTime, DueDay, Day

\* A step that orders no mail of the trial.
LEMMA WatchGoesOn ==
  ASSUME Watched, UNCHANGED <<account, clock, scans>>, VisitsAreIdle',
         \A kind \in TrialMails : mails'[kind].ordered = mails[kind].ordered
  PROVE  Watched'
<1>1. OneScan'
  BY DEF Watched, OneScan, Day
<1>2. MailsFollowScans'
  <2>1. \A n \in 1 .. 3 : Due(n)' = Due(n) /\ mails'[Windows[n].kind].ordered = mails[Windows[n].kind].ordered
    BY DueStays, WindowsAre
  <2>. QED
    BY <2>1 DEF Watched, MailsFollowScans
<1>3. Day(account.trialEnds)' = TrialDays
  BY DEF Watched, Day
<1>. QED
  BY <1>1, <1>2, <1>3 DEF Watched

LEMMA VisitIsWatched ==
  ASSUME AccountTypes, Watched, NEW v \in Visits, VisitStep(v), spare'.timely
  PROVE  Watched'
<1>0. /\ RequestTypes /\ MailTypes /\ links.live = {} /\ account.exists /\ account.verified
      /\ \A u \in Visits : visit[u].pc \in {"idle", "window", "counted"}
  BY DEF AccountTypes, Watched, VisitsAreIdle
<1>1. Elsewhere /\ ~ Setback
  <2>1. Elsewhere
    BY VisitElsewhere
  <2>. QED
    BY <1>0, <2>1, SetbackGoesOn
<1>2. \A kind \in TrialMails : mails'[kind].ordered = mails[kind].ordered
  <2>1. ASSUME NEW k \in MailKinds \ TrialMails, NEW id \in Nat, Enqueue(k, id)
        PROVE  \A kind \in TrialMails : mails'[kind].ordered = mails[kind].ordered
    <3>1. TrialMails \subseteq MailKinds \ {k}
      BY DEF MailKinds, LoggedMails
    <3>2. \A j \in MailKinds \ {k} : mails'[j].ordered = mails[j].ordered
      BY <1>0, <2>1, EnqueueStep
    <3>. QED
      BY <3>1, <3>2
  <2>. QED
    BY <1>1, <2>1 DEF Elsewhere
<1>3. UNCHANGED <<account, links>> /\ (\A u \in Visits : visit'[u].pc \in {"idle", "window", "counted"})
  <2>1. CASE \E key \in spare.uses : CountRequest(v, key)
    <3>1. PICK key \in spare.uses : CountRequest(v, key)
      BY <2>1
    <3>2. key \in Counters /\ spare.uses \subseteq Counters
      BY <1>0 DEF RequestTypes, Allowance, Counters
    <3>3. \/ visit' = visit
          \/ \E pc \in {"window", "counted"} :
               visit' = [visit EXCEPT ![v] = [NoVisit EXCEPT !.pc = pc, !.op = key]]
      BY <3>1 DEF CountRequest
    <3>4. CASE visit' = visit
      BY <1>0, <3>1, <3>4 DEF CountRequest
    <3>5. ASSUME NEW pc \in {"window", "counted"},
                 visit' = [visit EXCEPT ![v] = [NoVisit EXCEPT !.pc = pc, !.op = key]]
          PROVE  \A u \in Visits : visit'[u].pc \in {"idle", "window", "counted"}
      <4>. DEFINE new == [NoVisit EXCEPT !.pc = pc, !.op = key]
      <4>1. new \in VisitState /\ new.pc = pc
        BY <3>2 DEF NoVisit, VisitState, VisitSteps
      <4>. HIDE DEF new
      <4>2. visit' = [visit EXCEPT ![v] = new]
        BY <3>5 DEF new
      <4>3. visit'[v] = new /\ \A u \in Visits \ {v} : visit'[u] = visit[u]
        BY <1>0, <4>1, <4>2, SetVisit
      <4>. QED
        BY <1>0, <4>1, <4>3
    <3>. QED
      BY <3>1, <3>3, <3>4, <3>5 DEF CountRequest
  <2>2. CASE SetWindow(v)
    <3>1. Goto(v, "counted") /\ "counted" \in VisitSteps /\ UNCHANGED <<account, links>>
      BY <2>2 DEF SetWindow, VisitSteps
    <3>2. visit'[v].pc = "counted" /\ \A u \in Visits \ {v} : visit'[u] = visit[u]
      BY <1>0, <3>1, GotoStep
    <3>. QED
      BY <1>0, <3>1, <3>2
  <2>3. CASE \/ CheckEmail(v) \/ ResendVerification(v) \/ CreateInquiry(v) \/ CreateDpaRequest(v)
    <3>1. Answer(v) /\ UNCHANGED <<account, links>>
      BY <1>0, <2>3 DEF CheckEmail, ResendVerification, CreateInquiry, CreateDpaRequest
    <3>2. visit'[v].pc = "idle" /\ \A u \in Visits \ {v} : visit'[u] = visit[u]
      BY <1>0, <3>1, AnswerStep
    <3>. QED
      BY <1>0, <3>1, <3>2
  <2>4. CASE \E link \in Link : ConsumeVerificationToken(v, link)
    BY <1>0, <2>4 DEF ConsumeVerificationToken
  <2>5. CASE CreateUser(v) \/ StoreVerificationToken(v) \/ OrderVerification(v)
             \/ ReadUser(v) \/ MarkVerified(v) \/ OrderWelcome(v)
    BY <1>0, <2>5
    DEF CreateUser, StoreVerificationToken, OrderVerification, ReadUser, MarkVerified, OrderWelcome, VisitAt
  <2>6. CASE VisitDies(v)
    BY <1>1, <2>6 DEF VisitDies
  <2>. QED
    BY <2>1, <2>2, <2>3, <2>4, <2>5, <2>6 DEF VisitStep
<1>4. VisitsAreIdle'
  BY <1>0, <1>3 DEF VisitsAreIdle
<1>. QED
  BY <1>1, <1>2, <1>3, <1>4, WatchGoesOn DEF Elsewhere

LEMMA MailIsWatched ==
  ASSUME AccountTypes, Watched, NEW task \in outbox, MailStep(task)
  PROVE  Watched'
<1>0. /\ task.kind \in MailKinds /\ links \in LinkTable
      /\ mails \in [MailKinds -> MailCount] /\ TrialMails \subseteq MailKinds
  BY DEF AccountTypes, MailTypes, MailKinds, LoggedMails
<1>1. \A kind \in TrialMails : mails'[kind].ordered = mails[kind].ordered
  <2>1. CASE UNCHANGED mails
    BY <2>1
  <2>2. CASE \/ mails' = [mails EXCEPT ![task.kind].sent = mails[task.kind].sent + 1]
             \/ mails' = [mails EXCEPT ![task.kind].logged = mails[task.kind].logged + 1]
    BY <1>0, <2>2 DEF MailCount
  <2>. QED
    BY <2>1, <2>2 DEF MailStep, SendMail, WriteEmailAuditLog, RetryMail, MailerDies
<1>2. links'.live = links.live
  <2>1. CASE UNCHANGED links
    BY <2>1
  <2>2. CASE links' = [links EXCEPT !.received = links.received \union {task.id}]
    BY <1>0, <2>2 DEF LinkTable
  <2>. QED
    BY <2>1, <2>2 DEF MailStep, SendMail, WriteEmailAuditLog, RetryMail, MailerDies
<1>3. UNCHANGED <<account, visit, clock, scans>>
  BY DEF MailStep, SendMail, WriteEmailAuditLog, RetryMail, MailerDies
<1>4. VisitsAreIdle'
  BY <1>2, <1>3 DEF Watched, VisitsAreIdle
<1>. QED
  BY <1>1, <1>3, <1>4, WatchGoesOn

LEMMA KindsDiffer ==
  ASSUME NEW n \in 1 .. 3, NEW m \in 1 .. 3, n # m
  PROVE  Windows[m].kind # Windows[n].kind
<1>1. (n = 1 \/ n = 2 \/ n = 3) /\ (m = 1 \/ m = 2 \/ m = 3)
  OBVIOUS
<1>2. /\ Windows[1].kind = "seven" /\ Windows[2].kind = "one" /\ Windows[3].kind = "expired"
  BY WindowsAre
<1>. QED
  BY <1>1, <1>2

\* The scan goes through a window: it orders the mail that is due, and no other.
LEMMA ScanIsWatched ==
  ASSUME AccountTypes, Watched, NEW scan \in scans, ScanWindow(scan)
  PROVE  Watched'
<1>0. /\ MailTypes /\ account.trialEnds \in Nat /\ account.verified /\ clock \in Nat
      /\ \A k \in MailKinds : mails[k].ordered \in Nat
  BY DEF AccountTypes, MailTypes, Watched, MailCount
<1>1. clock % 4 = 1
  BY DEF Watched, OneScan, Quarters, ScanQuarter
<1>2. PICK n \in 1 .. 3 : scans = {[day |-> Day(clock), next |-> n]}
  BY DEF Watched, OneScan
<1>3. scan = [day |-> Day(clock), next |-> n] /\ scan.next = n /\ Len(Windows) = 3
  BY <1>2 DEF Windows
<1>4. UNCHANGED <<account, links, counter, visit, clock>>
  BY DEF ScanWindow
<1>5. scans' = IF n = 3 THEN {} ELSE {[day |-> Day(clock), next |-> n + 1]}
  <2>1. [scan EXCEPT !.next = scan.next + 1] = [day |-> Day(clock), next |-> n + 1]
    BY <1>3
  <2>2. scans \ {scan} = {}
    BY <1>2, <1>3
  <2>. QED
    BY <1>3, <2>1, <2>2 DEF ScanWindow
<1>6. OneScan'
  <2>1. n # 3 => n + 1 \in 1 .. 3
    OBVIOUS
  <2>2. Day(clock)' = Day(clock) /\ clock' % Quarters = ScanQuarter
    BY <1>1, <1>4 DEF Day, Quarters, ScanQuarter
  <2>3. CASE n = 3
    BY <1>5, <2>3 DEF OneScan
  <2>4. CASE n # 3
    BY <1>4, <1>5, <2>1, <2>2, <2>4 DEF OneScan
  <2>. QED
    BY <2>3, <2>4
<1>7. \A m \in 1 .. 3 : /\ (\E s \in scans : s.next <= m) <=> n <= m
                        /\ (\E s \in scans' : s.next <= m) <=> n < m
  <2>. SUFFICES ASSUME NEW m \in 1 .. 3
                PROVE  /\ (\E s \in scans : s.next <= m) <=> n <= m
                       /\ (\E s \in scans' : s.next <= m) <=> n < m
    OBVIOUS
  <2>1. \A s : s \in scans <=> s = [day |-> Day(clock), next |-> n]
    BY <1>2
  <2>2. (\E s \in scans : s.next <= m) <=> n <= m
    BY <2>1
  <2>3. CASE n = 3
    BY <1>5, <2>2, <2>3
  <2>4. CASE n # 3
    <3>. DEFINE later == [day |-> Day(clock), next |-> n + 1]
    <3>1. scans' = {later} /\ later.next = n + 1
      BY <1>5, <2>4
    <3>. HIDE DEF later
    <3>2. (\E s \in scans' : s.next <= m) <=> n + 1 <= m
      BY <3>1
    <3>. QED
      BY <2>2, <3>2
  <2>. QED
    BY <2>3, <2>4
<1>8. /\ InWindow(Windows[n].days) => Enqueue(Windows[n].kind, mails[Windows[n].kind].ordered + 1)
      /\ ~ InWindow(Windows[n].days) => UNCHANGED mails
  BY <1>3 DEF ScanWindow
<1>9. InWindow(Windows[n].days) <=> clock = Due(n)
  BY <1>0, <1>1, WindowIsDue
<1>10. /\ mails'[Windows[n].kind].ordered = mails[Windows[n].kind].ordered + (IF clock = Due(n) THEN 1 ELSE 0)
       /\ \A m \in 1 .. 3 \ {n} : mails'[Windows[m].kind].ordered = mails[Windows[m].kind].ordered
  <2>. DEFINE kind == Windows[n].kind
  <2>1. kind \in MailKinds /\ \A m \in 1 .. 3 \ {n} : Windows[m].kind \in MailKinds \ {kind}
    BY WindowsAre, KindsDiffer
  <2>. HIDE DEF kind
  <2>2. CASE clock = Due(n)
    <3>1. Enqueue(kind, mails[kind].ordered + 1) /\ mails[kind].ordered + 1 \in Nat
      BY <1>0, <1>8, <1>9, <2>1, <2>2 DEF kind
    <3>2. /\ mails'[kind].ordered = mails[kind].ordered + 1
          /\ \A k \in MailKinds \ {kind} : mails'[k].ordered = mails[k].ordered
      BY <1>0, <2>1, <3>1, EnqueueStep
    <3>. QED
      BY <2>1, <2>2, <3>2 DEF kind
  <2>3. CASE clock # Due(n)
    <3>1. UNCHANGED mails
      BY <1>8, <1>9, <2>3
    <3>2. mails[kind].ordered \in Nat
      BY <1>0, <2>1
    <3>. QED
      BY <2>3, <3>1, <3>2 DEF kind
  <2>. QED
    BY <2>2, <2>3
<1>11. MailsFollowScans'
  <2>. SUFFICES ASSUME NEW m \in 1 .. 3
                PROVE  LET ordered == mails'[Windows[m].kind].ordered
                       IN /\ clock < Due(m) => ordered = 0
                          /\ clock = Due(m) => ordered = IF n < m THEN 0 ELSE 1
                          /\ clock > Due(m) => ordered = 1
    <3>1. \A m \in 1 .. 3 : Due(m)' = Due(m)
      BY <1>4, DueStays
    <3>. QED
      BY <1>4, <1>7, <3>1 DEF MailsFollowScans
  <2>. DEFINE ordered == mails[Windows[m].kind].ordered
  <2>1. /\ clock < Due(m) => ordered = 0
        /\ clock = Due(m) => ordered = IF n <= m THEN 0 ELSE 1
        /\ clock > Due(m) => ordered = 1
    BY <1>7 DEF Watched, MailsFollowScans
  <2>2. Due(m) \in Int
    BY <1>0, DueIsScanTime
  <2>3. CASE m = n
    <3>1. mails'[Windows[m].kind].ordered = ordered + (IF clock = Due(m) THEN 1 ELSE 0)
      BY <1>10, <2>3
    <3>. HIDE DEF ordered
    <3>. QED
      BY <1>0, <2>1, <2>2, <2>3, <3>1
  <2>4. CASE m # n
    <3>1. mails'[Windows[m].kind].ordered = ordered
      BY <1>10, <2>4
    <3>. HIDE DEF ordered
    <3>. QED
      BY <1>0, <2>1, <2>2, <2>4, <3>1
  <2>. QED
    BY <2>3, <2>4
<1>12. VisitsAreIdle' /\ Day(account.trialEnds)' = TrialDays
  BY <1>4 DEF Watched, VisitsAreIdle, Day
<1>. QED
  BY <1>4, <1>6, <1>11, <1>12 DEF Watched

\* A quarter of a day passes; if it is that of a scan, the scan is there.
LEMMA TickIsWatched ==
  ASSUME AccountTypes, Watched, Tick, spare'.timely
  PROVE  Watched'
<1>0. clock \in Nat /\ account.trialEnds \in Nat
  BY DEF AccountTypes, MailTypes
<1>1. scans = {} /\ clock' = clock + 1 /\ UNCHANGED <<account, links, counter, visit, outbox, mails>>
  BY TickGoesOn DEF Tick
<1>2. scans' = IF clock' % 4 = 1 THEN {[day |-> Day(clock'), next |-> 1]} ELSE {}
  BY <1>1 DEF Tick, Quarters, ScanQuarter
<1>3. OneScan'
  <2>1. CASE clock' % 4 = 1
    <3>1. scans' = {[day |-> Day(clock'), next |-> 1]} /\ 1 \in 1 .. 3
      BY <1>2, <2>1
    <3>2. Day(clock') = Day(clock)' /\ clock' % Quarters = ScanQuarter
      BY <2>1 DEF Day, Quarters, ScanQuarter
    <3>. QED
      BY <3>1, <3>2 DEF OneScan
  <2>2. CASE clock' % 4 # 1
    BY <1>2, <2>2 DEF OneScan
  <2>. QED
    BY <2>1, <2>2
<1>4. MailsFollowScans'
  <2>. SUFFICES ASSUME NEW m \in 1 .. 3
                PROVE  LET ordered == mails[Windows[m].kind].ordered
                       IN /\ clock' < Due(m) => ordered = 0
                          /\ clock' = Due(m) => ordered = IF \E s \in scans' : s.next <= m THEN 0 ELSE 1
                          /\ clock' > Due(m) => ordered = 1
    <3>1. \A m \in 1 .. 3 : Due(m)' = Due(m)
      BY <1>1, DueStays
    <3>. QED
      BY <1>1, <3>1 DEF MailsFollowScans
  <2>. DEFINE ordered == mails[Windows[m].kind].ordered
  <2>1. /\ clock < Due(m) => ordered = 0
        /\ clock = Due(m) => ordered = 1
        /\ clock > Due(m) => ordered = 1
    BY <1>1 DEF Watched, MailsFollowScans
  <2>2. Due(m) \in Int /\ (clock' = Due(m) => clock' % 4 = 1)
    BY <1>0, <1>1, DueIsScanTime
  <2>3. ASSUME clock' = Due(m) PROVE \E s \in scans' : s.next <= m
    <3>1. [day |-> Day(clock'), next |-> 1] \in scans'
      BY <1>2, <2>2, <2>3
    <3>2. [day |-> Day(clock'), next |-> 1].next <= m
      OBVIOUS
    <3>. QED
      BY <3>1, <3>2
  <2>. HIDE DEF ordered
  <2>4. /\ clock' < Due(m) => ordered = 0
        /\ clock' = Due(m) => ordered = 0
        /\ clock' > Due(m) => ordered = 1
    BY <1>0, <1>1, <2>1, <2>2
  <2>. QED
    BY <2>3, <2>4 DEF ordered
<1>5. VisitsAreIdle' /\ Day(account.trialEnds)' = TrialDays
  BY <1>1 DEF Watched, VisitsAreIdle, Day
<1>. QED
  BY <1>1, <1>3, <1>4, <1>5 DEF Watched

LEMMA TrialStep ==
  ASSUME AccountTypes, TrialIsWatched, [AccountNext]_accountVars
  PROVE  TrialIsWatched'
<1>. SUFFICES ASSUME spare'.timely, spare'.days > 0 PROVE Watched'
  BY DEF TrialIsWatched, Watched
<1>0. RequestTypes /\ TrialMails \subseteq MailKinds
  BY DEF AccountTypes, MailKinds, LoggedMails
<1>1. SpareGoesOn => Watched
  BY DEF SpareGoesOn, TrialIsWatched, Watched
<1>2. ASSUME NEW v \in Visits, VisitStep(v) PROVE Watched'
  BY <1>1, <1>2, VisitElsewhere, VisitIsWatched
<1>3. ASSUME NEW key \in Counters, WindowEnds(key) PROVE Watched'
  <2>1. UNCHANGED <<account, links, visit, outbox, mails, clock, scans, spare>>
    BY <1>3 DEF WindowEnds
  <2>2. Watched
    BY <1>1, <2>1, SpareStaysGoesOn
  <2>3. VisitsAreIdle'
    BY <2>1, <2>2 DEF Watched, VisitsAreIdle
  <2>. QED
    BY <2>1, <2>2, <2>3, WatchGoesOn
<1>4. ASSUME NEW task \in outbox, MailStep(task) PROVE Watched'
  <2>1. SpareGoesOn
    <3>1. CASE Setback
      BY <1>0, <3>1, SetbackGoesOn
    <3>2. CASE UNCHANGED spare
      BY <3>2, SpareStaysGoesOn
    <3>. QED
      BY <1>4, <3>1, <3>2 DEF MailStep, SendMail, WriteEmailAuditLog, RetryMail, MailerDies
  <2>. QED
    BY <1>1, <1>4, <2>1, MailIsWatched
<1>5. ASSUME NEW scan \in scans, ScanWindow(scan) PROVE Watched'
  <2>1. UNCHANGED spare
    BY <1>5 DEF ScanWindow
  <2>. QED
    BY <1>1, <1>5, <2>1, SpareStaysGoesOn, ScanIsWatched
<1>6. ASSUME NEW scan \in scans, ScanDies(scan) PROVE Watched'
  BY <1>0, <1>6, SetbackGoesOn DEF ScanDies
<1>7. CASE Tick
  BY <1>1, <1>7, TickGoesOn, TickIsWatched
<1>8. CASE UNCHANGED accountVars
  <2>1. UNCHANGED <<account, links, visit, outbox, mails, clock, scans, spare>>
    BY <1>8 DEF accountVars
  <2>2. Watched
    BY <1>1, <2>1, SpareStaysGoesOn
  <2>3. VisitsAreIdle'
    BY <2>1, <2>2 DEF Watched, VisitsAreIdle
  <2>. QED
    BY <2>1, <2>2, <2>3, WatchGoesOn
<1>. QED
  BY <1>2, <1>3, <1>4, <1>5, <1>6, <1>7, <1>8 DEF AccountNext

---------------------------------------------------------------------------

LEMMA LogIsTrue == AccountTypes /\ MailsAreCounted => MailLogIsTrue
<1>. SUFFICES ASSUME AccountTypes, MailsAreCounted, NEW kind \in LoggedMails
              PROVE  /\ mails[kind].logged <= mails[kind].sent
                     /\ mails[kind].logged <= mails[kind].ordered
                     /\ spare.timely => mails[kind].sent <= mails[kind].ordered
  BY DEF MailLogIsTrue
<1>1. kind \in MailKinds
  BY DEF MailKinds
<1>2. mails[kind].logged \in Nat /\ mails[kind].sent \in Nat /\ mails[kind].ordered \in Nat
  BY <1>1 DEF AccountTypes, MailTypes, MailCount
<1>3. /\ Cardinality(TasksOf(kind)) \in Nat /\ Cardinality(SentOf(kind)) \in Nat
      /\ Cardinality(UnsentOf(kind)) \in Nat
  BY TasksAreFinite DEF MailsAreCounted
<1>4. /\ mails[kind].logged + Cardinality(SentOf(kind)) <= mails[kind].sent
      /\ mails[kind].logged + Cardinality(TasksOf(kind)) <= mails[kind].ordered
      /\ spare.timely => mails[kind].sent + Cardinality(UnsentOf(kind)) <= mails[kind].ordered
  BY <1>1 DEF MailsAreCounted
<1>5. spare.timely => mails[kind].sent <= mails[kind].ordered
  <2>. SUFFICES ASSUME spare.timely PROVE mails[kind].sent <= mails[kind].ordered
    OBVIOUS
  <2>1. mails[kind].sent + Cardinality(UnsentOf(kind)) <= mails[kind].ordered
    BY <1>4
  <2>. QED
    BY <1>2, <1>3, <2>1
<1>. QED
  BY <1>2, <1>3, <1>4, <1>5

LEMMA TrialMailsOnce == TrialIsWatched => TrialMailsComeOnce
<1>. SUFFICES ASSUME TrialIsWatched, spare.timely, spare.days > 0, NEW kind \in TrialMails
              PROVE  LET due == ScanTime(DueDay(kind))
                     IN /\ clock < due => mails[kind].ordered = 0
                        /\ clock = due => mails[kind].ordered <= 1
                        /\ clock > due => mails[kind].ordered = 1
  BY DEF TrialMailsComeOnce
<1>1. PICK n \in 1 .. 3 : kind = Windows[n].kind
  <2>1. kind = "seven" \/ kind = "one" \/ kind = "expired"
    BY DEF TrialMails
  <2>2. 1 \in 1 .. 3 /\ 2 \in 1 .. 3 /\ 3 \in 1 .. 3
    OBVIOUS
  <2>. QED
    BY <2>1, <2>2, WindowsAre
<1>2. Due(n) = ScanTime(DueDay(kind))
  BY <1>1 DEF Due
<1>3. /\ clock < Due(n) => mails[kind].ordered = 0
      /\ clock = Due(n) => mails[kind].ordered \in {0, 1}
      /\ clock > Due(n) => mails[kind].ordered = 1
  BY <1>1 DEF TrialIsWatched, MailsFollowScans
<1>. QED
  BY <1>2, <1>3

LEMMA LinksOnce == AccountInv => LinksWorkOnce
<1>. SUFFICES ASSUME AccountInv PROVE LinksWorkOnce
  OBVIOUS
<1>1. IsFiniteSet(Verifying)
  BY AccountAssumption, FS_Subset DEF Verifying
<1>2. IsFiniteSet(1 .. links.issued)
  BY FS_Interval DEF AccountInv, AccountTypes, MailTypes, LinkTable
<1>3. Cardinality(Verifying) \in Nat /\ Cardinality(links.used) \in Nat
  BY <1>1, <1>2, FS_Subset, FS_CardinalityType DEF AccountInv, LinksAreSpent
<1>4. mails["welcome"].ordered \in Nat
  BY KindsAreMails DEF AccountInv, AccountTypes, MailTypes, MailCount
<1>. QED
  BY <1>3, <1>4 DEF AccountInv, LinksAreSpent, LinksWorkOnce

\* Each verification link leads to one welcome at most, however often and in
\* however many windows it is opened (verify_email).
THEOREM LinksAlwaysWorkOnce == AccountSpec => []LinksWorkOnce
BY LinksOnce, AccountInvHolds, PTL

LEMMA MailInvHolds == AccountSpec => [](MailsAreCounted /\ TrialIsWatched)
<1>1. AccountInit => MailsAreCounted /\ TrialIsWatched
  BY MailsCountedInit, TrialInit
<1>2. /\ AccountInv /\ AccountInv' /\ MailsAreCounted /\ TrialIsWatched /\ [AccountNext]_accountVars
      => (MailsAreCounted /\ TrialIsWatched)'
  BY MailsCountedStep, TrialStep DEF AccountInv
<1>. QED
  BY <1>1, <1>2, AccountInvHolds, PTL DEF AccountSpec

\* The teacher is told of the end of the trial once for each window of the scan
\* and on its day, and an email_sent entry stands for a mail that was sent for
\* one order (scan_trial_expirations, the mail tasks), besides the theorem above.
THEOREM MailsAreAlwaysAccountedFor == AccountSpec => []MailsAreAccountedFor
<1>1. AccountInv /\ MailsAreCounted /\ TrialIsWatched => MailsAreAccountedFor
  BY LinksOnce, LogIsTrue, TrialMailsOnce DEF MailsAreAccountedFor, AccountInv
<1>. QED
  BY <1>1, AccountInvHolds, MailInvHolds, PTL

---------------------------------------------------------------------------
(* The rows of the account *)

\* Handlers that have found or made the row of users.
WithAccount == {"issue", "order", "verify", "mark", "welcome"}

VisitFits(v) ==
  /\ visit[v].pc \in WithAccount => account.exists
  /\ visit[v].pc = "order" => visit[v].link \in 1 .. links.issued
  /\ visit[v].pc = "mark" /\ visit[v].seen => account.verified

MailFits(task) ==
  /\ task.tries \in 0 .. MaxMailRetries
  /\ task.kind = "verification" => task.id \in 1 .. links.issued

AccountFits ==
  /\ account.verified => account.exists /\ account.trialEnds > 0
  /\ links.issued > 0 => account.exists
  /\ links.received \subseteq 1 .. links.issued

\* There is an account wherever a request or a mail speaks of one, and a link
\* wherever it carries one.
RowsFit ==
  /\ AccountFits
  /\ \A v \in Visits : VisitFits(v)
  /\ \A task \in outbox : MailFits(task)

\* What was true of a handler or a mail stays true.
AccountGrows ==
  /\ account.exists => account'.exists
  /\ account.verified => account'.verified
  /\ links'.issued \in Nat /\ links.issued <= links'.issued

LEMMA VisitStillFits ==
  ASSUME AccountInv, AccountGrows, NEW v \in Visits, VisitFits(v), visit'[v] = visit[v]
  PROVE  VisitFits(v)'
BY DEF AccountGrows, VisitFits, AccountInv, AccountTypes, MailTypes, LinkTable

LEMMA MailStillFits ==
  ASSUME AccountInv, AccountGrows, NEW task, MailFits(task)
  PROVE  MailFits(task)'
BY DEF AccountGrows, MailFits, AccountInv, AccountTypes, MailTypes, LinkTable

LEMMA RowsStillFit ==
  ASSUME AccountInv, RowsFit, AccountGrows, AccountFits',
         \A u \in Visits : visit'[u] = visit[u] \/ VisitFits(u)',
         \A task \in outbox' : task \in outbox \/ MailFits(task)'
  PROVE  RowsFit'
BY VisitStillFits, MailStillFits DEF RowsFit

\* A handler goes on and the row and the links stay.
LEMMA HandlerFits ==
  ASSUME AccountInv, RowsFit, UNCHANGED <<account, links>>, NEW v \in Visits,
         \A u \in Visits \ {v} : visit'[u] = visit[u], VisitFits(v)',
         \A task \in outbox' : task \in outbox \/ MailFits(task)'
  PROVE  RowsFit'
<1>1. AccountGrows
  BY DEF AccountGrows, AccountInv, AccountTypes, MailTypes, LinkTable
<1>2. AccountFits'
  BY DEF RowsFit, AccountFits
<1>. QED
  BY <1>1, <1>2, RowsStillFit

LEMMA RestsFit ==
  ASSUME NEW v \in Visits, visit'[v].pc \in {"idle", "window", "counted", "insert"}
  PROVE  VisitFits(v)'
BY DEF VisitFits, WithAccount

\* A new mail, of a link that was issued.
LEMMA NewMailFits ==
  ASSUME AccountInv, NEW kind, NEW id, Enqueue(kind, id), UNCHANGED links,
         kind = "verification" => id \in 1 .. links.issued
  PROVE  \A task \in outbox' : task \in outbox \/ MailFits(task)'
BY AccountAssumption DEF Enqueue, MailFits

LEMMA OrderFits ==
  ASSUME AccountInv, RowsFit, NEW v \in Visits, NEW kind, NEW id, Order(kind, id), Answer(v),
         UNCHANGED <<account, links>>, kind = "verification" => id \in 1 .. links.issued
  PROVE  RowsFit'
<1>1. \A task \in outbox' : task \in outbox \/ MailFits(task)'
  BY NewMailFits DEF Order
<1>2. visit'[v].pc = "idle" /\ \A u \in Visits \ {v} : visit'[u] = visit[u]
  BY AnswerStep DEF AccountInv, AccountTypes
<1>. QED
  BY <1>1, <1>2, RestsFit, HandlerFits

LEMMA RequestsFit ==
  ASSUME AccountInv, RowsFit, NEW v \in Visits, NEW key \in Counters,
         CountRequest(v, key) \/ SetWindow(v) \/ CheckEmail(v) \/ ResendVerification(v)
  PROVE  RowsFit'
<1>1. RequestTypes /\ CountersExpire /\ UNCHANGED <<account, links, outbox>>
  BY DEF AccountInv, AccountTypes, CountRequest, SetWindow, CheckEmail, ResendVerification
<1>. SUFFICES (\A u \in Visits \ {v} : visit'[u] = visit[u]) /\ VisitFits(v)'
  BY <1>1, HandlerFits
<1>2. CASE CountRequest(v, key)
  BY <1>1, <1>2, CountKeeps, RestsFit
<1>3. CASE SetWindow(v)
  BY <1>1, <1>3, WindowKeeps, RestsFit
<1>4. CASE CheckEmail(v)
  <2>1. "insert" \in VisitSteps
    BY DEF VisitSteps
  <2>. QED
    BY <1>1, <1>4, <2>1, AnswerStep, GotoStep, RestsFit DEF CheckEmail
<1>5. CASE ResendVerification(v)
  <2>1. "issue" \in VisitSteps
    BY DEF VisitSteps
  <2>2. CASE Answer(v)
    BY <1>1, <2>2, AnswerStep, RestsFit
  <2>3. CASE account.exists /\ Goto(v, "issue")
    <3>1. visit'[v].pc = "issue" /\ \A u \in Visits \ {v} : visit'[u] = visit[u]
      BY <1>1, <2>1, <2>3, GotoStep
    <3>2. VisitFits(v)'
      BY <1>1, <2>3, <3>1 DEF VisitFits
    <3>. QED
      BY <3>1, <3>2
  <2>. QED
    BY <1>5, <2>2, <2>3 DEF ResendVerification
<1>. QED
  BY <1>2, <1>3, <1>4, <1>5

LEMMA CreateFits ==
  ASSUME AccountInv, RowsFit, NEW v \in Visits, CreateUser(v)
  PROVE  RowsFit'
<1>1. RequestTypes /\ MailTypes /\ UNCHANGED <<links, outbox>>
  BY DEF AccountInv, AccountTypes, CreateUser
<1>2. CASE account.exists /\ Answer(v) /\ UNCHANGED account
  BY <1>1, <1>2, AnswerStep, RestsFit, HandlerFits
<1>3. CASE ~ account.exists /\ Goto(v, "issue") /\ account' = [account EXCEPT !.exists = TRUE]
  <2>1. "issue" \in VisitSteps
    BY DEF VisitSteps
  <2>2. visit'[v].pc = "issue" /\ \A u \in Visits \ {v} : visit'[u] = visit[u]
    BY <1>1, <1>3, <2>1, GotoStep
  <2>3. account'.exists /\ account'.verified = account.verified
        /\ account'.trialEnds = account.trialEnds
    BY <1>1, <1>3 DEF MailTypes
  <2>4. AccountGrows /\ AccountFits'
    BY <1>1, <2>3 DEF AccountGrows, AccountFits, RowsFit, MailTypes, LinkTable
  <2>5. VisitFits(v)'
    BY <2>2, <2>3 DEF VisitFits
  <2>. QED
    BY <1>1, <2>2, <2>4, <2>5, RowsStillFit
<1>. QED
  BY <1>2, <1>3 DEF CreateUser

LEMMA StoreFits ==
  ASSUME AccountInv, RowsFit, NEW v \in Visits, StoreVerificationToken(v)
  PROVE  RowsFit'
<1>1. /\ RequestTypes /\ MailTypes /\ UNCHANGED <<account, outbox>>
      /\ visit[v].pc = "issue"
  BY DEF AccountInv, AccountTypes, StoreVerificationToken, VisitAt
<1>2. PICK link \in Nat : link = links.issued + 1 /\ link > 0
  BY <1>1 DEF MailTypes, LinkTable
<1>3. visit' = [visit EXCEPT ![v].pc = "order", ![v].link = link]
  BY <1>2 DEF StoreVerificationToken
<1>4. links' = [links EXCEPT !.issued = link, !.live = links.live \union {link}]
  BY <1>2 DEF StoreVerificationToken
<1>5. visit'[v].pc = "order" /\ visit'[v].link = link /\ \A u \in Visits \ {v} : visit'[u] = visit[u]
  <2>1. visit[v] \in VisitState
    BY <1>1 DEF RequestTypes
  <2>. QED
    BY <1>1, <1>3, <2>1 DEF RequestTypes, VisitState
<1>6. links'.issued = link /\ links'.received = links.received
  BY <1>1, <1>4 DEF MailTypes, LinkTable
<1>7. account.exists
  BY <1>1 DEF RowsFit, VisitFits, WithAccount
<1>8. links.issued \in Nat
  BY <1>1 DEF MailTypes, LinkTable
<1>9. AccountGrows
  BY <1>1, <1>2, <1>6, <1>8 DEF AccountGrows
<1>10. AccountFits'
  <2>1. links.received \subseteq 1 .. links.issued
    BY DEF RowsFit, AccountFits
  <2>2. 1 .. links.issued \subseteq 1 .. link
    BY <1>2, <1>8
  <2>. QED
    BY <1>1, <1>6, <1>7, <2>1, <2>2 DEF RowsFit, AccountFits
<1>11. VisitFits(v)'
  BY <1>1, <1>2, <1>5, <1>6, <1>7 DEF VisitFits
<1>. QED
  BY <1>1, <1>5, <1>9, <1>10, <1>11, RowsStillFit

LEMMA ConsumeFits ==
  ASSUME AccountInv, RowsFit, NEW v \in Visits, NEW link \in Link, ConsumeVerificationToken(v, link)
  PROVE  RowsFit'
<1>1. RequestTypes /\ MailTypes /\ UNCHANGED <<account, outbox>>
  BY DEF AccountInv, AccountTypes, ConsumeVerificationToken
<1>2. links.issued \in Nat /\ link \in 1 .. links.issued
  BY <1>1 DEF ConsumeVerificationToken, RowsFit, AccountFits, MailTypes, LinkTable
<1>3. account.exists
  BY <1>2 DEF RowsFit, AccountFits
<1>4. /\ links' = [links EXCEPT !.live = links.live \ {link}, !.used = links.used \union {link}]
      /\ visit' = [visit EXCEPT ![v] = [NoVisit EXCEPT !.pc = "verify"]]
  BY DEF ConsumeVerificationToken
<1>5. links'.issued = links.issued /\ links'.received = links.received
  BY <1>1, <1>4 DEF MailTypes, LinkTable
<1>6. visit'[v].pc = "verify" /\ \A u \in Visits \ {v} : visit'[u] = visit[u]
  BY <1>1, <1>4 DEF RequestTypes, NoVisit
<1>7. AccountGrows /\ AccountFits'
  BY <1>1, <1>2, <1>5 DEF AccountGrows, RowsFit, AccountFits
<1>8. VisitFits(v)'
  BY <1>1, <1>3, <1>6 DEF VisitFits
<1>. QED
  BY <1>1, <1>6, <1>7, <1>8, RowsStillFit

LEMMA ReadFits ==
  ASSUME AccountInv, RowsFit, NEW v \in Visits, ReadUser(v)
  PROVE  RowsFit'
<1>1. /\ RequestTypes /\ UNCHANGED <<account, links, outbox>>
      /\ visit[v].pc = "verify" /\ visit[v] \in VisitState
  BY DEF AccountInv, AccountTypes, ReadUser, RequestTypes, VisitAt
<1>2. visit' = [visit EXCEPT ![v].pc = "mark", ![v].seen = account.verified]
  BY DEF ReadUser
<1>3. /\ visit'[v].pc = "mark" /\ visit'[v].seen = account.verified
      /\ \A u \in Visits \ {v} : visit'[u] = visit[u]
  BY <1>1, <1>2 DEF RequestTypes, VisitState
<1>4. VisitFits(v)'
  BY <1>1, <1>3 DEF VisitFits, RowsFit, WithAccount
<1>. QED
  BY <1>1, <1>3, <1>4, HandlerFits

LEMMA MarkFits ==
  ASSUME AccountInv, RowsFit, NEW v \in Visits, MarkVerified(v)
  PROVE  RowsFit'
<1>1. RequestTypes /\ MailTypes /\ UNCHANGED <<links, outbox>> /\ visit[v].pc = "mark"
  BY DEF AccountInv, AccountTypes, MarkVerified, VisitAt
<1>2. account.exists /\ (visit[v].seen => account.verified)
  BY <1>1 DEF RowsFit, VisitFits, WithAccount
<1>3. PICK new \in Nat : /\ new = (IF visit[v].seen THEN account.trialEnds ELSE clock + TrialDays * 4)
                         /\ new > 0
  <2>1. account.trialEnds \in Nat /\ clock \in Nat /\ TrialDays \in Nat /\ TrialDays > 7
    BY <1>1, AccountAssumption DEF MailTypes
  <2>2. CASE visit[v].seen
    <3>1. account.trialEnds > 0
      BY <1>2, <2>2 DEF RowsFit, AccountFits
    <3>. QED
      BY <2>1, <2>2, <3>1
  <2>3. CASE ~ visit[v].seen
    <3>1. clock + TrialDays * 4 \in Nat /\ clock + TrialDays * 4 > 0
      BY <2>1
    <3>. QED
      BY <2>3, <3>1
  <2>. QED
    BY <2>2, <2>3
<1>4. account' = [account EXCEPT !.verified = TRUE, !.trialEnds = new]
  BY <1>3 DEF MarkVerified, Quarters
<1>5. account'.exists /\ account'.verified /\ account'.trialEnds > 0
  BY <1>1, <1>2, <1>3, <1>4 DEF MailTypes
<1>6. visit'[v].pc = "welcome" /\ \A u \in Visits \ {v} : visit'[u] = visit[u]
  <2>1. "welcome" \in VisitSteps
    BY DEF VisitSteps
  <2>. QED
    BY <1>1, <2>1, GotoStep DEF MarkVerified
<1>7. AccountGrows /\ AccountFits'
  BY <1>1, <1>5 DEF AccountGrows, RowsFit, AccountFits, MailTypes, LinkTable
<1>8. VisitFits(v)'
  BY <1>5, <1>6 DEF VisitFits
<1>. QED
  BY <1>1, <1>6, <1>7, <1>8, RowsStillFit

LEMMA TasksFit ==
  ASSUME AccountInv, RowsFit, NEW task \in outbox, MailStep(task)
  PROVE  RowsFit'
<1>1. RequestTypes /\ MailTypes /\ UNCHANGED <<account, visit>>
  BY DEF AccountInv, AccountTypes, MailStep, SendMail, WriteEmailAuditLog, RetryMail, MailerDies
<1>2. task \in [kind : MailKinds, id : Nat, tries : Int, sent : BOOLEAN] /\ MailFits(task)
  BY <1>1 DEF MailTypes, RowsFit
<1>3. links.issued \in Nat
  BY <1>1 DEF MailTypes, LinkTable
<1>4. /\ links'.issued = links.issued
      /\ links'.received \subseteq links.received \union 1 .. links.issued
  <2>1. CASE UNCHANGED links
    BY <2>1
  <2>2. CASE task.kind = "verification" /\ links' = [links EXCEPT !.received = @ \union {task.id}]
    BY <1>1, <1>2, <2>2 DEF MailTypes, LinkTable, MailFits
  <2>. QED
    BY <2>1, <2>2 DEF MailStep, SendMail, WriteEmailAuditLog, RetryMail, MailerDies
<1>5. AccountGrows /\ AccountFits'
  BY <1>1, <1>3, <1>4 DEF AccountGrows, RowsFit, AccountFits
<1>6. \A new \in outbox' : new \in outbox \/ MailFits(new)'
  <2>. SUFFICES ASSUME NEW new \in outbox', new \notin outbox PROVE MailFits(new)
    BY <1>4 DEF MailFits
  <2>1. \/ new = [task EXCEPT !.sent = TRUE]
        \/ task.tries < MaxMailRetries /\ new = [task EXCEPT !.tries = @ + 1, !.sent = FALSE]
    BY DEF MailStep, SendMail, WriteEmailAuditLog, RetryMail, MailerDies, Replace
  <2>2. CASE new = [task EXCEPT !.sent = TRUE]
    BY <1>2, <2>2 DEF MailFits
  <2>3. CASE task.tries < MaxMailRetries /\ new = [task EXCEPT !.tries = @ + 1, !.sent = FALSE]
    <3>1. new.tries = task.tries + 1 /\ new.kind = task.kind /\ new.id = task.id
      BY <1>2, <2>3
    <3>. QED
      BY <1>2, <2>3, <3>1, AccountAssumption DEF MailFits
  <2>. QED
    BY <2>1, <2>2, <2>3
<1>. QED
  BY <1>1, <1>5, <1>6, RowsStillFit

\* Everything else leaves the row, the links and the handlers as they are.
LEMMA OthersFit ==
  ASSUME AccountInv, RowsFit, UNCHANGED <<account, links, visit>>,
         \A task \in outbox' : task \in outbox \/ MailFits(task)'
  PROVE  RowsFit'
<1>1. AccountGrows /\ AccountFits'
  BY DEF AccountGrows, AccountInv, AccountTypes, MailTypes, LinkTable, RowsFit, AccountFits
<1>. QED
  BY <1>1, RowsStillFit

LEMMA WindowFits ==
  ASSUME AccountInv, RowsFit, NEW scan \in scans, ScanWindow(scan)
  PROVE  RowsFit'
<1>1. UNCHANGED <<account, links, visit>>
  BY DEF ScanWindow
<1>2. scan.next \in 1 .. 3
  BY DEF AccountInv, AccountTypes, MailTypes, Scan
<1>3. \A n \in 1 .. 3 : Windows[n].kind # "verification"
  BY WindowsAre
<1>4. \A task \in outbox' : task \in outbox \/ MailFits(task)'
  BY <1>1, <1>2, <1>3, NewMailFits DEF ScanWindow
<1>. QED
  BY <1>1, <1>4, OthersFit

LEMMA RowsFitInit == AccountInit => RowsFit
<1>. SUFFICES ASSUME AccountInit PROVE RowsFit
  OBVIOUS
<1>1. AccountFits
  <2>1. links.issued = 0 /\ links.received = {}
    BY DEF AccountInit
  <2>2. CASE account = NoAccount
    BY <2>1, <2>2 DEF AccountFits, NoAccount
  <2>3. CASE \E quarter \in 0 .. Quarters - 1 :
               account = [exists |-> TRUE, verified |-> TRUE,
                          trialEnds |-> TrialDays * Quarters + quarter]
    BY <2>1, <2>3, AccountAssumption DEF AccountFits, Quarters
  <2>. QED
    BY <2>2, <2>3 DEF AccountInit
<1>2. \A v \in Visits : VisitFits(v)
  BY DEF AccountInit, VisitFits, NoVisit, WithAccount
<1>. QED
  BY <1>1, <1>2 DEF AccountInit, RowsFit

LEMMA RowsFitStep == AccountInv /\ RowsFit /\ [AccountNext]_accountVars => RowsFit'
<1>. SUFFICES ASSUME AccountInv, RowsFit, [AccountNext]_accountVars PROVE RowsFit'
  OBVIOUS
<1>1. CASE UNCHANGED accountVars
  BY <1>1, OthersFit DEF accountVars
<1>2. ASSUME NEW v \in Visits, VisitStep(v) PROVE RowsFit'
  <2>1. ASSUME NEW key \in spare.uses, CountRequest(v, key) PROVE RowsFit'
    <3>1. key \in Counters
      BY <2>1 DEF AccountInv, AccountTypes, RequestTypes, Allowance, Counters
    <3>. QED
      BY <2>1, <3>1, RequestsFit
  <2>2. CASE SetWindow(v) \/ CheckEmail(v) \/ ResendVerification(v)
    <3>1. "signup" \in Counters
      BY DEF Counters
    <3>. QED
      BY <2>2, <3>1, RequestsFit
  <2>3. CASE OrderVerification(v)
    <3>1. /\ Order("verification", visit[v].link) /\ Answer(v) /\ UNCHANGED <<account, links>>
          /\ visit[v].link \in 1 .. links.issued
      BY <2>3 DEF OrderVerification, VisitAt, RowsFit, VisitFits
    <3>. QED
      BY <3>1, OrderFits
  <2>4. CASE CreateInquiry(v)
    BY <2>4, OrderFits DEF CreateInquiry
  <2>5. CASE CreateDpaRequest(v)
    BY <2>5, OrderFits DEF CreateDpaRequest
  <2>6. CASE OrderWelcome(v)
    BY <2>6, OrderFits DEF OrderWelcome
  <2>7. CASE VisitDies(v)
    BY <2>7, AnswerStep, RestsFit, HandlerFits DEF VisitDies, AccountInv, AccountTypes
  <2>. QED
    BY <1>2, <2>1, <2>2, <2>3, <2>4, <2>5, <2>6, <2>7, CreateFits, StoreFits,
       ConsumeFits, ReadFits, MarkFits
    DEF VisitStep
<1>3. ASSUME NEW key \in Counters, WindowEnds(key) PROVE RowsFit'
  BY <1>3, OthersFit DEF WindowEnds
<1>4. ASSUME NEW scan \in scans, ScanDies(scan) PROVE RowsFit'
  BY <1>4, OthersFit DEF ScanDies
<1>5. CASE Tick
  BY <1>5, OthersFit DEF Tick
<1>. QED
  BY <1>1, <1>2, <1>3, <1>4, <1>5, TasksFit, WindowFits DEF AccountNext

\* A verified account has a trial, a link was issued before it is mailed, opened
\* or used, and a mail is retried as often as its task allows.
THEOREM AccountTypesHold == AccountSpec => []AccountTypeOK
<1>1. AccountSpec => []RowsFit
  BY RowsFitInit, RowsFitStep, AccountInvHolds, PTL DEF AccountSpec
<1>2. ASSUME AccountInv, RowsFit PROVE AccountTypeOK
  <2>1. links.issued \in Nat
    BY <1>2 DEF AccountInv, AccountTypes, MailTypes, LinkTable
  <2>2. \A set \in {links.live, links.received, links.used} : set \subseteq 1 .. links.issued
    BY <1>2 DEF AccountInv, LinksAreSpent, RowsFit, AccountFits
  <2>3. outbox \subseteq MailTask
    BY <1>2 DEF AccountInv, AccountTypes, MailTypes, RowsFit, MailFits, MailTask
  <2>. QED
    BY <1>2, <2>1, <2>2, <2>3
    DEF AccountInv, AccountTypes, RequestTypes, MailTypes, RowsFit, AccountFits, AccountTypeOK,
        VisitState, VisitSteps
<1>. QED
  BY <1>1, <1>2, AccountInvHolds, PTL

-----------------------------------------------------------------------------
(* The session: the inductive invariant *)

Sending == [pc     : {"idle", "sent", "refresh", "waiting", "again"},
            tab    : Tabs \union {"none"},
            access : Token \union {0}]

Slips == [faults : Nat, sends : Nat]

SessionTypes ==
  /\ Issued \in 1 .. MaxToken
  /\ parents \in [1 .. Issued -> 0 .. Issued]
  /\ tokens \subseteq 1 .. Issued
  /\ cookie \in 0 .. Issued
  /\ tab \in [Tabs -> TabState]
  /\ \A t \in Tabs : tab[t].token \in 0 .. Issued
  /\ sending \in [Requests -> Sending]
  /\ \A r \in Requests : sending[r].pc # "idle" => sending[r].tab \in Tabs
  /\ \A r \in Requests : sending[r].pc = "idle" => sending[r] = NotSent
  /\ slips \in Slips /\ slips.faults <= SessionFaults

\* A token in Redis has bought no session and buys none at this moment; of those
\* taken out of Redis each is in the hands of one refresh.
TokensAreFresh ==
  /\ \A n \in 1 .. Issued : parents[n] # 0 => parents[n] \notin tokens
  /\ \A t \in Tabs : tab[t].refresh = "consumed" =>
       /\ tab[t].token # 0 /\ tab[t].token \notin tokens
       /\ \A n \in 1 .. Issued : parents[n] # tab[t].token
  /\ \A t, u \in Tabs :
       /\ tab[t].refresh = "consumed" /\ tab[u].refresh = "consumed"
       /\ tab[t].token = tab[u].token
       => t = u

\* A tab that is not open does nothing.
ClosedTabsRest ==
  /\ \A t \in Tabs : tab[t].page = "closed" => tab[t].refresh = "none" /\ tab[t].access = 0
  /\ \A r \in Requests : sending[r].pc # "idle" => tab[sending[r].tab].page # "closed"

NoSlip == slips.faults = SessionFaults /\ Cardinality(OpenOnes) = 1

\* The tab can always refresh: with the cookie, with the token its refresh carries,
\* or with the one it is about to get.
CanRefresh(t) ==
  /\ tab[t].page = "app"
  /\ tab[t].refresh \in {"none", "sent", "consumed", "answered"}
  /\ tab[t].refresh = "none" => cookie \in tokens
  /\ tab[t].refresh \in {"sent", "answered"} => tab[t].token \in tokens

OneTabCanRefresh == NoSlip => \A t \in OpenOnes : CanRefresh(t)

SessionInv ==
  /\ SessionTypes
  /\ TokensAreUsedOnce
  /\ TokensAreFresh
  /\ ClosedTabsRest
  /\ OneTabCanRefresh

---------------------------------------------------------------------------
(* What one step changes *)

LEMMA SetTab ==
  ASSUME SessionInv, NEW t \in Tabs, NEW new \in TabState, tab' = [tab EXCEPT ![t] = new],
         tab[t].page # "closed", new.page # "closed"
  PROVE  /\ tab' \in [Tabs -> TabState]
         /\ tab'[t] = new
         /\ \A u \in Tabs \ {t} : tab'[u] = tab[u]
         /\ OpenOnes' = OpenOnes /\ t \in OpenOnes
BY DEF SessionInv, SessionTypes, OpenOnes

LEMMA SameTabs ==
  ASSUME UNCHANGED tab
  PROVE  OpenOnes' = OpenOnes
BY DEF OpenOnes

LEMMA FailedOnce ==
  ASSUME SessionInv, slips.faults > 0, slips' = [slips EXCEPT !.faults = @ - 1]
  PROVE  slips' \in Slips /\ slips'.faults <= SessionFaults /\ ~ NoSlip'
BY SessionAssumption DEF SessionInv, SessionTypes, Slips, NoSlip

\* A refresh token more.
LEMMA OneMoreToken ==
  ASSUME SessionTypes, NEW parent \in 0 .. Issued, Issued < MaxToken,
         parents' = [n \in DOMAIN parents \union {Issued + 1} |->
                       IF n = Issued + 1 THEN parent ELSE parents[n]]
  PROVE  /\ Issued' = Issued + 1 /\ Issued' \in 1 .. MaxToken
         /\ parents' \in [1 .. Issued' -> 0 .. Issued']
         /\ parents'[Issued + 1] = parent
         /\ \A n \in 1 .. Issued : parents'[n] = parents[n]
<1>. DEFINE k == Issued
<1>1. k \in 1 .. MaxToken /\ MaxToken \in Nat /\ parents \in [1 .. k -> 0 .. k]
  BY SessionAssumption DEF SessionTypes
<1>2. k + 1 \in Nat /\ 1 .. (k + 1) = (1 .. k) \union {k + 1}
  BY <1>1
<1>3. DOMAIN parents' = 1 .. (k + 1)
  BY <1>1, <1>2
<1>4. Issued' = k + 1
  <2>1. Cardinality(1 .. (k + 1)) = k + 1
    BY <1>2, FS_Interval
  <2>. QED
    BY <1>3, <2>1 DEF Issued
<1>. HIDE DEF k
<1>5. parents'[k + 1] = parent /\ \A n \in 1 .. k : parents'[n] = parents[n]
  BY <1>1, <1>2 DEF k
<1>6. parents' \in [1 .. (k + 1) -> 0 .. (k + 1)]
  <2>1. parent \in 0 .. k
    BY DEF k
  <2>2. \A n \in 1 .. (k + 1) : parents'[n] \in 0 .. (k + 1)
    BY <1>1, <1>2, <1>5, <2>1
  <2>3. parents' = [n \in DOMAIN parents' |-> parents'[n]]
    OBVIOUS
  <2>. QED
    BY <1>3, <2>2, <2>3
<1>7. k + 1 \in 1 .. MaxToken
  BY <1>1 DEF k
<1>. QED
  BY <1>4, <1>5, <1>6, <1>7 DEF k

\* Tokens are only taken out of Redis, and no refresh takes one out in this step.
LEMMA TokensStay ==
  ASSUME SessionInv, UNCHANGED parents, tokens' \subseteq tokens,
         \A u \in Tabs : tab'[u].refresh = "consumed" =>
           tab[u].refresh = "consumed" /\ tab'[u].token = tab[u].token
  PROVE  TokensAreUsedOnce' /\ TokensAreFresh'
<1>1. Issued' = Issued
  BY DEF Issued
<1>2. TokensAreUsedOnce'
  BY DEF SessionInv, TokensAreUsedOnce
<1>3. TokensAreFresh'
  BY <1>1 DEF SessionInv, TokensAreFresh
<1>. QED
  BY <1>2, <1>3

LEMMA ClosedStay ==
  ASSUME SessionInv,
         \A u \in Tabs : tab'[u] = tab[u] \/ (tab[u].page # "closed" /\ tab'[u].page # "closed"),
         \A r \in Requests : sending'[r].pc # "idle" =>
           /\ sending'[r].tab \in Tabs
           /\ \/ sending[r].pc # "idle" /\ sending'[r].tab = sending[r].tab
              \/ tab[sending'[r].tab].page # "closed"
  PROVE  ClosedTabsRest'
BY DEF SessionInv, ClosedTabsRest

\* There is only one open tab that can refresh.
LEMMA TheOneTab ==
  ASSUME SessionInv, NoSlip, NEW t \in OpenOnes
  PROVE  OpenOnes = {t} /\ CanRefresh(t)
<1>1. IsFiniteSet(OpenOnes)
  BY SessionAssumption, FS_Subset DEF OpenOnes
<1>2. \E x : OpenOnes = {x}
  BY <1>1, FS_Singleton DEF NoSlip
<1>. QED
  BY <1>2 DEF SessionInv, OneTabCanRefresh

---------------------------------------------------------------------------
(* Requests *)

LEMMA SendStep ==
  ASSUME SessionInv, NEW r \in Requests, NEW t \in Tabs, SendRequest(r, t)
  PROVE  SessionInv'
<1>. DEFINE new == [pc |-> "sent", tab |-> t, access |-> tab[t].access]
<1>1. new \in Sending /\ new.tab = t /\ new.pc = "sent"
  BY DEF Sending, SessionInv, SessionTypes, TabState
<1>2. sending' = [sending EXCEPT ![r] = new] /\ UNCHANGED <<tokens, parents, expired, cookie, tab>>
  BY DEF SendRequest
<1>. HIDE DEF new
<1>3. /\ sending' \in [Requests -> Sending] /\ sending'[r] = new
      /\ \A q \in Requests \ {r} : sending'[q] = sending[q]
  BY <1>1, <1>2 DEF SessionInv, SessionTypes
<1>4. slips' \in Slips /\ slips'.faults = slips.faults
  BY DEF SessionInv, SessionTypes, Slips, SendRequest
<1>5. Issued' = Issued
  BY <1>2 DEF Issued
<1>6. SessionTypes'
  <2>1. \A q \in Requests : /\ sending'[q].pc # "idle" => sending'[q].tab \in Tabs
                            /\ sending'[q].pc = "idle" => sending'[q] = NotSent
    BY <1>1, <1>3 DEF SessionInv, SessionTypes
  <2>. QED
    BY <1>2, <1>3, <1>4, <1>5, <2>1 DEF SessionInv, SessionTypes
<1>7. TokensAreUsedOnce' /\ TokensAreFresh'
  BY <1>2, TokensStay
<1>8. ClosedTabsRest'
  <2>1. tab[t].page # "closed"
    BY DEF SendRequest
  <2>2. \A u \in Tabs : tab'[u] = tab[u]
    BY <1>2
  <2>3. \A q \in Requests : sending'[q].pc # "idle" =>
          /\ sending'[q].tab \in Tabs
          /\ \/ sending[q].pc # "idle" /\ sending'[q].tab = sending[q].tab
             \/ tab[sending'[q].tab].page # "closed"
    BY <1>1, <1>3, <2>1 DEF SessionInv, SessionTypes
  <2>. QED
    BY <2>2, <2>3, ClosedStay
<1>9. OneTabCanRefresh'
  BY <1>2, <1>4, SameTabs DEF SessionInv, OneTabCanRefresh, NoSlip, CanRefresh
<1>. QED
  BY <1>6, <1>7, <1>8, <1>9 DEF SessionInv

LEMMA NotSentFacts == NotSent \in Sending /\ NotSent.pc = "idle" /\ NotSent.tab = "none"
BY DEF NotSent, Sending

LEMMA AnswerStep401 ==
  ASSUME SessionInv, NEW r \in Requests, Answer401(r)
  PROVE  SessionInv'
<1>. DEFINE new == IF Accepted(r) \/ sending[r].pc = "again" THEN NotSent
                   ELSE [sending[r] EXCEPT !.pc = "refresh"]
<1>1. sending[r] \in Sending /\ sending[r].pc # "idle"
  BY DEF SessionInv, SessionTypes, Answer401
<1>2. sending' = [sending EXCEPT ![r] = new]
  BY DEF Answer401
<1>3. new = NotSent \/ new = [sending[r] EXCEPT !.pc = "refresh"]
  BY Zenon
<1>4. UNCHANGED <<tokens, parents, expired, cookie, tab, slips>>
  BY DEF Answer401
<1>. HIDE DEF new
<1>5. /\ new \in Sending
      /\ new = NotSent \/ (new.pc # "idle" /\ new.tab = sending[r].tab)
  <2>1. CASE new = NotSent
    BY <2>1, NotSentFacts
  <2>2. CASE new = [sending[r] EXCEPT !.pc = "refresh"]
    BY <1>1, <2>2 DEF Sending
  <2>. QED
    BY <1>3, <2>1, <2>2
<1>6. /\ sending' \in [Requests -> Sending] /\ sending'[r] = new
      /\ \A q \in Requests \ {r} : sending'[q] = sending[q]
  BY <1>2, <1>5 DEF SessionInv, SessionTypes
<1>7. Issued' = Issued
  BY <1>4 DEF Issued
<1>8. SessionTypes'
  <2>1. \A q \in Requests : /\ sending'[q].pc # "idle" => sending'[q].tab \in Tabs
                            /\ sending'[q].pc = "idle" => sending'[q] = NotSent
    BY <1>1, <1>5, <1>6, NotSentFacts DEF SessionInv, SessionTypes
  <2>. QED
    BY <1>4, <1>6, <1>7, <2>1 DEF SessionInv, SessionTypes
<1>9. TokensAreUsedOnce' /\ TokensAreFresh'
  BY <1>4, TokensStay
<1>10. ClosedTabsRest'
  <2>1. \A q \in Requests : sending'[q].pc # "idle" =>
          sending[q].pc # "idle" /\ sending'[q].tab = sending[q].tab
    BY <1>1, <1>5, <1>6, NotSentFacts
  <2>2. \A u \in Tabs : tab'[u] = tab[u]
    BY <1>4
  <2>3. \A q \in Requests : sending'[q].pc # "idle" => sending'[q].tab \in Tabs
    BY <1>8 DEF SessionTypes
  <2>. QED
    BY <2>1, <2>2, <2>3, ClosedStay
<1>11. OneTabCanRefresh'
  BY <1>4, SameTabs DEF SessionInv, OneTabCanRefresh, NoSlip, CanRefresh
<1>. QED
  BY <1>8, <1>9, <1>10, <1>11 DEF SessionInv

LEMMA ExpireStep ==
  ASSUME SessionInv, UNCHANGED <<tokens, parents, cookie, tab, sending, slips>>
  PROVE  SessionInv'
<1>1. Issued' = Issued
  BY DEF Issued
<1>2. SessionTypes'
  BY <1>1 DEF SessionInv, SessionTypes
<1>3. TokensAreUsedOnce' /\ TokensAreFresh'
  BY TokensStay
<1>4. ClosedTabsRest' /\ OneTabCanRefresh'
  BY SameTabs DEF SessionInv, ClosedTabsRest, OneTabCanRefresh, NoSlip, CanRefresh
<1>. QED
  BY <1>2, <1>3, <1>4 DEF SessionInv

---------------------------------------------------------------------------
(* Steps of one tab *)

\* Requests go on in their tab or are dropped.
SendingKept ==
  /\ sending' \in [Requests -> Sending]
  /\ \A q \in Requests : sending'[q].pc # "idle" =>
       sending[q].pc # "idle" /\ sending'[q].tab = sending[q].tab
  /\ \A q \in Requests : sending'[q].pc = "idle" => sending'[q] = NotSent

LEMMA NothingSentKept ==
  ASSUME SessionInv, UNCHANGED sending
  PROVE  SendingKept
BY DEF SessionInv, SessionTypes, SendingKept

LEMMA SameSlips ==
  ASSUME SessionInv, UNCHANGED slips
  PROVE  slips' \in Slips /\ slips'.faults <= SessionFaults
BY DEF SessionInv, SessionTypes

\* Issued' may be more than Issued, but no token is forgotten.
TokensTyped ==
  /\ Issued' \in 1 .. MaxToken /\ Issued <= Issued'
  /\ parents' \in [1 .. Issued' -> 0 .. Issued']
  /\ tokens' \subseteq 1 .. Issued'
  /\ cookie' \in 0 .. Issued'

LEMMA SameParents ==
  ASSUME SessionInv, UNCHANGED parents, tokens' \subseteq tokens, cookie' \in 0 .. Issued
  PROVE  TokensTyped /\ Issued' = Issued
<1>1. Issued' = Issued
  BY DEF Issued
<1>. QED
  BY <1>1, SessionAssumption DEF SessionInv, SessionTypes, TokensTyped

LEMMA TabMoves ==
  ASSUME SessionInv, NEW t \in Tabs, NEW new \in TabState,
         tab' = [tab EXCEPT ![t] = new], tab[t].page # "closed", new.page # "closed",
         TokensTyped, new.token \in 0 .. Issued',
         slips' \in Slips, slips'.faults <= SessionFaults,
         SendingKept,
         TokensAreUsedOnce', TokensAreFresh',
         NoSlip' => NoSlip /\ (CanRefresh(t) => CanRefresh(t)')
  PROVE  SessionInv'
<1>1. /\ tab' \in [Tabs -> TabState] /\ tab'[t] = new
      /\ \A u \in Tabs \ {t} : tab'[u] = tab[u]
      /\ OpenOnes' = OpenOnes /\ t \in OpenOnes
  BY SetTab
<1>2. \A u \in Tabs : tab'[u].token \in 0 .. Issued'
  <2>1. \A n \in 0 .. Issued : n \in 0 .. Issued'
    BY DEF TokensTyped, SessionInv, SessionTypes
  <2>. QED
    BY <1>1, <2>1 DEF SessionInv, SessionTypes
<1>3. \A q \in Requests : sending'[q].pc # "idle" => sending'[q].tab \in Tabs
  BY DEF SendingKept, SessionInv, SessionTypes
<1>4. SessionTypes'
  BY <1>1, <1>2, <1>3 DEF SessionTypes, SendingKept, TokensTyped
<1>5. ClosedTabsRest'
  <2>1. \A u \in Tabs : tab'[u] = tab[u] \/ (tab[u].page # "closed" /\ tab'[u].page # "closed")
    BY <1>1
  <2>. QED
    BY <1>3, <2>1, ClosedStay DEF SendingKept
<1>6. OneTabCanRefresh'
  <2>. SUFFICES ASSUME NoSlip' PROVE \A u \in OpenOnes' : CanRefresh(u)'
    BY DEF OneTabCanRefresh
  <2>1. OpenOnes = {t} /\ CanRefresh(t)
    BY <1>1, TheOneTab
  <2>2. CanRefresh(t)'
    BY <2>1
  <2>. QED
    BY <1>1, <2>1, <2>2
<1>. QED
  BY <1>4, <1>5, <1>6 DEF SessionInv

LEMMA TokenRange ==
  ASSUME SessionTypes
  PROVE  \A n \in 0 .. Issued : n \in Token \union {0}
BY SessionAssumption DEF SessionTypes, Token

LEMMA AskStep ==
  ASSUME SessionInv, NEW r \in Requests, AskRefresh(r)
  PROVE  SessionInv'
<1>1. PICK t \in Tabs : t = sending[r].tab
  BY DEF SessionInv, SessionTypes, AskRefresh
<1>. DEFINE wait == [sending[r] EXCEPT !.pc = "waiting"]
            new  == [tab[t] EXCEPT !.refresh = "sent", !.token = cookie]
<1>2. /\ sending[r] \in Sending /\ sending[r].pc = "refresh"
      /\ tab[t] \in TabState /\ tab[t].page # "closed"
  BY <1>1 DEF SessionInv, SessionTypes, ClosedTabsRest, AskRefresh
<1>3. /\ sending' = [sending EXCEPT ![r] = wait]
      /\ UNCHANGED <<tokens, parents, expired, cookie, slips>>
      /\ tab' = tab \/ (tab[t].refresh = "none" /\ tab' = [tab EXCEPT ![t] = new])
  BY <1>1, <1>2 DEF AskRefresh, SessionInv, SessionTypes
<1>4. wait \in Sending /\ wait.pc = "waiting" /\ wait.tab = t
  BY <1>1, <1>2 DEF Sending
<1>5. new \in TabState /\ new.page = tab[t].page /\ new.refresh = "sent" /\ new.token = cookie
  <2>1. cookie \in Token \union {0}
    BY TokenRange DEF SessionInv, SessionTypes
  <2>. QED
    BY <1>2, <2>1 DEF TabState
<1>. HIDE DEF wait, new
<1>6. SendingKept
  <2>1. /\ sending' \in [Requests -> Sending] /\ sending'[r] = wait
        /\ \A q \in Requests \ {r} : sending'[q] = sending[q]
    BY <1>3, <1>4 DEF SessionInv, SessionTypes
  <2>. QED
    BY <1>1, <1>2, <1>4, <2>1 DEF SendingKept, SessionInv, SessionTypes
<1>7. TokensTyped /\ Issued' = Issued
  BY <1>3, SameParents DEF SessionInv, SessionTypes
<1>8. slips' \in Slips /\ slips'.faults <= SessionFaults
  BY <1>3, SameSlips
<1>. DEFINE now == IF tab' = tab THEN tab[t] ELSE new
<1>9. /\ now \in TabState /\ tab' = [tab EXCEPT ![t] = now] /\ now.page # "closed"
      /\ now.token \in 0 .. Issued' /\ tab'[t] = now
      /\ now = tab[t] \/ (tab[t].refresh = "none" /\ now = new)
  <2>1. CASE tab' = tab
    BY <1>2, <1>7, <2>1 DEF SessionInv, SessionTypes
  <2>2. CASE tab' # tab
    BY <1>2, <1>3, <1>5, <1>7, <2>2 DEF SessionInv, SessionTypes
  <2>. QED
    BY <2>1, <2>2
<1>. HIDE DEF now
<1>10. TokensAreUsedOnce' /\ TokensAreFresh'
  <2>1. \A u \in Tabs \ {t} : tab'[u] = tab[u]
    BY <1>9 DEF SessionInv, SessionTypes
  <2>2. \A u \in Tabs : tab'[u].refresh = "consumed" =>
          tab[u].refresh = "consumed" /\ tab'[u].token = tab[u].token
    BY <1>5, <1>9, <2>1
  <2>. QED
    BY <1>3, <2>2, TokensStay
<1>11. NoSlip' => NoSlip /\ (CanRefresh(t) => CanRefresh(t)')
  <2>1. OpenOnes' = OpenOnes
    BY <1>2, <1>9, SetTab
  <2>2. CanRefresh(t) => CanRefresh(t)'
    BY <1>3, <1>5, <1>9 DEF CanRefresh
  <2>. QED
    BY <1>3, <2>1, <2>2 DEF NoSlip
<1>. QED
  BY <1>2, <1>6, <1>7, <1>8, <1>9, <1>10, <1>11, TabMoves

\* A tab that leaves, or whose refresh fails: it is not consumed twice.
LEMMA SlipStep ==
  ASSUME SessionInv, NEW t \in Tabs, NEW new \in TabState,
         tab' = [tab EXCEPT ![t] = new], tab[t].page # "closed", new.page # "closed",
         new.token \in 0 .. Issued, new.refresh # "consumed",
         UNCHANGED parents, tokens' \subseteq tokens, cookie' \in 0 .. Issued,
         SendingKept,
         slips' \in Slips, slips'.faults <= SessionFaults, ~ NoSlip' \/ ~ CanRefresh(t),
         slips' = slips \/ ~ NoSlip'
  PROVE  SessionInv'
<1>1. /\ tab'[t] = new
      /\ \A u \in Tabs \ {t} : tab'[u] = tab[u]
      /\ OpenOnes' = OpenOnes
  BY SetTab
<1>2. TokensTyped /\ Issued' = Issued
  BY SameParents
<1>3. TokensAreUsedOnce' /\ TokensAreFresh'
  <2>1. \A u \in Tabs : tab'[u].refresh = "consumed" =>
          tab[u].refresh = "consumed" /\ tab'[u].token = tab[u].token
    BY <1>1
  <2>. QED
    BY <2>1, TokensStay
<1>4. NoSlip' => NoSlip /\ (CanRefresh(t) => CanRefresh(t)')
  BY <1>1 DEF NoSlip
<1>. QED
  BY <1>2, <1>3, <1>4, TabMoves

LEMMA OpenIfRefreshing ==
  ASSUME SessionInv, NEW t \in Tabs, tab[t].refresh # "none"
  PROVE  tab[t].page # "closed" /\ tab[t] \in TabState
BY DEF SessionInv, SessionTypes, ClosedTabsRest

\* A refresh that fails on its way.
LEMMA FailStep ==
  ASSUME SessionInv, NEW t \in Tabs, tab[t].refresh # "none",
         slips.faults > 0, slips' = [slips EXCEPT !.faults = @ - 1],
         tab' = [tab EXCEPT ![t].refresh = "refused"],
         UNCHANGED <<tokens, parents, cookie, sending>>
  PROVE  SessionInv'
<1>. DEFINE new == [tab[t] EXCEPT !.refresh = "refused"]
<1>1. tab[t].page # "closed" /\ tab[t] \in TabState
  BY OpenIfRefreshing
<1>2. /\ new \in TabState /\ new.page # "closed" /\ new.refresh # "consumed"
      /\ new.token = tab[t].token
  BY <1>1 DEF TabState
<1>3. tab' = [tab EXCEPT ![t] = new]
  BY DEF SessionInv, SessionTypes
<1>. HIDE DEF new
<1>4. slips' \in Slips /\ slips'.faults <= SessionFaults /\ ~ NoSlip'
  BY FailedOnce
<1>5. new.token \in 0 .. Issued /\ cookie' \in 0 .. Issued
  BY <1>2 DEF SessionInv, SessionTypes
<1>6. SendingKept
  BY NothingSentKept
<1>. QED
  BY <1>1, <1>2, <1>3, <1>4, <1>5, <1>6, SlipStep

LEMMA LoginPage ==
  [page |-> "login", access |-> 0, refresh |-> "none", token |-> 0] \in TabState
BY DEF TabState

\* The page is left for /login.
LEMMA LeaveStep ==
  ASSUME SessionInv, NEW t \in Tabs, tab[t].page # "closed",
         tab' = [tab EXCEPT ![t] = [page |-> "login", access |-> 0, refresh |-> "none", token |-> 0]],
         UNCHANGED <<tokens, parents>>, cookie' \in 0 .. Issued, SendingKept,
         slips' \in Slips, slips'.faults <= SessionFaults, ~ NoSlip' \/ ~ CanRefresh(t),
         slips' = slips \/ ~ NoSlip'
  PROVE  SessionInv'
<1>. DEFINE new == [page |-> "login", access |-> 0, refresh |-> "none", token |-> 0]
<1>1. /\ new \in TabState /\ new.page # "closed" /\ new.refresh # "consumed"
      /\ new.token \in 0 .. Issued
  BY LoginPage, SessionAssumption DEF SessionInv, SessionTypes
<1>2. tab' = [tab EXCEPT ![t] = new]
  OBVIOUS
<1>. HIDE DEF new
<1>. QED
  BY <1>1, <1>2, SlipStep

LEMMA RefusedStep ==
  ASSUME SessionInv, NEW t \in Tabs, Refused(t)
  PROVE  SessionInv'
<1>1. tab[t].page # "closed" /\ ~ CanRefresh(t)
  BY OpenIfRefreshing DEF Refused, CanRefresh
<1>2. SendingKept
  <2>1. sending' = [r \in Requests |-> IF sending[r].tab = t THEN NotSent ELSE sending[r]]
    BY DEF Refused
  <2>. QED
    BY <2>1, NotSentFacts DEF SendingKept, SessionInv, SessionTypes
<1>3. cookie' \in 0 .. Issued /\ slips' = slips
  BY DEF Refused, SessionInv, SessionTypes
<1>4. slips' \in Slips /\ slips'.faults <= SessionFaults
  BY <1>3, SameSlips
<1>5. /\ tab' = [tab EXCEPT ![t] = [page |-> "login", access |-> 0, refresh |-> "none", token |-> 0]]
      /\ UNCHANGED <<tokens, parents>>
  BY DEF Refused
<1>. QED
  BY <1>1, <1>2, <1>3, <1>4, <1>5, LeaveStep

LEMMA LogoutFailsStep ==
  ASSUME SessionInv, NEW t \in Tabs, LogoutFails(t)
  PROVE  SessionInv'
<1>1. slips' \in Slips /\ slips'.faults <= SessionFaults /\ ~ NoSlip'
  BY FailedOnce DEF LogoutFails, Leaves
<1>2. SendingKept
  BY NothingSentKept DEF LogoutFails
<1>3. /\ tab[t].page # "closed" /\ cookie' \in 0 .. Issued
      /\ tab' = [tab EXCEPT ![t] = [page |-> "login", access |-> 0, refresh |-> "none", token |-> 0]]
      /\ UNCHANGED <<tokens, parents>>
  BY DEF LogoutFails, Leaves, SessionInv, SessionTypes
<1>. QED
  BY <1>1, <1>2, <1>3, LeaveStep

LEMMA LogoutAnsweredStep ==
  ASSUME SessionInv, NEW t \in Tabs, LogoutAnswered(t)
  PROVE  SessionInv'
<1>1. tab[t].page # "closed" /\ ~ CanRefresh(t)
  BY OpenIfRefreshing DEF LogoutAnswered, CanRefresh
<1>2. SendingKept
  BY NothingSentKept DEF LogoutAnswered
<1>3. cookie' \in 0 .. Issued /\ slips' = slips
  BY DEF LogoutAnswered, SessionInv, SessionTypes
<1>4. slips' \in Slips /\ slips'.faults <= SessionFaults
  BY <1>3, SameSlips
<1>5. /\ tab' = [tab EXCEPT ![t] = [page |-> "login", access |-> 0, refresh |-> "none", token |-> 0]]
      /\ UNCHANGED <<tokens, parents>>
  BY DEF LogoutAnswered
<1>. QED
  BY <1>1, <1>2, <1>3, <1>4, <1>5, LeaveStep

LEMMA LogoutOnServerStep ==
  ASSUME SessionInv, NEW t \in Tabs, LogoutOnServer(t)
  PROVE  SessionInv'
<1>. DEFINE new == [tab[t] EXCEPT !.refresh = "leaving"]
<1>1. tab[t].page # "closed" /\ tab[t] \in TabState
  BY DEF LogoutOnServer, Leaves, SessionInv, SessionTypes
<1>2. /\ new \in TabState /\ new.page # "closed" /\ new.refresh # "consumed"
      /\ new.token = tab[t].token
  BY <1>1 DEF TabState
<1>3. tab' = [tab EXCEPT ![t] = new]
  BY DEF SessionInv, SessionTypes, LogoutOnServer
<1>. HIDE DEF new
<1>4. slips' \in Slips /\ slips'.faults <= SessionFaults /\ ~ NoSlip'
  BY FailedOnce DEF LogoutOnServer, Leaves
<1>5. /\ new.token \in 0 .. Issued /\ cookie' \in 0 .. Issued
      /\ UNCHANGED parents /\ tokens' \subseteq tokens
  BY <1>2 DEF SessionInv, SessionTypes, LogoutOnServer
<1>6. SendingKept
  BY NothingSentKept DEF LogoutOnServer
<1>. QED
  BY <1>1, <1>2, <1>3, <1>4, <1>5, <1>6, SlipStep

LEMMA ConsumeStep ==
  ASSUME SessionInv, NEW t \in Tabs, Consume(t)
  PROVE  SessionInv'
<1>. DEFINE known == tab[t].token \in tokens
            new   == [tab[t] EXCEPT !.refresh = IF known THEN "consumed" ELSE "refused"]
<1>1. tab[t].page # "closed" /\ tab[t] \in TabState /\ tab[t].refresh = "sent"
  BY OpenIfRefreshing DEF Consume
<1>2. /\ new \in TabState /\ new.page = tab[t].page
      /\ new.refresh = (IF known THEN "consumed" ELSE "refused")
      /\ new.token = tab[t].token
  BY <1>1 DEF TabState
<1>3. tab' = [tab EXCEPT ![t] = new]
  BY DEF SessionInv, SessionTypes, Consume
<1>. HIDE DEF new
<1>4. /\ tab'[t] = new /\ \A u \in Tabs \ {t} : tab'[u] = tab[u]
      /\ OpenOnes' = OpenOnes
  BY <1>1, <1>2, <1>3, SetTab
<1>5. tokens' = tokens \ {tab[t].token} /\ UNCHANGED <<parents, expired, cookie, sending, slips>>
  BY DEF Consume
<1>6. TokensTyped /\ Issued' = Issued
  BY <1>5, SameParents DEF SessionInv, SessionTypes
<1>7. new.token \in 0 .. Issued'
  BY <1>2, <1>6 DEF SessionInv, SessionTypes
<1>8. TokensAreUsedOnce'
  BY <1>5 DEF SessionInv, TokensAreUsedOnce
<1>9. TokensAreFresh'
  <2>1. known => tab[t].token \in 1 .. Issued
    BY DEF SessionInv, SessionTypes
  <2>2. \A n \in 1 .. Issued : parents[n] # 0 => parents[n] \notin tokens'
    BY <1>5 DEF SessionInv, TokensAreFresh
  <2>3. ASSUME NEW u \in Tabs, tab'[u].refresh = "consumed"
        PROVE  /\ tab'[u].token # 0 /\ tab'[u].token \notin tokens'
               /\ \A n \in 1 .. Issued : parents[n] # tab'[u].token
               /\ u # t => tab[u].refresh = "consumed" /\ tab'[u] = tab[u]
               /\ u = t => known /\ tab'[u].token = tab[t].token
    <3>1. CASE u = t
      <4>1. known /\ tab'[u].token = tab[t].token
        BY <1>2, <1>4, <2>3, <3>1
      <4>. QED
        BY <1>5, <2>1, <3>1, <4>1 DEF SessionInv, TokensAreFresh
    <3>2. CASE u # t
      BY <1>4, <1>5, <2>3, <3>2 DEF SessionInv, TokensAreFresh
    <3>. QED
      BY <3>1, <3>2
  <2>4. ASSUME NEW u \in Tabs, NEW v \in Tabs,
               tab'[u].refresh = "consumed", tab'[v].refresh = "consumed",
               tab'[u].token = tab'[v].token
        PROVE  u = v
    <3>1. CASE u # t /\ v # t
      BY <2>3, <2>4, <3>1 DEF SessionInv, TokensAreFresh
    <3>2. CASE u = t /\ v # t
      <4>1. tab[v].refresh = "consumed" /\ tab[v].token \in tokens
        BY <2>3, <2>4, <3>2
      <4>. QED
        BY <4>1 DEF SessionInv, TokensAreFresh
    <3>3. CASE u # t /\ v = t
      <4>1. tab[u].refresh = "consumed" /\ tab[u].token \in tokens
        BY <2>3, <2>4, <3>3
      <4>. QED
        BY <4>1 DEF SessionInv, TokensAreFresh
    <3>. QED
      BY <3>1, <3>2, <3>3
  <2>. QED
    BY <1>5, <1>6, <2>2, <2>3, <2>4 DEF TokensAreFresh
<1>10. NoSlip' => NoSlip /\ (CanRefresh(t) => CanRefresh(t)')
  <2>1. CanRefresh(t) => CanRefresh(t)'
    BY <1>1, <1>2, <1>4 DEF CanRefresh
  <2>. QED
    BY <1>4, <1>5, <2>1 DEF NoSlip
<1>11. SendingKept /\ slips' \in Slips /\ slips'.faults <= SessionFaults
  BY <1>5, NothingSentKept, SameSlips
<1>. QED
  BY <1>1, <1>2, <1>3, <1>6, <1>7, <1>8, <1>9, <1>10, <1>11, TabMoves

---------------------------------------------------------------------------
(* A new token *)

\* It is issued for a token nobody holds, or to a teacher who logs in.
LEMMA NewToken ==
  ASSUME SessionInv, Issued < MaxToken, NEW parent \in 0 .. Issued,
         parents' = [n \in DOMAIN parents \union {Issued + 1} |->
                       IF n = Issued + 1 THEN parent ELSE parents[n]],
         tokens' = tokens \union {Issued + 1}, cookie' \in 0 .. (Issued + 1),
         parent # 0 => /\ parent \notin tokens
                       /\ \A n \in 1 .. Issued : parents[n] # parent
                       /\ \A u \in Tabs : tab'[u].refresh = "consumed" => tab[u].token # parent,
         \A u \in Tabs : tab'[u].refresh = "consumed" =>
           tab[u].refresh = "consumed" /\ tab'[u].token = tab[u].token
  PROVE  /\ TokensTyped /\ Issued' = Issued + 1
         /\ TokensAreUsedOnce' /\ TokensAreFresh'
<1>1. /\ Issued' = Issued + 1 /\ Issued' \in 1 .. MaxToken
      /\ parents' \in [1 .. Issued' -> 0 .. Issued']
      /\ parents'[Issued + 1] = parent
      /\ \A n \in 1 .. Issued : parents'[n] = parents[n]
  BY OneMoreToken DEF SessionInv
<1>. DEFINE k == Issued
<1>2. /\ k \in Nat /\ 1 .. (k + 1) = (1 .. k) \union {k + 1} /\ tokens \subseteq 1 .. k
      /\ parents \in [1 .. k -> 0 .. k] /\ k + 1 \notin 0 .. k
      /\ \A u \in Tabs : tab[u].token \in 0 .. k
  BY SessionAssumption DEF SessionInv, SessionTypes
<1>3. /\ Issued' = k + 1 /\ parents' \in [1 .. (k + 1) -> 0 .. (k + 1)]
      /\ parents'[k + 1] = parent /\ parent \in 0 .. k
      /\ \A n \in 1 .. k : parents'[n] = parents[n]
      /\ tokens' = tokens \union {k + 1} /\ cookie' \in 0 .. (k + 1)
  BY <1>1
<1>4. /\ \A n \in 1 .. k : parents[n] # 0 => parents[n] \notin tokens
      /\ parent # 0 => parent \notin tokens /\ \A n \in 1 .. k : parents[n] # parent
  BY DEF SessionInv, TokensAreFresh
<1>5. \A u \in Tabs : tab'[u].refresh = "consumed" =>
        /\ tab'[u].token # 0 /\ tab'[u].token \notin tokens /\ tab'[u].token \in 0 .. k
        /\ \A n \in 1 .. k : parents[n] # tab'[u].token
        /\ parent # 0 => tab'[u].token # parent
  BY <1>2 DEF SessionInv, TokensAreFresh
<1>6. \A u, v \in Tabs :
        /\ tab'[u].refresh = "consumed" /\ tab'[v].refresh = "consumed"
        /\ tab'[u].token = tab'[v].token
        => u = v
  BY DEF SessionInv, TokensAreFresh
<1>7. \A m, n \in 1 .. k : parents[m] = parents[n] /\ parents[m] # 0 => m = n
  BY <1>2 DEF SessionInv, TokensAreUsedOnce
<1>. HIDE DEF k
<1>8. TokensTyped
  <2>1. Issued <= Issued'
    BY <1>2, <1>3 DEF k
  <2>2. tokens' \subseteq 1 .. Issued' /\ cookie' \in 0 .. Issued'
    BY <1>2, <1>3
  <2>. QED
    BY <1>1, <2>1, <2>2 DEF TokensTyped
<1>9. TokensAreUsedOnce'
  <2>. DEFINE range == 1 .. (k + 1)
  <2>0. DOMAIN parents' = range
    BY <1>3
  <2>. SUFFICES \A m, n \in range : parents'[m] = parents'[n] /\ parents'[m] # 0 => m = n
    <3>. HIDE DEF range
    <3>. QED
      BY <2>0 DEF TokensAreUsedOnce
  <2>. SUFFICES ASSUME NEW m \in range, NEW n \in range,
                       parents'[m] = parents'[n], parents'[m] # 0
                PROVE  m = n
    OBVIOUS
  <2>1. CASE m \in 1 .. k /\ n \in 1 .. k
    BY <1>3, <1>7, <2>1
  <2>2. CASE m = k + 1 /\ n \in 1 .. k
    BY <1>3, <1>4, <2>2
  <2>3. CASE n = k + 1 /\ m \in 1 .. k
    BY <1>3, <1>4, <2>3
  <2>. QED
    BY <1>2, <2>1, <2>2, <2>3
<1>10. TokensAreFresh'
  <2>1. \A n \in 1 .. (k + 1) : parents'[n] # 0 => parents'[n] \notin tokens'
    <3>. SUFFICES ASSUME NEW n \in 1 .. (k + 1), parents'[n] # 0 PROVE parents'[n] \notin tokens'
      OBVIOUS
    <3>1. CASE n \in 1 .. k
      BY <1>2, <1>3, <1>4, <3>1
    <3>2. CASE n = k + 1
      BY <1>2, <1>3, <1>4, <3>2
    <3>. QED
      BY <1>2, <3>1, <3>2
  <2>2. ASSUME NEW u \in Tabs, tab'[u].refresh = "consumed"
        PROVE  /\ tab'[u].token # 0 /\ tab'[u].token \notin tokens'
               /\ \A n \in 1 .. (k + 1) : parents'[n] # tab'[u].token
    <3>1. tab'[u].token # 0 /\ tab'[u].token \notin tokens'
      BY <1>2, <1>3, <1>5, <2>2
    <3>2. parents'[k + 1] # tab'[u].token
      BY <1>3, <1>5, <2>2
    <3>. QED
      BY <1>2, <1>3, <1>5, <2>2, <3>1, <3>2
  <2>. QED
    BY <1>3, <1>6, <2>1, <2>2 DEF TokensAreFresh
<1>. QED
  BY <1>1, <1>8, <1>9, <1>10

LEMMA IssueStep ==
  ASSUME SessionInv, NEW t \in Tabs, Issue(t)
  PROVE  SessionInv'
<1>1. CASE /\ slips.faults > 0
           /\ slips' = [slips EXCEPT !.faults = @ - 1]
           /\ tab' = [tab EXCEPT ![t].refresh = "refused"]
           /\ UNCHANGED <<tokens, parents>>
  <2>1. tab[t].refresh # "none" /\ UNCHANGED <<cookie, sending>>
    BY DEF Issue
  <2>. QED
    BY <1>1, <2>1, FailStep
<1>2. CASE /\ Issued < MaxToken
           /\ tokens' = tokens \union {Issued + 1}
           /\ parents' = [n \in DOMAIN parents \union {Issued + 1} |->
                            IF n = Issued + 1 THEN tab[t].token ELSE parents[n]]
           /\ tab' = [tab EXCEPT ![t].refresh = "answered", ![t].token = Issued + 1]
           /\ UNCHANGED slips
  <2>. DEFINE new == [tab[t] EXCEPT !.refresh = "answered", !.token = Issued + 1]
  <2>1. /\ tab[t].page # "closed" /\ tab[t] \in TabState /\ tab[t].refresh = "consumed"
        /\ UNCHANGED <<expired, cookie, sending>>
    BY OpenIfRefreshing DEF Issue
  <2>2. Issued + 1 \in Token
    BY <1>2, SessionAssumption DEF SessionInv, SessionTypes, Token
  <2>3. /\ new \in TabState /\ new.page = tab[t].page /\ new.refresh = "answered"
        /\ new.token = Issued + 1
    BY <2>1, <2>2 DEF TabState
  <2>4. tab' = [tab EXCEPT ![t] = new]
    BY <1>2 DEF SessionInv, SessionTypes
  <2>. HIDE DEF new
  <2>5. /\ tab'[t] = new /\ \A u \in Tabs \ {t} : tab'[u] = tab[u]
        /\ OpenOnes' = OpenOnes
    BY <2>1, <2>3, <2>4, SetTab
  <2>6. /\ tab[t].token \in 0 .. Issued /\ tab[t].token \notin tokens
        /\ \A n \in 1 .. Issued : parents[n] # tab[t].token
        /\ \A u \in Tabs : tab'[u].refresh = "consumed" => tab[u].token # tab[t].token
        /\ \A u \in Tabs : tab'[u].refresh = "consumed" =>
             tab[u].refresh = "consumed" /\ tab'[u].token = tab[u].token
    BY <2>1, <2>3, <2>5 DEF SessionInv, SessionTypes, TokensAreFresh
  <2>7. cookie' \in 0 .. (Issued + 1)
    BY <2>1, SessionAssumption DEF SessionInv, SessionTypes
  <2>8. TokensTyped /\ Issued' = Issued + 1 /\ TokensAreUsedOnce' /\ TokensAreFresh'
    BY <1>2, <2>6, <2>7, NewToken
  <2>9. NoSlip' => NoSlip /\ (CanRefresh(t) => CanRefresh(t)')
    <3>1. CanRefresh(t) => CanRefresh(t)'
      BY <1>2, <2>1, <2>3, <2>5 DEF CanRefresh
    <3>. QED
      BY <1>2, <2>5, <3>1 DEF NoSlip
  <2>10. SendingKept /\ slips' \in Slips /\ slips'.faults <= SessionFaults
    BY <1>2, <2>1, NothingSentKept, SameSlips
  <2>11. new.token \in 0 .. Issued'
    BY <2>3, <2>8, SessionAssumption DEF TokensTyped
  <2>. QED
    BY <2>1, <2>3, <2>4, <2>8, <2>9, <2>10, <2>11, TabMoves
<1>. QED
  BY <1>1, <1>2 DEF Issue

LEMMA RefreshedStep ==
  ASSUME SessionInv, NEW t \in Tabs, Refreshed(t)
  PROVE  SessionInv'
<1>. DEFINE new  == [tab[t] EXCEPT !.refresh = "none", !.access = tab[t].token, !.token = 0]
            next == [pc |-> "again", tab |-> t, access |-> tab[t].token]
<1>1. /\ tab[t].page # "closed" /\ tab[t] \in TabState /\ tab[t].refresh = "answered"
      /\ UNCHANGED <<tokens, parents, expired, slips>> /\ cookie' = tab[t].token
  BY OpenIfRefreshing DEF Refreshed
<1>2. tab[t].token \in 0 .. Issued /\ tab[t].token \in Token \union {0}
  BY <1>1 DEF SessionInv, SessionTypes, TabState
<1>3. /\ new \in TabState /\ new.page = tab[t].page /\ new.refresh = "none" /\ new.token = 0
  BY <1>1, <1>2 DEF TabState
<1>4. tab' = [tab EXCEPT ![t] = new]
  BY DEF SessionInv, SessionTypes, Refreshed
<1>5. next \in Sending /\ next.pc = "again" /\ next.tab = t
  BY <1>2 DEF Sending
<1>6. sending' = [r \in Requests |-> IF r \in Waiting(t) THEN next ELSE sending[r]]
  BY DEF Refreshed
<1>. HIDE DEF new, next
<1>7. /\ tab'[t] = new /\ \A u \in Tabs \ {t} : tab'[u] = tab[u]
      /\ OpenOnes' = OpenOnes
  BY <1>1, <1>3, <1>4, SetTab
<1>8. SendingKept
  <2>1. \A r \in Waiting(t) : sending[r].pc = "waiting" /\ sending[r].tab = t
    BY DEF Waiting
  <2>2. \A r \in Requests : sending'[r] = IF r \in Waiting(t) THEN next ELSE sending[r]
    BY <1>6
  <2>3. sending' \in [Requests -> Sending]
    BY <1>5, <1>6 DEF SessionInv, SessionTypes
  <2>. QED
    BY <1>5, <2>1, <2>2, <2>3 DEF SendingKept, SessionInv, SessionTypes
<1>9. TokensTyped /\ Issued' = Issued
  BY <1>1, <1>2, SameParents
<1>10. TokensAreUsedOnce' /\ TokensAreFresh'
  <2>1. \A u \in Tabs : tab'[u].refresh = "consumed" =>
          tab[u].refresh = "consumed" /\ tab'[u].token = tab[u].token
    BY <1>3, <1>7
  <2>. QED
    BY <1>1, <2>1, TokensStay
<1>11. NoSlip' => NoSlip /\ (CanRefresh(t) => CanRefresh(t)')
  <2>1. CanRefresh(t) => CanRefresh(t)'
    BY <1>1, <1>3, <1>7 DEF CanRefresh
  <2>. QED
    BY <1>1, <1>7, <2>1 DEF NoSlip
<1>12. slips' \in Slips /\ slips'.faults <= SessionFaults
  BY <1>1, SameSlips
<1>13. new.token \in 0 .. Issued'
  BY <1>3, <1>9, SessionAssumption DEF TokensTyped
<1>. QED
  BY <1>1, <1>3, <1>4, <1>8, <1>9, <1>10, <1>11, <1>12, <1>13, TabMoves

LEMMA LoginStep ==
  ASSUME SessionInv, NEW t \in Tabs, Login(t)
  PROVE  SessionInv'
<1>. DEFINE new == [tab[t] EXCEPT !.page = "app", !.access = Issued + 1]
<1>1. /\ tab[t].page = "login" /\ tab[t] \in TabState /\ Issued < MaxToken
      /\ tokens' = tokens \union {Issued + 1} /\ cookie' = Issued + 1
      /\ parents' = [n \in DOMAIN parents \union {Issued + 1} |->
                       IF n = Issued + 1 THEN 0 ELSE parents[n]]
      /\ tab' = [tab EXCEPT ![t].page = "app", ![t].access = Issued + 1]
      /\ UNCHANGED <<expired, sending, slips>>
  BY DEF Login, SessionInv, SessionTypes
<1>2. Issued + 1 \in Token /\ cookie' \in 0 .. (Issued + 1) /\ 0 \in 0 .. Issued
  BY <1>1, SessionAssumption DEF SessionInv, SessionTypes, Token
<1>3. /\ new \in TabState /\ new.page = "app" /\ new.refresh = tab[t].refresh
      /\ new.token = tab[t].token
  BY <1>1, <1>2 DEF TabState
<1>4. tab' = [tab EXCEPT ![t] = new]
  BY <1>1 DEF SessionInv, SessionTypes
<1>. HIDE DEF new
<1>5. /\ tab'[t] = new /\ \A u \in Tabs \ {t} : tab'[u] = tab[u]
      /\ OpenOnes' = OpenOnes
  BY <1>1, <1>3, <1>4, SetTab
<1>6. \A u \in Tabs : tab'[u].refresh = "consumed" =>
        tab[u].refresh = "consumed" /\ tab'[u].token = tab[u].token
  BY <1>3, <1>5
<1>7. TokensTyped /\ Issued' = Issued + 1 /\ TokensAreUsedOnce' /\ TokensAreFresh'
  BY <1>1, <1>2, <1>6, NewToken
<1>8. NoSlip' => NoSlip /\ (CanRefresh(t) => CanRefresh(t)')
  <2>1. ~ CanRefresh(t)
    BY <1>1 DEF CanRefresh
  <2>. QED
    BY <1>1, <1>5, <2>1 DEF NoSlip
<1>9. SendingKept /\ slips' \in Slips /\ slips'.faults <= SessionFaults
  BY <1>1, NothingSentKept, SameSlips
<1>10. new.token \in 0 .. Issued'
  <2>1. tab[t].token \in 0 .. Issued /\ Issued \in Nat
    BY SessionAssumption DEF SessionInv, SessionTypes
  <2>. QED
    BY <1>3, <1>7, <2>1
<1>. QED
  BY <1>1, <1>3, <1>4, <1>7, <1>8, <1>9, <1>10, TabMoves

---------------------------------------------------------------------------
(* The invariant *)

LEMMA SessionStarts == SessionInit => SessionInv
<1>. SUFFICES ASSUME SessionInit PROVE SessionInv
  OBVIOUS
<1>1. Issued = 1 /\ parents[1] = 0 /\ DOMAIN parents = 1 .. 1
  <2>1. DOMAIN parents = {1} /\ {1} = 1 .. 1
    BY DEF SessionInit
  <2>. QED
    BY <2>1, FS_Singleton DEF SessionInit, Issued
<1>2. PICK open \in OpenTabs :
        tab = [t \in Tabs |-> [page |-> IF t \in open THEN "app" ELSE "closed",
                               access |-> IF t \in open THEN 1 ELSE 0,
                               refresh |-> "none", token |-> 0]]
  BY DEF SessionInit
<1>3. \A t \in Tabs : /\ tab[t] \in TabState
                      /\ tab[t].page = (IF t \in open THEN "app" ELSE "closed")
                      /\ tab[t].access = (IF t \in open THEN 1 ELSE 0)
                      /\ tab[t].refresh = "none" /\ tab[t].token = 0
  BY <1>2, SessionAssumption DEF TabState, Token
<1>4. SessionTypes
  <2>1. sending \in [Requests -> Sending] /\ \A r \in Requests : sending[r] = NotSent
    BY NotSentFacts DEF SessionInit
  <2>2. slips \in Slips /\ slips.faults <= SessionFaults
    BY SessionAssumption DEF SessionInit, Slips
  <2>3. tab \in [Tabs -> TabState]
    BY <1>2, <1>3
  <2>4. parents \in [1 .. 1 -> 0 .. 1]
    BY <1>1 DEF SessionInit
  <2>. QED
    BY <1>1, <1>3, <2>1, <2>2, <2>3, <2>4, NotSentFacts, SessionAssumption
       DEF SessionTypes, SessionInit
<1>5. TokensAreUsedOnce /\ TokensAreFresh
  BY <1>1, <1>3 DEF TokensAreUsedOnce, TokensAreFresh
<1>6. ClosedTabsRest
  BY <1>3, NotSentFacts DEF ClosedTabsRest, SessionInit
<1>7. OneTabCanRefresh
  BY <1>3 DEF OneTabCanRefresh, OpenOnes, CanRefresh, SessionInit
<1>. QED
  BY <1>4, <1>5, <1>6, <1>7 DEF SessionInv

LEMMA SessionInvKept == SessionInv /\ [SessionNext]_sessionVars => SessionInv'
<1>. SUFFICES ASSUME SessionInv, [SessionNext]_sessionVars PROVE SessionInv'
  OBVIOUS
<1>1. ASSUME NEW r \in Requests, Answer401(r) \/ AskRefresh(r) PROVE SessionInv'
  BY <1>1, AnswerStep401, AskStep
<1>2. ASSUME NEW r \in Requests, NEW t \in Tabs, SendRequest(r, t) PROVE SessionInv'
  BY <1>2, SendStep
<1>3. ASSUME NEW t \in Tabs, ExpireAccess(t) PROVE SessionInv'
  BY <1>3, ExpireStep DEF ExpireAccess
<1>4. ASSUME NEW t \in Tabs, Consume(t) \/ Issue(t) \/ Refreshed(t) PROVE SessionInv'
  BY <1>4, ConsumeStep, IssueStep, RefreshedStep
<1>5. ASSUME NEW t \in Tabs, AnswerLost(t) PROVE SessionInv'
  BY <1>5, FailStep DEF AnswerLost
<1>6. ASSUME NEW t \in Tabs, Refused(t) \/ Login(t) PROVE SessionInv'
  BY <1>6, RefusedStep, LoginStep
<1>7. ASSUME NEW t \in Tabs, LogoutOnServer(t) \/ LogoutAnswered(t) \/ LogoutFails(t)
      PROVE  SessionInv'
  BY <1>7, LogoutOnServerStep, LogoutAnsweredStep, LogoutFailsStep
<1>8. CASE UNCHANGED sessionVars
  BY <1>8, ExpireStep DEF sessionVars
<1>. QED
  BY <1>1, <1>2, <1>3, <1>4, <1>5, <1>6, <1>7, <1>8 DEF SessionNext

\* The session's types, and the four relations above, hold in every state.
THEOREM SessionIsConsistent == SessionSpec => []SessionInv
BY SessionStarts, SessionInvKept, PTL DEF SessionSpec

\* A refresh token buys one session although tabs race for it, and a teacher with
\* one tab is not sent to /login because access tokens expire: for every number of
\* tabs, requests under way and tokens.
THEOREM RefreshIsAlwaysSafe == SessionSpec => []RefreshIsSafe
<1>1. SessionInv => RefreshIsSafe
  <2>. SUFFICES ASSUME SessionInv PROVE OneTabStaysLoggedIn
    BY DEF RefreshIsSafe, SessionInv
  <2>. SUFFICES ASSUME NoSlip, NEW t \in Tabs
                PROVE  tab[t].page # "login" /\ tab[t].refresh # "refused"
    BY DEF OneTabStaysLoggedIn, NoSlip
  <2>1. CASE t \in OpenOnes
    BY <2>1, TheOneTab DEF CanRefresh
  <2>2. CASE t \notin OpenOnes
    BY <2>2 DEF OpenOnes, SessionInv, ClosedTabsRest
  <2>. QED
    BY <2>1, <2>2
<1>. QED
  BY <1>1, SessionIsConsistent, PTL

\* Tokens are numbered as they are issued, each with the one it was bought with.
THEOREM SessionTypesHold == SessionSpec => []SessionTypeOK
<1>1. ASSUME SessionInv PROVE SessionTypeOK
  <2>1. SessionTypes
    BY <1>1 DEF SessionInv
  <2>2. PICK n \in 1 .. MaxToken : n = Issued
    BY <2>1 DEF SessionTypes
  <2>3. MaxToken \in Nat
    BY SessionAssumption
  <2>4. tokens \subseteq Token /\ cookie \in Token \union {0} /\ DOMAIN parents = 1 .. Issued
    BY <2>1, <2>2, <2>3 DEF SessionTypes, Token
  <2>5. \A r \in Requests : sending[r] # NotSent => sending[r].tab \in Tabs
    BY <2>1 DEF SessionTypes
  <2>. QED
    BY <2>1, <2>4, <2>5 DEF SessionTypes, SessionTypeOK
<1>. QED
  BY <1>1, SessionIsConsistent, PTL
=============================================================================
