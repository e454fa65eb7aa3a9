--------------------------- MODULE BrowserSession ---------------------------
(***************************************************************************)
(* The session of a teacher's browser: access tokens kept by each tab, one *)
(* refresh token in the cookie jar all tabs share, and the refresh tokens  *)
(* Redis knows. A request that is answered 401 makes its tab refresh once, *)
(* for all its requests, and is sent again (client.ts, session.ts); the    *)
(* server takes the refresh token out of Redis before it issues the next   *)
(* (services/auth.py).                                                     *)
(*                                                                         *)
(* Tokens are numbers, in the order they are issued: 0 is none. The        *)
(* lifetime of a refresh token is longer than a behaviour, and no page is  *)
(* reloaded by hand.                                                       *)
(***************************************************************************)
EXTENDS Integers, FiniteSets

CONSTANTS
  Tabs,          \* tabs of the browser
  Requests,      \* requests that may be under way at the same time
  MaxToken,      \* bound: refresh tokens issued
  MaxSends,      \* bound: requests sent
  SessionFaults, \* bound: refreshes that fail half way, logouts
  OpenTabs       \* sets of tabs that may be open

ASSUME SessionAssumption ==
  /\ MaxToken \in Nat \ {0}
  /\ MaxSends \in Nat /\ SessionFaults \in Nat
  /\ IsFiniteSet(Tabs)
  /\ OpenTabs \subseteq SUBSET Tabs

VARIABLES
  tokens,   \* refresh tokens in Redis
  parents,  \* history: refresh token -> the one it was issued for
  expired,  \* access tokens that have expired; each has the number of the
            \* refresh token issued with it
  cookie,   \* refresh token in the jar
  tab,      \* tab -> its page, its access token and its refresh under way
  sending,  \* request -> where it is
  slips     \* what remains of the bounds

sessionVars == <<tokens, parents, expired, cookie, tab, sending, slips>>

---------------------------------------------------------------------------

Token == 1 .. MaxToken

Issued == Cardinality(DOMAIN parents)

\* refresh: where the one refresh of the tab is; token: what it carries.
TabState == [page    : {"app", "login", "closed"},
             access  : Token \union {0},
             refresh : {"none", "sent", "consumed", "answered", "refused", "leaving"},
             token   : Token \union {0}]

OpenOnes == {t \in Tabs : tab[t].page # "closed"}

NotSent == [pc |-> "idle", tab |-> "none", access |-> 0]

SessionInit ==
  /\ tokens = {1}
  /\ parents = [t \in {1} |-> 0]
  /\ expired = {}
  /\ cookie = 1
  /\ \E open \in OpenTabs :
       tab = [t \in Tabs |-> [page |-> IF t \in open THEN "app" ELSE "closed",
                              access |-> IF t \in open THEN 1 ELSE 0,
                              refresh |-> "none", token |-> 0]]
  /\ sending = [r \in Requests |-> NotSent]
  /\ slips = [faults |-> SessionFaults, sends |-> MaxSends]

---------------------------------------------------------------------------
(* Requests *)

SendRequest(r, t) ==
  /\ slips.sends > 0
  /\ slips' = [slips EXCEPT !.sends = @ - 1]
  /\ tab[t].page = "app"
  /\ sending[r].pc = "idle"
  /\ sending' = [sending EXCEPT ![r] = [pc |-> "sent", tab |-> t, access |-> tab[t].access]]
  /\ UNCHANGED <<tokens, parents, expired, cookie, tab>>

Accepted(r) == sending[r].access # 0 /\ sending[r].access \notin expired

\* Answered, or 401 for the second time; the first 401 asks for a refresh.
Answer401(r) ==
  /\ sending[r].pc \in {"sent", "again"}
  /\ sending' = [sending EXCEPT ![r] =
       IF Accepted(r) \/ sending[r].pc = "again" THEN NotSent ELSE [@ EXCEPT !.pc = "refresh"]]
  /\ UNCHANGED <<tokens, parents, expired, cookie, tab, slips>>

ExpireAccess(t) ==
  /\ tab[t].access # 0
  /\ expired' = expired \union {tab[t].access}
  /\ UNCHANGED <<tokens, parents, cookie, tab, sending, slips>>

---------------------------------------------------------------------------
(* Refresh *)

\* Mutant: every request that is refused sends a refresh of its own.
AskRefreshEach(r) ==
  LET t == sending[r].tab
  IN /\ sending[r].pc = "refresh"
     /\ tab[t].refresh # "leaving"
     /\ sending' = [sending EXCEPT ![r].pc = "waiting"]
     /\ tab' = [tab EXCEPT ![t].refresh = "sent", ![t].token = cookie]
     /\ UNCHANGED <<tokens, parents, expired, cookie, slips>>

\* The tab sends one refresh; requests that need it later wait for the same.
AskRefresh(r) ==
  LET t == sending[r].tab
  IN /\ sending[r].pc = "refresh"
     /\ tab[t].refresh # "leaving"
     /\ sending' = [sending EXCEPT ![r].pc = "waiting"]
     /\ tab' = IF tab[t].refresh = "none"
               THEN [tab EXCEPT ![t].refresh = "sent", ![t].token = cookie]
               ELSE tab
     /\ UNCHANGED <<tokens, parents, expired, cookie, slips>>

\* Mutant: GET instead of GETDEL.
ConsumeGet(t) ==
  /\ tab[t].refresh = "sent"
  /\ tab' = [tab EXCEPT ![t].refresh = IF tab[t].token \in tokens THEN "consumed" ELSE "refused"]
  /\ UNCHANGED <<tokens, parents, expired, cookie, sending, slips>>

\* GETDEL
Consume(t) ==
  /\ tab[t].refresh = "sent"
  /\ tokens' = tokens \ {tab[t].token}
  /\ tab' = [tab EXCEPT ![t].refresh = IF tab[t].token \in tokens THEN "consumed" ELSE "refused"]
  /\ UNCHANGED <<parents, expired, cookie, sending, slips>>

\* After the audit entry is committed the next pair is issued. A failure in
\* between has used the token up.
Issue(t) ==
  /\ tab[t].refresh = "consumed"
  /\ \/ /\ Issued < MaxToken
        /\ tokens' = tokens \union {Issued + 1}
        /\ parents' = [n \in DOMAIN parents \union {Issued + 1} |->
                         IF n = Issued + 1 THEN tab[t].token ELSE parents[n]]
        /\ tab' = [tab EXCEPT ![t].refresh = "answered", ![t].token = Issued + 1]
        /\ UNCHANGED slips
     \/ /\ slips.faults > 0
        /\ slips' = [slips EXCEPT !.faults = @ - 1]
        /\ tab' = [tab EXCEPT ![t].refresh = "refused"]
        /\ UNCHANGED <<tokens, parents>>
  /\ UNCHANGED <<expired, cookie, sending>>

Waiting(t) == {r \in Requests : sending[r].tab = t /\ sending[r].pc = "waiting"}

\* The answer sets the cookie and the access token; the requests that waited
\* are sent again. An answer that is lost counts as a refusal.
Refreshed(t) ==
  /\ tab[t].refresh = "answered"
  /\ cookie' = tab[t].token
  /\ tab' = [tab EXCEPT ![t].refresh = "none", ![t].access = tab[t].token, ![t].token = 0]
  /\ sending' = [r \in Requests |->
       IF r \in Waiting(t) THEN [pc |-> "again", tab |-> t, access |-> tab[t].token]
       ELSE sending[r]]
  /\ UNCHANGED <<tokens, parents, expired, slips>>

AnswerLost(t) ==
  /\ tab[t].refresh = "answered"
  /\ slips.faults > 0
  /\ slips' = [slips EXCEPT !.faults = @ - 1]
  /\ tab' = [tab EXCEPT ![t].refresh = "refused"]
  /\ UNCHANGED <<tokens, parents, expired, cookie, sending>>

\* The page is left for /login, which ends everything under way in the tab.
Refused(t) ==
  /\ tab[t].refresh = "refused"
  /\ tab' = [tab EXCEPT ![t] = [page |-> "login", access |-> 0, refresh |-> "none", token |-> 0]]
  /\ sending' = [r \in Requests |-> IF sending[r].tab = t THEN NotSent ELSE sending[r]]
  /\ UNCHANGED <<tokens, parents, expired, cookie, slips>>

---------------------------------------------------------------------------
(* Logging in and out *)

Login(t) ==
  /\ tab[t].page = "login"
  /\ Issued < MaxToken
  /\ tokens' = tokens \union {Issued + 1}
  /\ parents' = [n \in DOMAIN parents \union {Issued + 1} |->
                   IF n = Issued + 1 THEN 0 ELSE parents[n]]
  /\ cookie' = Issued + 1
  /\ tab' = [tab EXCEPT ![t].page = "app", ![t].access = Issued + 1]
  /\ UNCHANGED <<expired, sending, slips>>

\* A teacher logs out of a tab with nothing under way.
Leaves(t) ==
  /\ tab[t].page = "app" /\ tab[t].refresh = "none"
  /\ \A r \in Requests : sending[r].tab # t
  /\ slips.faults > 0
  /\ slips' = [slips EXCEPT !.faults = @ - 1]

LogoutOnServer(t) ==
  /\ Leaves(t)
  /\ tokens' = tokens \ {cookie}
  /\ tab' = [tab EXCEPT ![t].refresh = "leaving"]
  /\ UNCHANGED <<parents, expired, cookie, sending>>

LogoutAnswered(t) ==
  /\ tab[t].refresh = "leaving"
  /\ cookie' = 0
  /\ tab' = [tab EXCEPT ![t] = [page |-> "login", access |-> 0, refresh |-> "none", token |-> 0]]
  /\ UNCHANGED <<tokens, parents, expired, sending, slips>>

\* Best effort: the tab forgets its token although the server was not reached.
LogoutFails(t) ==
  /\ Leaves(t)
  /\ tab' = [tab EXCEPT ![t] = [page |-> "login", access |-> 0, refresh |-> "none", token |-> 0]]
  /\ UNCHANGED <<tokens, parents, expired, cookie, sending>>

SessionNext ==
  \/ \E r \in Requests : Answer401(r) \/ AskRefresh(r)
  \/ \E r \in Requests, t \in Tabs : SendRequest(r, t)
  \/ \E t \in Tabs :
       \/ ExpireAccess(t) \/ Consume(t) \/ Issue(t) \/ Refreshed(t)
       \/ AnswerLost(t) \/ Refused(t)
       \/ Login(t) \/ LogoutOnServer(t) \/ LogoutAnswered(t) \/ LogoutFails(t)

SessionSpec == SessionInit /\ [][SessionNext]_sessionVars

---------------------------------------------------------------------------
(* Properties *)

SessionTypeOK ==
  /\ tokens \subseteq Token
  /\ DOMAIN parents = 1 .. Issued
  /\ cookie \in Token \union {0}
  /\ tab \in [Tabs -> TabState]
  /\ \A r \in Requests : sending[r] # NotSent => sending[r].tab \in Tabs

\* A refresh token buys one session, although two tabs may present it together
\* (consume_refresh_token).
TokensAreUsedOnce ==
  \A m, n \in DOMAIN parents : parents[m] = parents[n] /\ parents[m] # 0 => m = n

\* And a teacher with a single tab is never sent to /login because access tokens
\* expire, however many requests are refused at a time and however late the
\* answers come: unless a refresh fails or the teacher logs out (silentRefresh,
\* apiFetch).
OneTabStaysLoggedIn ==
  slips.faults = SessionFaults /\ Cardinality(OpenOnes) = 1
    => \A t \in Tabs : tab[t].page # "login" /\ tab[t].refresh # "refused"

\* A refresh gives no token away twice and costs nobody the session: the two
\* properties above.
RefreshIsSafe == TokensAreUsedOnce /\ OneTabStaysLoggedIn
=============================================================================
