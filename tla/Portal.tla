------------------------------- MODULE Portal -------------------------------
(***************************************************************************)
(* The session of the portal in the browser. Tabs share the tokens in      *)
(* local storage; each renews the access token on its own, once for all    *)
(* of its calls that were denied together. The network may lose what is    *)
(* under way.                                                              *)
(***************************************************************************)
EXTENDS Integers, FiniteSets

CONSTANTS Tabs, Calls, MaxIssued

(***************************************************************************)
(* Tokens are numbered in the order of their issue, an access token and a  *)
(* refresh token under one number, and 0 is none. server.latest is the     *)
(* refresh token whose hash the server has, the access tokens up to        *)
(* expired are no longer good, and active says whether the account is      *)
(* enabled. stored is local storage with its cookies. A call is a pair     *)
(* <<tab, slot>>; renewal[t] is the refreshPromise of a tab and what the   *)
(* server makes of it. disturbed: see SessionSurvives.                     *)
(***************************************************************************)
VARIABLES server, stored, page, call, renewal, disturbed

vars == <<server, stored, page, call, renewal, disturbed>>

Token == 0..MaxIssued
Call == [pc : {"idle", "sent", "wait", "retry"}, token : Token, kind : {"query", "logout"}]
NoCall == [pc |-> "idle", token |-> 0, kind |-> "query"]
Renewal == [pc : {"none", "sent", "found", "renewed", "refused"}, token : Token]
NoRenewal == [pc |-> "none", token |-> 0]

Init ==
  /\ server = [latest |-> 0, issued |-> 0, expired |-> 0, active |-> TRUE]
  /\ stored = 0
  /\ page = [t \in Tabs |-> "login"]
  /\ call = [c \in Calls |-> NoCall]
  /\ renewal = [t \in Tabs |-> NoRenewal]
  /\ disturbed = FALSE

CallsOf(t) == {c \in Calls : c[1] = t}
Tab(c) == c[1]
Good(token) == server.active /\ token > server.expired

\* The calls of cs take the value r.
Become(cs, r) == call' = [c \in Calls |-> IF c \in cs THEN r[c] ELSE call[c]]
Ended(cs) == [c \in cs |-> NoCall]

\* The session ends. A page of the portal is left, and with it go its calls and its
\* renewal; on the login page only the calls cs end, and r is left of the renewal.
RedirectToLogin(t, cs, r) ==
  LET leaves == page[t] = "portal"
      ends == IF leaves THEN CallsOf(t) ELSE cs
  IN
  /\ stored' = 0
  /\ page' = [page EXCEPT ![t] = "login"]
  /\ Become(ends, Ended(ends))
  /\ renewal' = [renewal EXCEPT ![t] = IF leaves THEN NoRenewal ELSE r]

\* A call ends, with an answer or by throwing; after logout, which ignores both,
\* the session is cleared and the page changes without being left.
Finish(c) ==
  /\ Become({c}, Ended({c}))
  /\ UNCHANGED renewal
  /\ IF call[c].kind = "logout"
     THEN stored' = 0 /\ page' = [page EXCEPT ![Tab(c)] = "login"]
     ELSE UNCHANGED <<stored, page>>

-----------------------------------------------------------------------------
\* An access token expires, though not before it has been used for the call it was
\* issued for.
Room == server.issued < MaxIssued
Expire ==
  /\ \A c \in Calls : call[c].pc # "retry"
  /\ \A t \in Tabs : renewal[t].pc # "renewed"
  /\ server' = [server EXCEPT !.expired = server.issued]
  /\ UNCHANGED <<stored, page, call, renewal, disturbed>>

\* An administrator disables the account, which ends no session by itself, or
\* enables it again.
UpdateStatus ==
  /\ server' = [server EXCEPT !.active = ~@]
  /\ disturbed' = (disturbed \/ server.active)
  /\ UNCHANGED <<stored, page, call, renewal>>

Login(t) ==
  /\ page[t] = "login" /\ server.active /\ Room
  /\ LET g == server.issued + 1 IN
       /\ server' = [server EXCEPT !.issued = g, !.latest = g]
       /\ stored' = g
  /\ page' = [page EXCEPT ![t] = "portal"]
  /\ disturbed' = \/ \E u \in Tabs : renewal[u].pc # "none"
                  \/ \E c \in Calls : call[c].pc # "idle" /\ call[c].kind = "logout"
  /\ UNCHANGED <<call, renewal>>

\* proxy and layout let a page of the portal be seen with a token only, and take a
\* tab with a token from the login page to the portal.
Visit(t) ==
  /\ page' = [page EXCEPT ![t] = IF stored = 0 THEN "login" ELSE "portal"]
  /\ page' # page
  /\ UNCHANGED <<server, stored, call, renewal, disturbed>>

AuthedFetch(c, kind) ==
  /\ call[c].pc = "idle" /\ page[Tab(c)] = "portal"
  /\ IF stored = 0 THEN RedirectToLogin(Tab(c), {c}, renewal[Tab(c)])
     ELSE /\ Become({c}, [d \in {c} |-> [pc |-> "sent", token |-> stored, kind |-> kind]])
          /\ UNCHANGED <<stored, page, renewal>>
  /\ UNCHANGED <<server, disturbed>>

\* The server answers, for a logout after it has forgotten the refresh token.
Answered(c) ==
  /\ call[c].pc \in {"sent", "retry"} /\ Good(call[c].token)
  /\ Finish(c)
  /\ IF call[c].kind = "logout"
     THEN server' = [server EXCEPT !.latest = 0]
     ELSE UNCHANGED server
  /\ UNCHANGED disturbed

\* The network fails; the request may have been served all the same.
Failed(c) ==
  /\ call[c].pc \in {"sent", "retry"}
  /\ Finish(c)
  /\ \/ UNCHANGED server
     \/ /\ call[c].kind = "logout" /\ Good(call[c].token)
        /\ server' = [server EXCEPT !.latest = 0]
  /\ disturbed' = (disturbed \/ call[c].kind = "logout")

-----------------------------------------------------------------------------
Wait(c) == Become({c}, [d \in {c} |-> [call[c] EXCEPT !.pc = "wait", !.token = 0]])
Renew(t) == renewal' = [renewal EXCEPT ![t] = [pc |-> "sent", token |-> stored]]

\* 401: the call waits for the renewal of its tab, or begins one; without a refresh
\* token there is none.
Denied(c) ==
  LET t == Tab(c) IN
  /\ call[c].pc = "sent" /\ ~Good(call[c].token)
  /\ IF renewal[t].pc = "none" /\ stored = 0
     THEN RedirectToLogin(t, {c}, renewal[t])
     ELSE /\ Wait(c)
          /\ IF renewal[t].pc = "none" THEN Renew(t) ELSE UNCHANGED renewal
          /\ UNCHANGED <<stored, page>>
  /\ UNCHANGED <<server, disturbed>>

\* 401 again: the session ends.
DeniedAgain(c) ==
  /\ call[c].pc = "retry" /\ ~Good(call[c].token)
  /\ RedirectToLogin(Tab(c), {c}, renewal[Tab(c)])
  /\ UNCHANGED <<server, disturbed>>

Found(t, accepts) ==
  /\ renewal[t].pc = "sent"
  /\ renewal' = [renewal EXCEPT ![t] =
       [pc |-> IF accepts THEN "found" ELSE "refused", token |-> 0]]
  /\ UNCHANGED <<server, stored, page, call, disturbed>>

RefreshLatest(t) ==  \* Fault: what another tab has renewed is refused
  Found(t, renewal[t].token = server.latest /\ server.active)

\* The server refuses a renewal when it has no hash or the account is disabled. The
\* hash it compares does not tell the tokens of one account apart (see Accounts), so
\* one that another tab has renewed meanwhile, or whose answer was lost, is as good as
\* the latest.
Refresh(t) == Found(t, server.latest # 0 /\ server.active)

Save == Room /\ server' = [server EXCEPT !.issued = @ + 1, !.latest = server.issued + 1]

\* The row gets a new hash, whatever has become of the session since.
SaveRefreshTokenHash(t) ==
  /\ renewal[t].pc = "found" /\ Save
  /\ renewal' = [renewal EXCEPT ![t] = [pc |-> "renewed", token |-> server.issued + 1]]
  /\ disturbed' = (disturbed \/ server.latest = 0)
  /\ UNCHANGED <<stored, page, call>>

Waiting(t) == {c \in CallsOf(t) : call[c].pc = "wait"}

\* The new pair is stored, whatever has become of the session meanwhile, and the
\* calls that waited are sent again, once.
Renewed(t) ==
  LET g == renewal[t].token IN
  /\ renewal[t].pc = "renewed"
  /\ stored' = g
  /\ Become(Waiting(t), [c \in Waiting(t) |-> [call[c] EXCEPT !.pc = "retry", !.token = g]])
  /\ renewal' = [renewal EXCEPT ![t] = NoRenewal]
  /\ UNCHANGED <<server, page, disturbed>>

Refused(t) ==
  /\ renewal[t].pc = "refused"
  /\ RedirectToLogin(t, Waiting(t), NoRenewal)
  /\ UNCHANGED <<server, disturbed>>

RenewalStuck(t) ==  \* Fault: the calls are not told that the renewal has failed
  /\ renewal[t].pc # "none"
  /\ renewal' = [renewal EXCEPT ![t] = NoRenewal]
  /\ UNCHANGED <<server, stored, page, call, disturbed>>

\* The network loses the request or the answer: the waiting calls throw, a logout
\* ends the session on its own, and the others leave it as it is.
RenewalFailed(t) ==
  LET leaves == \E c \in Waiting(t) : call[c].kind = "logout" IN
  /\ renewal[t].pc # "none"
  /\ renewal' = [renewal EXCEPT ![t] = NoRenewal]
  /\ Become(Waiting(t), Ended(Waiting(t)))
  /\ stored' = IF leaves THEN 0 ELSE stored
  /\ page' = [page EXCEPT ![t] = IF leaves THEN "login" ELSE @]
  /\ \/ UNCHANGED server /\ disturbed' = (disturbed \/ leaves)
     \/ /\ renewal[t].pc = "found" /\ Save
        /\ disturbed' = (disturbed \/ leaves \/ server.latest = 0)

Next ==
  \/ Expire \/ UpdateStatus
  \/ \E t \in Tabs : Login(t) \/ Visit(t) \/ Refresh(t) \/ SaveRefreshTokenHash(t)
                     \/ Renewed(t) \/ Refused(t) \/ RenewalFailed(t)
  \/ \E c \in Calls, kind \in {"query", "logout"} : AuthedFetch(c, kind)
  \/ \E c \in Calls : Answered(c) \/ Failed(c) \/ Denied(c) \/ DeniedAgain(c)

\* What is under way ends: the server answers or the network gives up.
CallStep(c) == Answered(c) \/ Failed(c) \/ Denied(c) \/ DeniedAgain(c)
RenewalStep(t) ==
  Refresh(t) \/ SaveRefreshTokenHash(t) \/ Renewed(t) \/ Refused(t) \/ RenewalFailed(t)
Fairness ==
  /\ \A c \in Calls : WF_vars(CallStep(c))
  /\ \A t \in Tabs : WF_vars(RenewalStep(t))

Spec == Init /\ [][Next]_vars
FairSpec == Spec /\ Fairness

-----------------------------------------------------------------------------
\* The server, the storage and what is under way keep to their types.
TypeOK ==
  /\ server \in [latest : Token, issued : Token, expired : Token, active : BOOLEAN]
  /\ stored \in Token
  /\ page \in [Tabs -> {"login", "portal"}]
  /\ call \in [Calls -> Call] /\ renewal \in [Tabs -> Renewal]
  /\ disturbed \in BOOLEAN

\* While the server has a session for the user, the browser has it too: neither calls
\* that are denied together, nor two tabs that renew at one time with one token, nor
\* an answer that is lost cost the user the session. What may is an account that is
\* disabled for a while, a logout that the network loses or that overtakes a renewal
\* on the server, and the calls left of an earlier session. (refreshPromise,
\* authedFetch and the server's refresh.)
SessionSurvives == server.latest # 0 /\ ~disturbed => stored # 0

\* Every call ends, also when the renewal it waits for is lost.
CallsEnd == \A c \in Calls : (call[c].pc # "idle") ~> (call[c].pc = "idle")

\* README.md: a renewal that fails clears the session and leads to the login page.
FailedRenewalEndsSession ==
  [][\A t \in Tabs : renewal[t].pc # "none" /\ renewal'[t].pc = "none" =>
       Renewed(t) \/ (stored' = 0 /\ page'[t] = "login")]_vars
=============================================================================
