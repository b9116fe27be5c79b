---------------------------- MODULE PortalProofs ----------------------------
(***************************************************************************)
(* Proofs about Portal: however many tabs and calls share the tokens, the  *)
(* browser does not lose a session that the server keeps.                  *)
(***************************************************************************)
EXTENDS Portal, TLAPS

\* What the proof needs to know of the types.
Types ==
  /\ server \in [latest : Nat, issued : Nat, expired : Nat, active : BOOLEAN]
  /\ stored \in Nat
  /\ call \in [Calls -> [pc : {"idle", "sent", "wait", "retry"}, token : Nat,
                         kind : {"query", "logout"}]]
  /\ renewal \in [Tabs -> [pc : {"none", "sent", "found", "renewed", "refused"},
                           token : Nat]]
  /\ disturbed \in BOOLEAN

\* A token that has just been issued is still good when it is used.
Fresh ==
  /\ server.expired =< server.issued
  /\ \A t \in Tabs : renewal[t].pc = "renewed" => renewal[t].token > server.expired
  /\ \A c \in Calls : call[c].pc = "retry" => call[c].token > server.expired

\* In a session that nothing has disturbed the account is enabled, and a renewal is
\* refused only when the server has no session.
Quiet ==
  ~disturbed =>
    /\ server.active
    /\ \A t \in Tabs : renewal[t].pc = "refused" => server.latest = 0
    /\ server.latest # 0 => stored # 0

Inv == Types /\ Fresh /\ Quiet

TabsAreKnown == \A c \in Calls : Tab(c) \in Tabs

-----------------------------------------------------------------------------
LEMMA Initially == Init => Inv
<1> SUFFICES ASSUME Init PROVE Inv
  OBVIOUS
<1>1. Types
  BY DEF Init, Types, NoCall, NoRenewal
<1>2. Fresh /\ Quiet
  BY DEF Init, Fresh, Quiet, NoCall, NoRenewal
<1> QED
  BY <1>1, <1>2 DEF Inv

\* A pair of tokens is issued under the next number.
LEMMA Issued ==
  ASSUME Inv,
         server' = [server EXCEPT !.issued = server.issued + 1, !.latest = server.issued + 1]
  PROVE  /\ server' \in [latest : Nat, issued : Nat, expired : Nat, active : BOOLEAN]
         /\ server'.expired = server.expired /\ server'.active = server.active
         /\ server'.issued = server.issued + 1 /\ server'.latest = server.issued + 1
         /\ server.issued + 1 \in Nat /\ server.issued + 1 > server.expired
         /\ server.issued + 1 # 0
<1> DEFINE g == server.issued + 1
<1>1. server.issued \in Nat /\ server.expired \in Nat /\ server.expired =< server.issued
  BY DEF Inv, Types, Fresh
<1>2. g \in Nat /\ g > server.expired /\ g # 0
  BY <1>1
<1>3. server' = [server EXCEPT !.issued = g, !.latest = g]
  OBVIOUS
<1> HIDE DEF g
<1>4. /\ server' \in [latest : Nat, issued : Nat, expired : Nat, active : BOOLEAN]
      /\ server'.expired = server.expired /\ server'.active = server.active
      /\ server'.issued = g /\ server'.latest = g
  BY <1>2, <1>3 DEF Inv, Types
<1> QED
  BY <1>2, <1>4 DEF g

\* Calls that end or go on with a token that is not to be retried.
Settled(cs, r) ==
  \A c \in cs : /\ r[c] \in [pc : {"idle", "sent", "wait", "retry"}, token : Nat,
                             kind : {"query", "logout"}]
                /\ r[c].pc = "retry" => r[c].token > server.expired

LEMMA CallsKept ==
  ASSUME Inv, NEW cs, NEW r, Become(cs, r), Settled(cs, r), server'.expired = server.expired
  PROVE  /\ call' \in [Calls -> [pc : {"idle", "sent", "wait", "retry"}, token : Nat,
                                 kind : {"query", "logout"}]]
         /\ \A c \in Calls : call'[c].pc = "retry" => call'[c].token > server'.expired
BY DEF Inv, Types, Fresh, Become, Settled

LEMMA EndedIsSettled == ASSUME Inv, NEW cs PROVE Settled(cs, Ended(cs))
BY DEF Settled, Ended, NoCall

\* A renewal that ends refuses and sends nothing.
LEMMA RenewalEnds ==
  ASSUME Inv, NEW t \in Tabs, renewal' \in {renewal, [renewal EXCEPT ![t] = NoRenewal]}
  PROVE  /\ renewal' \in [Tabs -> [pc : {"none", "sent", "found", "renewed", "refused"},
                                   token : Nat]]
         /\ \A u \in Tabs : renewal'[u] = renewal[u] \/ renewal'[u].pc = "none"
BY DEF Inv, Types, NoRenewal

\* The session may end where it was no more, or where it is disturbed.
LEMMA RedirectKeeps ==
  ASSUME Inv, NEW t \in Tabs, NEW cs, NEW r \in {renewal[t], NoRenewal},
         RedirectToLogin(t, cs, r),
         UNCHANGED <<server, disturbed>>,
         ~disturbed => stored = 0 \/ server.latest = 0
  PROVE  Inv'
<1> DEFINE ends == IF page[t] = "portal" THEN CallsOf(t) ELSE cs
<1>1. /\ stored' = 0 /\ Become(ends, Ended(ends))
      /\ renewal' \in {renewal, [renewal EXCEPT ![t] = NoRenewal]}
  BY DEF RedirectToLogin, Inv, Types
<1>2. Types' /\ Fresh'
  BY <1>1, CallsKept, EndedIsSettled, RenewalEnds DEF Inv, Types, Fresh
<1>3. Quiet'
  BY <1>1, RenewalEnds DEF Inv, Types, Quiet
<1> QED
  BY <1>2, <1>3 DEF Inv

LEMMA ExpireKeeps == ASSUME Inv, Expire PROVE Inv'
BY DEF Inv, Types, Fresh, Quiet, Expire

LEMMA UpdateStatusKeeps == ASSUME Inv, UpdateStatus PROVE Inv'
BY DEF Inv, Types, Fresh, Quiet, UpdateStatus

LEMMA LoginKeeps == ASSUME Inv, NEW t \in Tabs, Login(t) PROVE Inv'
<1> DEFINE g == server.issued + 1
<1>1. /\ server' = [server EXCEPT !.issued = g, !.latest = g] /\ stored' = g
      /\ UNCHANGED <<call, renewal>> /\ server.active
      /\ ~disturbed' => \A u \in Tabs : renewal[u].pc = "none"
      /\ disturbed' \in BOOLEAN
  BY DEF Login
<1>2. /\ server' \in [latest : Nat, issued : Nat, expired : Nat, active : BOOLEAN]
      /\ server'.expired = server.expired /\ server'.active = server.active
      /\ server'.issued = g /\ g \in Nat /\ g > server.expired /\ g # 0
  BY <1>1, Issued
<1> HIDE DEF g
<1>3. Types'
  BY <1>1, <1>2 DEF Inv, Types
<1>4. Fresh'
  BY <1>1, <1>2 DEF Inv, Types, Fresh
<1>5. Quiet'
  BY <1>1, <1>2 DEF Inv, Quiet
<1> QED
  BY <1>3, <1>4, <1>5 DEF Inv

LEMMA VisitKeeps == ASSUME Inv, NEW t \in Tabs, Visit(t) PROVE Inv'
BY DEF Inv, Types, Fresh, Quiet, Visit

LEMMA AuthedFetchKeeps ==
  ASSUME TabsAreKnown, Inv, NEW c \in Calls, NEW kind \in {"query", "logout"},
         AuthedFetch(c, kind)
  PROVE  Inv'
<1>1. CASE stored = 0
  BY <1>1, RedirectKeeps DEF AuthedFetch, TabsAreKnown
<1>2. CASE stored # 0
  <2> DEFINE r == [d \in {c} |-> [pc |-> "sent", token |-> stored, kind |-> kind]]
  <2>1. Become({c}, r) /\ UNCHANGED <<stored, page, renewal, server, disturbed>>
    BY <1>2 DEF AuthedFetch
  <2>2. Settled({c}, r)
    BY DEF Inv, Types, Settled
  <2> HIDE DEF r
  <2> QED
    BY <2>1, <2>2, CallsKept DEF Inv, Types, Fresh, Quiet
<1> QED
  BY <1>1, <1>2

\* A call ends: the session stays unless the call was a logout.
LEMMA FinishKeeps ==
  ASSUME Inv, NEW c \in Calls, Finish(c), server' \in {server, [server EXCEPT !.latest = 0]},
         disturbed' \in BOOLEAN, disturbed => disturbed',
         ~disturbed' => call[c].kind # "logout" \/ server'.latest = 0
  PROVE  Inv'
<1>1. Become({c}, Ended({c})) /\ renewal' = renewal
      /\ stored' \in {stored, 0} /\ (call[c].kind # "logout" => stored' = stored)
  BY DEF Finish
<1>2. server'.expired = server.expired /\ server'.issued = server.issued
      /\ server'.active = server.active /\ server'.latest \in {server.latest, 0}
      /\ server' \in [latest : Nat, issued : Nat, expired : Nat, active : BOOLEAN]
  BY DEF Inv, Types
<1>3. Types' /\ Fresh'
  BY <1>1, <1>2, CallsKept, EndedIsSettled DEF Inv, Types, Fresh
<1>4. Quiet'
  BY <1>1, <1>2 DEF Inv, Types, Quiet
<1> QED
  BY <1>3, <1>4 DEF Inv

LEMMA AnsweredKeeps == ASSUME Inv, NEW c \in Calls, Answered(c) PROVE Inv'
<1>1. CASE call[c].kind = "logout"
  <2>1. server' = [server EXCEPT !.latest = 0] /\ server'.latest = 0
    BY <1>1 DEF Inv, Types, Answered
  <2> QED
    BY <1>1, <2>1, FinishKeeps DEF Inv, Types, Answered
<1>2. CASE call[c].kind # "logout"
  BY <1>2, FinishKeeps DEF Inv, Types, Answered
<1> QED
  BY <1>1, <1>2

LEMMA FailedKeeps == ASSUME Inv, NEW c \in Calls, Failed(c) PROVE Inv'
BY FinishKeeps DEF Inv, Types, Failed

LEMMA DeniedKeeps == ASSUME TabsAreKnown, Inv, NEW c \in Calls, Denied(c) PROVE Inv'
<1> DEFINE t == Tab(c)
<1>0. t \in Tabs /\ UNCHANGED <<server, disturbed>>
  BY DEF TabsAreKnown, Denied
<1>1. CASE renewal[t].pc = "none" /\ stored = 0
  BY <1>0, <1>1, RedirectKeeps DEF Denied
<1>2. CASE ~(renewal[t].pc = "none" /\ stored = 0)
  <2> DEFINE r == [d \in {c} |-> [call[c] EXCEPT !.pc = "wait", !.token = 0]]
  <2>1. Become({c}, r) /\ UNCHANGED <<stored, page>>
        /\ renewal' \in {renewal, [renewal EXCEPT ![t] = [pc |-> "sent", token |-> stored]]}
    BY <1>2 DEF Denied, Wait, Renew
  <2>2. Settled({c}, r)
    BY ZenonT(60), SMTT(30) DEF Inv, Types, Settled
  <2> HIDE DEF r, t
  <2>3. /\ call' \in [Calls -> [pc : {"idle", "sent", "wait", "retry"}, token : Nat,
                                kind : {"query", "logout"}]]
        /\ \A d \in Calls : call'[d].pc = "retry" => call'[d].token > server'.expired
    BY <1>0, <2>1, <2>2, CallsKept
  <2>4. /\ renewal' \in [Tabs -> [pc : {"none", "sent", "found", "renewed", "refused"},
                                  token : Nat]]
        /\ \A u \in Tabs : renewal'[u] = renewal[u] \/ renewal'[u].pc = "sent"
    BY <1>0, <2>1 DEF Inv, Types
  <2> QED
    BY <1>0, <2>1, <2>3, <2>4 DEF Inv, Types, Fresh, Quiet
<1> QED
  BY <1>1, <1>2

\* A call is denied again only when the account has been disabled meanwhile.
LEMMA DeniedAgainKeeps ==
  ASSUME TabsAreKnown, Inv, NEW c \in Calls, DeniedAgain(c)
  PROVE  Inv'
<1>1. disturbed
  BY DEF Inv, Types, Fresh, Quiet, DeniedAgain, Good
<1> QED
  BY <1>1, RedirectKeeps DEF DeniedAgain, TabsAreKnown

LEMMA RefreshKeeps == ASSUME Inv, NEW t \in Tabs, Refresh(t) PROVE Inv'
<1> DEFINE accepts == server.latest # 0 /\ server.active
           r == [pc |-> IF accepts THEN "found" ELSE "refused", token |-> 0]
<1>1. renewal' = [renewal EXCEPT ![t] = r]
      /\ UNCHANGED <<server, stored, page, call, disturbed>>
  BY DEF Refresh, Found
<1>2. r \in [pc : {"none", "sent", "found", "renewed", "refused"}, token : Nat]
      /\ r.pc # "renewed" /\ (r.pc = "refused" => ~accepts)
  OBVIOUS
<1>3. ~disturbed /\ ~accepts => server.latest = 0
  BY DEF Inv, Quiet
<1> HIDE DEF r, accepts
<1> QED
  BY <1>1, <1>2, <1>3 DEF Inv, Types, Fresh, Quiet

\* The new hash replaces the one there was, or disturbs.
LEMMA SaveRefreshTokenHashKeeps ==
  ASSUME Inv, NEW t \in Tabs, SaveRefreshTokenHash(t)
  PROVE  Inv'
<1> DEFINE g == server.issued + 1
           r == [pc |-> "renewed", token |-> g]
<1>1. /\ server' = [server EXCEPT !.issued = g, !.latest = g]
      /\ renewal' = [renewal EXCEPT ![t] = r]
      /\ disturbed' = (disturbed \/ server.latest = 0) /\ UNCHANGED <<stored, page, call>>
  BY DEF SaveRefreshTokenHash, Save, Inv, Types
<1>2. /\ server'.expired = server.expired /\ server'.issued = g /\ server'.latest = g
      /\ server'.active = server.active /\ g \in Nat /\ g > server.expired
      /\ server' \in [latest : Nat, issued : Nat, expired : Nat, active : BOOLEAN]
  BY <1>1, Issued
<1>3. \A u \in Tabs : renewal'[u] = IF u = t THEN r ELSE renewal[u]
  BY <1>1 DEF Inv, Types
<1>4. Types'
  BY <1>1, <1>2 DEF Inv, Types
<1>5. Fresh'
  BY <1>1, <1>2, <1>3 DEF Inv, Types, Fresh
<1>6. Quiet'
  BY <1>1, <1>2, <1>3 DEF Inv, Types, Quiet
<1> QED
  BY <1>4, <1>5, <1>6 DEF Inv

LEMMA RenewedKeeps == ASSUME Inv, NEW t \in Tabs, Renewed(t) PROVE Inv'
<1> DEFINE g == renewal[t].token
           r == [c \in Waiting(t) |-> [call[c] EXCEPT !.pc = "retry", !.token = g]]
<1>1. g \in Nat /\ g > server.expired /\ g # 0
  <2>1. g \in Nat /\ server.expired \in Nat
    BY DEF Inv, Types
  <2>2. g > server.expired
    BY DEF Inv, Fresh, Renewed
  <2> QED
    BY <2>1, <2>2
<1>2. /\ stored' = g /\ Become(Waiting(t), r) /\ renewal' = [renewal EXCEPT ![t] = NoRenewal]
      /\ UNCHANGED <<server, page, disturbed>>
  BY DEF Renewed
<1>3. Settled(Waiting(t), r)
  BY ZenonT(60), <1>1 DEF Inv, Types, Settled, Waiting, CallsOf
<1> HIDE DEF g, r
<1>4. Types' /\ Fresh'
  BY <1>1, <1>2, <1>3, CallsKept, RenewalEnds DEF Inv, Types, Fresh
<1>5. Quiet'
  BY <1>1, <1>2, RenewalEnds DEF Inv, Types, Quiet
<1> QED
  BY <1>4, <1>5 DEF Inv

LEMMA RefusedKeeps == ASSUME Inv, NEW t \in Tabs, Refused(t) PROVE Inv'
BY RedirectKeeps DEF Inv, Quiet, Refused

LEMMA RenewalFailedKeeps == ASSUME Inv, NEW t \in Tabs, RenewalFailed(t) PROVE Inv'
<1> DEFINE leaves == \E c \in Waiting(t) : call[c].kind = "logout"
<1>1. /\ renewal' = [renewal EXCEPT ![t] = NoRenewal]
      /\ Become(Waiting(t), Ended(Waiting(t)))
      /\ stored' = IF leaves THEN 0 ELSE stored
  BY DEF RenewalFailed
<1>2. \/ server' = server /\ disturbed' = (disturbed \/ leaves)
      \/ Save /\ disturbed' = (disturbed \/ leaves \/ server.latest = 0)
  BY DEF RenewalFailed
<1> HIDE DEF leaves
<1>3. /\ server'.expired = server.expired /\ server'.expired =< server'.issued
      /\ server'.active = server.active
      /\ server' \in [latest : Nat, issued : Nat, expired : Nat, active : BOOLEAN]
      /\ ~disturbed' => ~disturbed /\ ~leaves
                        /\ (server'.latest # 0 => server.latest # 0)
      /\ ~disturbed' /\ server'.latest # server.latest => server.latest # 0
  <2>1. CASE server' = server /\ disturbed' = (disturbed \/ leaves)
    BY <2>1 DEF Inv, Types, Fresh
  <2>2. CASE Save /\ disturbed' = (disturbed \/ leaves \/ server.latest = 0)
    <3>1. server' = [server EXCEPT !.issued = server.issued + 1,
                                   !.latest = server.issued + 1]
      BY <2>2 DEF Save, Inv, Types
    <3>2. server.issued \in Nat /\ server.expired \in Nat
      BY DEF Inv, Types
    <3>3. /\ server'.expired = server.expired /\ server'.active = server.active
          /\ server' \in [latest : Nat, issued : Nat, expired : Nat, active : BOOLEAN]
      BY <3>1, Issued
    <3>4. server'.expired =< server'.issued
      BY <3>1, <3>2, Issued
    <3>5. ~disturbed' => ~disturbed /\ ~leaves /\ server.latest # 0
      BY <2>2
    <3> QED
      BY <3>3, <3>4, <3>5
  <2> QED
    BY <1>2, <2>1, <2>2
<1>4. Types' /\ Fresh'
  BY <1>1, <1>2, <1>3, CallsKept, EndedIsSettled, RenewalEnds DEF Inv, Types, Fresh
<1>5. Quiet'
  BY <1>1, <1>3, RenewalEnds DEF Inv, Types, Quiet
<1> QED
  BY <1>4, <1>5 DEF Inv

LEMMA Keeps == ASSUME TabsAreKnown PROVE Inv /\ [Next]_vars => Inv'
<1> SUFFICES ASSUME Inv, [Next]_vars PROVE Inv'
  OBVIOUS
<1>1. CASE UNCHANGED vars
  BY <1>1 DEF vars, Inv, Types, Fresh, Quiet
<1>2. CASE Expire \/ UpdateStatus
  BY <1>2, ExpireKeeps, UpdateStatusKeeps
<1>3. ASSUME NEW t \in Tabs,
             \/ Login(t) \/ Visit(t) \/ Refresh(t) \/ SaveRefreshTokenHash(t)
             \/ Renewed(t) \/ Refused(t) \/ RenewalFailed(t)
      PROVE  Inv'
  BY <1>3, LoginKeeps, VisitKeeps, RefreshKeeps, SaveRefreshTokenHashKeeps, RenewedKeeps,
     RefusedKeeps, RenewalFailedKeeps
<1>4. ASSUME NEW c \in Calls, NEW kind \in {"query", "logout"}, AuthedFetch(c, kind)
      PROVE  Inv'
  BY <1>4, AuthedFetchKeeps
<1>5. ASSUME NEW c \in Calls, Answered(c) \/ Failed(c) \/ Denied(c) \/ DeniedAgain(c)
      PROVE  Inv'
  BY <1>5, AnsweredKeeps, FailedKeeps, DeniedKeeps, DeniedAgainKeeps
<1> QED
  BY <1>1, <1>2, <1>3, <1>4, <1>5 DEF Next

-----------------------------------------------------------------------------
\* The inductive invariant: fresh tokens are good, and refusals have their reason.
THEOREM Invariant == ASSUME TabsAreKnown PROVE Spec => []Inv
BY Initially, Keeps, PTL DEF Spec

\* The browser does not lose an undisturbed session, for any number of tabs, calls and
\* tokens.
THEOREM SessionIsKept == ASSUME TabsAreKnown PROVE Spec => []SessionSurvives
<1>1. Inv => SessionSurvives
  BY DEF Inv, Quiet, SessionSurvives
<1> QED
  BY <1>1, Invariant, PTL

-----------------------------------------------------------------------------
\* What becomes of the calls stays within their type.
LEMMA CallsStayTyped ==
  ASSUME call \in [Calls -> Call], NEW cs \in SUBSET Calls, NEW r,
         \A c \in cs : r[c] \in Call, Become(cs, r)
  PROVE  call' \in [Calls -> Call]
BY DEF Become

LEMMA EndedStayTyped ==
  ASSUME MaxIssued \in Nat, NEW cs PROVE \A c \in cs : Ended(cs)[c] \in Call
BY DEF Ended, NoCall, Call, Token

\* A token that is issued is a token, as long as there is room.
LEMMA IssuedIsToken ==
  ASSUME TypeOK, Room, MaxIssued \in Nat
  PROVE  server.issued + 1 \in Token
<1>1. server.issued \in 0..MaxIssued /\ server.issued < MaxIssued
  BY DEF TypeOK, Room, Token
<1> QED
  BY <1>1 DEF Token

LEMMA RedirectStaysTyped ==
  ASSUME MaxIssued \in Nat, TypeOK, NEW t, NEW cs \in SUBSET Calls,
         NEW r \in Renewal, RedirectToLogin(t, cs, r), UNCHANGED <<server, disturbed>>
  PROVE  TypeOK'
<1> DEFINE ends == IF page[t] = "portal" THEN CallsOf(t) ELSE cs
<1>1. /\ stored' = 0 /\ page' = [page EXCEPT ![t] = "login"]
      /\ Become(ends, Ended(ends))
      /\ renewal' = [renewal EXCEPT ![t] = IF page[t] = "portal" THEN NoRenewal ELSE r]
  BY DEF RedirectToLogin
<1>2. ends \in SUBSET Calls
  BY DEF CallsOf
<1> HIDE DEF ends
<1>3. call' \in [Calls -> Call]
  BY <1>1, <1>2, CallsStayTyped, EndedStayTyped DEF TypeOK
<1>4. NoRenewal \in Renewal /\ 0 \in Token
  BY DEF NoRenewal, Renewal, Token
<1>5. renewal' \in [Tabs -> Renewal] /\ page' \in [Tabs -> {"login", "portal"}]
  BY <1>1, <1>4 DEF TypeOK
<1> QED
  BY <1>1, <1>3, <1>4, <1>5 DEF TypeOK

LEMMA ServerStaysTyped ==
  ASSUME MaxIssued \in Nat, TypeOK
  PROVE  /\ [server EXCEPT !.latest = 0] \in [latest : Token, issued : Token,
                                              expired : Token, active : BOOLEAN]
         /\ Save => server' \in [latest : Token, issued : Token,
                                 expired : Token, active : BOOLEAN]
<1>1. 0 \in Token
  BY DEF Token
<1>2. Save => server.issued + 1 \in Token
  BY IssuedIsToken DEF Save
<1> DEFINE g == server.issued + 1
<1>3. Save => server' = [server EXCEPT !.issued = g, !.latest = g]
  BY DEF Save
<1> HIDE DEF g
<1> QED
  BY <1>1, <1>2, <1>3 DEF TypeOK, g

LEMMA TabStepsStayTyped ==
  ASSUME MaxIssued \in Nat, TypeOK, NEW t \in Tabs,
         \/ Login(t) \/ Visit(t) \/ Refresh(t) \/ SaveRefreshTokenHash(t)
         \/ Renewed(t) \/ Refused(t) \/ RenewalFailed(t)
  PROVE  TypeOK'
<1>0. NoRenewal \in Renewal /\ 0 \in Token /\ Waiting(t) \in SUBSET Calls
  BY DEF NoRenewal, Renewal, Token, Waiting, CallsOf
<1>1. CASE Login(t)
  <2> DEFINE g == server.issued + 1
  <2>1. g \in Token
    BY <1>1, IssuedIsToken DEF Login
  <2>2. /\ server' = [server EXCEPT !.issued = g, !.latest = g] /\ stored' = g
        /\ page' = [page EXCEPT ![t] = "portal"] /\ disturbed' \in BOOLEAN
        /\ UNCHANGED <<call, renewal>>
    BY <1>1 DEF Login
  <2> HIDE DEF g
  <2> QED
    BY <2>1, <2>2 DEF TypeOK
<1>2. CASE Visit(t)
  BY <1>2 DEF Visit, TypeOK
<1>3. CASE Refresh(t)
  BY <1>0, <1>3 DEF Refresh, Found, TypeOK, Renewal
<1>4. CASE SaveRefreshTokenHash(t)
  <2> DEFINE g == server.issued + 1
  <2>1. g \in Token
    BY <1>4, IssuedIsToken DEF SaveRefreshTokenHash, Save
  <2>2. /\ renewal' = [renewal EXCEPT ![t] = [pc |-> "renewed", token |-> g]]
        /\ Save /\ disturbed' \in BOOLEAN /\ UNCHANGED <<stored, page, call>>
    BY <1>4 DEF SaveRefreshTokenHash, TypeOK
  <2> HIDE DEF g
  <2>3. [pc |-> "renewed", token |-> g] \in Renewal
    BY <2>1 DEF Renewal
  <2> QED
    BY <2>2, <2>3, ServerStaysTyped DEF TypeOK
<1>5. CASE Renewed(t)
  <2> DEFINE g == renewal[t].token
             r == [c \in Waiting(t) |-> [call[c] EXCEPT !.pc = "retry", !.token = g]]
  <2>1. g \in Token
    BY DEF TypeOK, Renewal
  <2>2. \A c \in Waiting(t) : r[c] \in Call
    BY <1>0, <2>1 DEF TypeOK, Call
  <2>3. /\ stored' = g /\ Become(Waiting(t), r) /\ UNCHANGED <<server, page, disturbed>>
        /\ renewal' = [renewal EXCEPT ![t] = NoRenewal]
    BY <1>5 DEF Renewed
  <2> HIDE DEF g, r
  <2>4. call' \in [Calls -> Call]
    BY <1>0, <2>2, <2>3, CallsStayTyped DEF TypeOK
  <2> QED
    BY <1>0, <2>1, <2>3, <2>4 DEF TypeOK
<1>6. CASE Refused(t)
  BY <1>0, <1>6, RedirectStaysTyped DEF Refused
<1>7. CASE RenewalFailed(t)
  <2>1. /\ renewal' = [renewal EXCEPT ![t] = NoRenewal]
        /\ Become(Waiting(t), Ended(Waiting(t)))
        /\ stored' \in Token /\ page' \in [Tabs -> {"login", "portal"}]
        /\ (UNCHANGED server \/ Save) /\ disturbed' \in BOOLEAN
    BY <1>0, <1>7 DEF RenewalFailed, TypeOK
  <2>2. call' \in [Calls -> Call]
    BY <1>0, <2>1, CallsStayTyped, EndedStayTyped DEF TypeOK
  <2> QED
    BY <1>0, <2>1, <2>2, ServerStaysTyped DEF TypeOK
<1> QED
  BY <1>1, <1>2, <1>3, <1>4, <1>5, <1>6, <1>7

LEMMA FinishStaysTyped ==
  ASSUME MaxIssued \in Nat, TypeOK, NEW c \in Calls, Finish(c)
  PROVE  /\ call' \in [Calls -> Call] /\ renewal' \in [Tabs -> Renewal]
         /\ stored' \in Token /\ page' \in [Tabs -> {"login", "portal"}]
<1>1. Become({c}, Ended({c})) /\ UNCHANGED renewal
  BY DEF Finish
<1>2. call' \in [Calls -> Call]
  BY <1>1, CallsStayTyped, EndedStayTyped DEF TypeOK
<1>3. stored' \in Token /\ page' \in [Tabs -> {"login", "portal"}]
  BY DEF Finish, TypeOK, Token
<1> QED
  BY <1>1, <1>2, <1>3 DEF TypeOK

LEMMA CallStepsStayTyped ==
  ASSUME MaxIssued \in Nat, TabsAreKnown, TypeOK, NEW c \in Calls,
         \/ \E kind \in {"query", "logout"} : AuthedFetch(c, kind)
         \/ Answered(c) \/ Failed(c) \/ Denied(c) \/ DeniedAgain(c)
  PROVE  TypeOK'
<1>0. Tab(c) \in Tabs /\ renewal[Tab(c)] \in Renewal /\ {c} \in SUBSET Calls
  BY DEF TabsAreKnown, TypeOK
<1>1. ASSUME NEW kind \in {"query", "logout"}, AuthedFetch(c, kind) PROVE TypeOK'
  <2>1. CASE stored = 0
    BY <1>0, <1>1, <2>1, RedirectStaysTyped DEF AuthedFetch
  <2>2. CASE stored # 0
    <3> DEFINE r == [d \in {c} |-> [pc |-> "sent", token |-> stored, kind |-> kind]]
    <3>1. Become({c}, r) /\ UNCHANGED <<server, stored, page, renewal, disturbed>>
      BY <1>1, <2>2 DEF AuthedFetch
    <3>2. \A d \in {c} : r[d] \in Call
      BY DEF TypeOK, Call
    <3> HIDE DEF r
    <3>3. call' \in [Calls -> Call]
      BY <1>0, <3>1, <3>2, CallsStayTyped DEF TypeOK
    <3> QED
      BY <3>1, <3>3 DEF TypeOK
  <2> QED
    BY <2>1, <2>2
<1>2. CASE Answered(c)
  <2>1. Finish(c) /\ disturbed' = disturbed
        /\ (server' = [server EXCEPT !.latest = 0] \/ server' = server)
    BY <1>2 DEF Answered
  <2> QED
    BY <2>1, FinishStaysTyped, ServerStaysTyped DEF TypeOK
<1>3. CASE Failed(c)
  <2>1. Finish(c) /\ disturbed' \in BOOLEAN
        /\ (server' = [server EXCEPT !.latest = 0] \/ server' = server)
    BY <1>3 DEF Failed, TypeOK
  <2> QED
    BY <2>1, FinishStaysTyped, ServerStaysTyped DEF TypeOK
<1>4. CASE Denied(c)
  <2> DEFINE t == Tab(c)
  <2>1. CASE renewal[t].pc = "none" /\ stored = 0
    BY <1>0, <1>4, <2>1, RedirectStaysTyped DEF Denied
  <2>2. CASE ~(renewal[t].pc = "none" /\ stored = 0)
    <3> DEFINE r == [d \in {c} |-> [call[c] EXCEPT !.pc = "wait", !.token = 0]]
    <3>1. /\ Become({c}, r) /\ UNCHANGED <<server, stored, page, disturbed>>
          /\ \/ renewal' = [renewal EXCEPT ![t] = [pc |-> "sent", token |-> stored]]
             \/ renewal' = renewal
      BY <1>4, <2>2 DEF Denied, Wait, Renew
    <3>2. \A d \in {c} : r[d] \in Call
      <4>1. call[c] \in Call /\ 0 \in Token
        BY DEF TypeOK, Token
      <4> QED
        BY <4>1 DEF Call
    <3> HIDE DEF r
    <3>3. call' \in [Calls -> Call]
      BY <1>0, <3>1, <3>2, CallsStayTyped DEF TypeOK
    <3>4. [pc |-> "sent", token |-> stored] \in Renewal
      BY DEF TypeOK, Renewal
    <3> QED
      BY <3>1, <3>3, <3>4 DEF TypeOK
  <2> QED
    BY <2>1, <2>2
<1>5. CASE DeniedAgain(c)
  BY <1>0, <1>5, RedirectStaysTyped DEF DeniedAgain
<1> QED
  BY <1>1, <1>2, <1>3, <1>4, <1>5

\* Tokens stay within those there are, for any number of tabs and calls.
THEOREM TypeCorrect ==
  ASSUME MaxIssued \in Nat, TabsAreKnown
  PROVE  Spec => []TypeOK
<1>1. Init => TypeOK
  <2>1. 0 \in Token
    BY DEF Token
  <2>2. NoCall \in Call /\ NoRenewal \in Renewal
    BY <2>1 DEF Call, NoCall, Renewal, NoRenewal
  <2>3. Init => server \in [latest : Token, issued : Token, expired : Token, active : BOOLEAN]
    BY <2>1 DEF Init
  <2>4. Init => /\ call \in [Calls -> Call] /\ renewal \in [Tabs -> Renewal]
                /\ page \in [Tabs -> {"login", "portal"}]
    BY <2>2 DEF Init
  <2>5. Init => stored \in Token /\ disturbed \in BOOLEAN
    BY <2>1 DEF Init
  <2> QED
    BY <2>3, <2>4, <2>5 DEF TypeOK
<1>2. TypeOK /\ [Next]_vars => TypeOK'
  <2> SUFFICES ASSUME TypeOK, [Next]_vars PROVE TypeOK'
    OBVIOUS
  <2>1. CASE UNCHANGED vars
    BY <2>1 DEF vars, TypeOK
  <2>2. CASE Expire \/ UpdateStatus
    BY <2>2 DEF Expire, UpdateStatus, TypeOK
  <2> QED
    BY <2>1, <2>2, TabStepsStayTyped, CallStepsStayTyped DEF Next
<1> QED
  BY <1>1, <1>2, PTL DEF Spec
=============================================================================
