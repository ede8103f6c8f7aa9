------------------------------ MODULE Session ------------------------------
(***************************************************************************)
(* The session of a browser: tabs, each with its AuthProvider and its      *)
(* authClient (web/src/features/auth, web/src/lib/authClient.ts), that     *)
(* share one refresh cookie, and the auth handlers that set and clear it   *)
(* (server/internal/adapter/http/auth_handlers.go).                        *)
(*                                                                         *)
(* The requests of a tab are on their way side by side: the calls of       *)
(* authFetch, the shared refresh, a login, a logout.  The browser attaches *)
(* the cookie when a request leaves and applies an answer's Set-Cookie when*)
(* it arrives.  The continuations of one answer run together.              *)
(*                                                                         *)
(* An access token is known by its user and may expire at any time: any    *)
(* call may be answered 401.  The token table is RefreshFamily's subject;  *)
(* here a lookup, its verdict and the revocation that follows are one step,*)
(* and no refresh token lives to its expiry.                               *)
(***************************************************************************)
EXTENDS Naturals, FiniteSets

CONSTANTS Tabs, Users, Nobody,
          FormTabs,                \* the tabs where users log in and out
          Sessions,                \* the cookies and tokens a run may start from
          MaxTokens, MaxFaults     \* bounds of the model

Families == 1..MaxTokens

(* A row of the token table. *)
Row == [user : Users, family : Families, state : {"live", "recent", "old"}]

ASSUME SessionAssumption ==
    /\ MaxTokens \in Nat \ {0} /\ MaxFaults \in Nat
    /\ Nobody \notin Users /\ FormTabs \subseteq Tabs /\ IsFiniteSet(Tabs)
    /\ \A s \in Sessions : \E n \in 0..MaxTokens :
          s.cookie \in 0..n /\ s.tokens \in [1..n -> Row]

VARIABLES
    cookie,     \* the refresh token in the cookie jar, 0 if none
    tokens,     \* the refresh tokens: user, family, and whether revoked
    minted,     \* how many there are
    status, user,    \* the state of each tab's AuthProvider
    access,     \* whose access token each authClient has
    call,       \* the calls of authFetch
    refresh,    \* the request behind refreshInFlight
    login, logout,
    forms,      \* the forms used so far: one login, one logout
    faults,     \* what has gone wrong so far
    signedOut,  \* history: whether the last answer to a form was a logout's
    causes,     \* history: what excuses a surprise
    overran     \* history: whether a refresh was ever on its way with a logout

jar == <<cookie, tokens, minted>>
provider == <<status, user, access>>
input == <<login, logout, forms>>
requests == <<call, refresh, input>>
history == <<faults, signedOut, causes>>
vars == <<jar, provider, requests, history, overran>>

Person == Users \cup {Nobody}

(* The bootstrap's profile request, and any other one. *)
Calls == {"me", "api"}

Causes == {"failed", "logout", "race", "late", "overtaken", "switched"}

NoCall == [phase |-> "idle", as |-> Nobody]
NoRefresh == [phase |-> "none", token |-> 0]
NoForm == [phase |-> "none", user |-> Nobody, token |-> 0]

TypeOK ==
    /\ cookie \in 0..minted
    /\ minted \in 0..MaxTokens
    /\ tokens \in [1..minted -> Row]
    /\ status \in [Tabs -> {"closed", "loading", "unauthenticated", "authenticated"}]
    /\ user \in [Tabs -> Person] /\ access \in [Tabs -> Person]
    /\ call \in [Tabs -> [Calls ->
          [phase : {"idle", "boot", "sent", "refreshing", "retried"}, as : Person]]]
    /\ refresh \in [Tabs -> [phase : {"none", "sent", "mint", "answered", "denied"},
                             token : 0..minted]]
    /\ login \in [Tabs -> [phase : {"none", "sent", "answered"}, user : Person,
                           token : 0..minted]]
    /\ logout \in [Tabs -> [phase : {"none", "sent", "answered"}, user : {Nobody},
                            token : 0..minted]]
    /\ forms \subseteq {"login", "logout"} /\ faults \in 0..MaxFaults
    /\ signedOut \in BOOLEAN
    /\ causes \subseteq Causes
    /\ overran \in BOOLEAN
    \* who waits for the refresh waits for one that is on its way
    /\ \A t \in Tabs, c \in Calls :
          call[t][c].phase \in {"boot", "refreshing"} => refresh[t].phase # "none"

Blame(cause) == causes' = causes \cup cause

Fault ==
    /\ faults < MaxFaults
    /\ faults' = faults + 1
    /\ Blame({"failed"})

(* Every request that may still mint a token has one left. *)
Budget ==
    minted + Cardinality({t \in Tabs : refresh[t].phase \in {"sent", "mint"}})
           + Cardinality({t \in Tabs : login[t].phase = "sent"}) < MaxTokens
-----------------------------------------------------------------------------
(* authClient *)

(* setAccessToken(null), setUser(null), setStatus('unauthenticated'). *)
ClearSession(t) ==
    /\ access' = [access EXCEPT ![t] = Nobody]
    /\ user' = [user EXCEPT ![t] = Nobody]
    /\ status' = [status EXCEPT ![t] = "unauthenticated"]

Refreshing(t) == refresh[t].phase # "none"

(* refreshAccessToken: one request for all that ask while it is on its way. *)
ShareRefresh(t) ==
    IF Refreshing(t) THEN UNCHANGED refresh
    ELSE /\ Budget
         /\ refresh' = [refresh EXCEPT ![t] = [phase |-> "sent", token |-> cookie]]

(* requestWithToken *)
SendCall(t, c, phase) ==
    call' = [call EXCEPT ![t][c] = [phase |-> phase, as |-> access[t]]]

(* A page of a signed-in user calls the API. *)
Fetch(t) ==
    /\ status[t] = "authenticated"
    /\ call[t]["api"].phase = "idle"
    /\ SendCall(t, "api", "sent")
    /\ UNCHANGED <<jar, provider, refresh, input, history>>

EndCall(t, c) == call' = [call EXCEPT ![t][c] = NoCall]

OnItsWay(t, c) == call[t][c].phase \in {"sent", "retried"}

(* requireAuth lets the call through; the bootstrap learns who it is. *)
Answered(t, c) ==
    /\ OnItsWay(t, c)
    /\ call[t][c].as # Nobody
    /\ IF c = "me"
       THEN /\ user' = [user EXCEPT ![t] = call[t][c].as]
            /\ status' = [status EXCEPT ![t] = "authenticated"]
       ELSE UNCHANGED <<user, status>>
    /\ EndCall(t, c)
    /\ UNCHANGED <<jar, access, refresh, input, history>>

(* What a call that fails for good does: the bootstrap catches it. *)
Rethrow(t, c) ==
    /\ EndCall(t, c)
    /\ IF c = "me" THEN ClearSession(t) ELSE UNCHANGED provider

(* 401: the token is missing or expired. *)
Denied(t, c) ==
    /\ OnItsWay(t, c)
    /\ IF call[t][c].phase = "sent"
       THEN /\ ShareRefresh(t)
            /\ call' = [call EXCEPT ![t][c] = [NoCall EXCEPT !.phase = "refreshing"]]
            /\ UNCHANGED provider
       ELSE Rethrow(t, c) /\ UNCHANGED refresh
    /\ UNCHANGED <<jar, input, history>>

(* The network or the server fails. *)
CallFails(t, c) ==
    /\ Fault
    /\ OnItsWay(t, c)
    /\ Rethrow(t, c)
    /\ UNCHANGED <<jar, refresh, input, signedOut>>

EndRefresh(t) == refresh' = [refresh EXCEPT ![t] = NoRefresh]

SlipRefreshed(t) ==
    LET owner == tokens[refresh[t].token].user IN
    /\ refresh[t].phase = "answered"
    /\ cookie' = refresh[t].token
    /\ access' = [access EXCEPT ![t] = owner]
    /\ call' = IF call[t]["me"].phase = "boot" THEN
                  [call EXCEPT ![t]["me"] = [phase |-> "sent", as |-> owner]]
               ELSE call
    /\ EndRefresh(t)
    /\ UNCHANGED <<tokens, minted, user, status, input>>

(* The answer's cookie and token, and the retry of all who waited for it. *)
Refreshed(t) ==
    LET owner == tokens[refresh[t].token].user IN
    /\ refresh[t].phase = "answered"
    /\ cookie' = refresh[t].token
    /\ access' = [access EXCEPT ![t] = owner]
    /\ call' = [call EXCEPT ![t] = [c \in Calls |->
          CASE @[c].phase = "boot" -> [phase |-> "sent", as |-> owner]
            [] @[c].phase = "refreshing" -> [phase |-> "retried", as |-> owner]
            [] OTHER -> @[c]]]
    /\ EndRefresh(t)
    /\ UNCHANGED <<tokens, minted, user, status, input>>

SlipRefreshFailed(t) ==
    LET waiting == {c \in Calls : call[t][c].phase = "refreshing"}
    IN  /\ IF waiting # {} THEN ClearSession(t)
           ELSE access' = [access EXCEPT ![t] = Nobody] /\ UNCHANGED <<status, user>>
        /\ call' = [call EXCEPT ![t] = [c \in Calls |->
              IF @[c].phase \in {"boot", "refreshing"} THEN NoCall ELSE @[c]]]
        /\ EndRefresh(t)
        /\ UNCHANGED <<jar, input>>

(* accessToken = null, then onUnauthorized for each call that waited; the  *)
(* bootstrap only sets its status.                                         *)
RefreshFailed(t) ==
    LET waiting == {c \in Calls : call[t][c].phase = "refreshing"}
    IN  /\ IF waiting # {} THEN ClearSession(t)
           ELSE /\ access' = [access EXCEPT ![t] = Nobody]
                /\ status' = [status EXCEPT ![t] = "unauthenticated"]
                /\ UNCHANGED user
        /\ call' = [call EXCEPT ![t] = [c \in Calls |->
              IF @[c].phase \in {"boot", "refreshing"} THEN NoCall ELSE @[c]]]
        /\ EndRefresh(t)
        /\ UNCHANGED <<jar, input>>
-----------------------------------------------------------------------------
(* The auth handlers *)

FamilyIsLive(f) == \E k \in 1..minted : tokens[k].family = f /\ tokens[k].state = "live"

(* Another refresh of the family is between its Revoke and its Create. *)
FamilyIsMinting(f) ==
    \E t \in Tabs : refresh[t].phase = "mint" /\ tokens[refresh[t].token].family = f

RevokeWhere(Which(_)) ==
    tokens' = [k \in 1..minted |->
        IF tokens[k].state = "live" /\ Which(k) THEN [tokens[k] EXCEPT !.state = "recent"]
        ELSE tokens[k]]

SlipJudgeRefresh(t) ==
    LET k == refresh[t].token
        f == tokens[k].family
        Verdict(phase) == refresh' = [refresh EXCEPT ![t].phase = phase]
    IN
    /\ refresh[t].phase = "sent"
    /\ \/ k = 0 /\ Verdict("denied") /\ UNCHANGED tokens
       \/ /\ k # 0 /\ tokens[k].state = "live"
          /\ RevokeWhere(LAMBDA i : i = k)
          /\ Verdict("mint")
       \/ /\ k # 0 /\ tokens[k].state # "live"
          /\ RevokeWhere(LAMBDA i : tokens[i].family = f)
          /\ Verdict("denied")
    /\ UNCHANGED <<cookie, minted, provider, call, input, history>>

(* No cookie, a live token, a replay within the grace window, or reuse. *)
JudgeRefresh(t) ==
    LET k == refresh[t].token
        f == tokens[k].family
        Verdict(phase) == refresh' = [refresh EXCEPT ![t].phase = phase]
    IN
    /\ refresh[t].phase = "sent"
    /\ \/ k = 0 /\ Verdict("denied") /\ UNCHANGED <<tokens, causes>>
       \/ /\ k # 0 /\ tokens[k].state = "live"
          /\ RevokeWhere(LAMBDA i : i = k)
          /\ Verdict("mint") /\ UNCHANGED causes
       \/ /\ k # 0 /\ tokens[k].state = "recent" /\ FamilyIsLive(f)
          /\ Verdict("mint") /\ UNCHANGED <<tokens, causes>>
       \/ /\ k # 0 /\ tokens[k].state # "live"
          /\ tokens[k].state = "old" \/ ~FamilyIsLive(f)
          /\ RevokeWhere(LAMBDA i : tokens[i].family = f)
          /\ Verdict("denied")
          /\ Blame(CASE tokens[k].state = "old" /\ FamilyIsLive(f) -> {"late"}
                     [] FamilyIsMinting(f) -> {"race"}
                     [] OTHER -> {})
    /\ UNCHANGED <<cookie, minted, provider, call, input, faults, signedOut>>

Mint(owner, f) ==
    /\ minted' = minted + 1
    /\ tokens' = [k \in 1..minted + 1 |-> IF k \in DOMAIN tokens THEN tokens[k]
                     ELSE [user |-> owner, family |-> f, state |-> "live"]]

MintRefresh(t) ==
    LET k == refresh[t].token IN
    /\ refresh[t].phase = "mint"
    /\ Mint(tokens[k].user, tokens[k].family)
    /\ refresh' = [refresh EXCEPT ![t] = [phase |-> "answered", token |-> minted + 1]]
    /\ UNCHANGED <<cookie, provider, call, input, history>>

(* RefreshGraceWindow is over, for a token that may still be presented. *)
GraceEnds ==
    /\ \E k \in ({cookie} \cup {refresh[t].token : t \in Tabs}) \ {0} :
          /\ tokens[k].state = "recent"
          /\ tokens' = [tokens EXCEPT ![k].state = "old"]
    /\ UNCHANGED <<cookie, minted, provider, requests, history>>

Deliver(t) ==
    /\ \/ Refreshed(t)
       \/ refresh[t].phase = "denied" /\ RefreshFailed(t)
    /\ UNCHANGED history

(* The rate limiter or the server refuses, or the network fails; the tab   *)
(* takes each for the end of its session.                                  *)
RefreshBreaks(t) ==
    /\ Fault
    /\ refresh[t].phase \in {"sent", "mint", "answered"}
    /\ RefreshFailed(t)
    /\ UNCHANGED signedOut
-----------------------------------------------------------------------------
(* The forms *)

(* The page loads: AuthProvider's bootstrap. *)
OpenTab(t) ==
    /\ status[t] = "closed"
    /\ Budget
    /\ status' = [status EXCEPT ![t] = "loading"]
    /\ call' = [call EXCEPT ![t]["me"].phase = "boot"]
    /\ refresh' = [refresh EXCEPT ![t] = [phase |-> "sent", token |-> cookie]]
    /\ UNCHANGED <<jar, user, access, input, history>>

Submit(t, form) ==
    t \in FormTabs /\ form \notin forms /\ forms' = forms \cup {form}

(* /login is open to all, whatever the status. *)
SubmitLogin(t) ==
    /\ status[t] # "closed"
    /\ Submit(t, "login")
    /\ Budget
    /\ \E u \in Users :
          login' = [login EXCEPT ![t] = [NoForm EXCEPT !.phase = "sent", !.user = u]]
    /\ UNCHANGED <<jar, provider, call, refresh, logout, history>>

(* The right password opens a family. *)
ServeLogin(t) ==
    /\ login[t].phase = "sent"
    /\ Mint(login[t].user, minted + 1)
    /\ login' = [login EXCEPT ![t].phase = "answered", ![t].token = minted + 1]
    /\ UNCHANGED <<cookie, provider, call, refresh, logout, history, forms>>

Bootstraps(t) == Refreshing(t) \/ call[t]["me"].phase # "idle"
Asks(t) == Refreshing(t) \/ \E c \in Calls : call[t][c].phase # "idle"

(* What a login meets: a refresh or bootstrap of the tab that began before *)
(* it, and tabs of another user or about to be.                            *)
Confusion(t, u) ==
    (IF Bootstraps(t) THEN {"overtaken"} ELSE {})
    \cup (IF \E s \in Tabs \ {t} :
                Asks(s) \/ (status[s] = "authenticated" /\ user[s] # u)
          THEN {"switched"} ELSE {})

SlipLoggedIn(t) ==
    /\ login[t].phase = "answered"
    /\ cookie' = login[t].token
    /\ user' = [user EXCEPT ![t] = login[t].user]
    /\ status' = [status EXCEPT ![t] = "authenticated"]
    /\ login' = [login EXCEPT ![t] = NoForm]
    /\ signedOut' = FALSE
    /\ Blame(Confusion(t, login[t].user))
    /\ UNCHANGED <<tokens, minted, access, call, refresh, logout, faults, forms>>

LoggedIn(t) ==
    LET u == login[t].user IN
    /\ login[t].phase = "answered"
    /\ cookie' = login[t].token
    /\ access' = [access EXCEPT ![t] = u]
    /\ user' = [user EXCEPT ![t] = u]
    /\ status' = [status EXCEPT ![t] = "authenticated"]
    /\ login' = [login EXCEPT ![t] = NoForm]
    /\ signedOut' = FALSE
    /\ Blame(Confusion(t, u))
    /\ UNCHANGED <<tokens, minted, call, refresh, logout, faults, forms>>

(* A refusal changes nothing; a lost answer's cookie is lost with it. *)
LoginFails(t) ==
    /\ Fault
    /\ login[t].phase # "none"
    /\ login' = [login EXCEPT ![t] = NoForm]
    /\ UNCHANGED <<jar, provider, call, refresh, logout, signedOut, forms>>

ClickLogout(t) ==
    /\ status[t] = "authenticated"
    /\ Submit(t, "logout")
    /\ logout' = [logout EXCEPT ![t] = [NoForm EXCEPT !.phase = "sent", !.token = cookie]]
    /\ UNCHANGED <<jar, provider, call, refresh, login, history>>

(* The presented token is revoked, and it alone. *)
ServeLogout(t) ==
    /\ logout[t].phase = "sent"
    /\ RevokeWhere(LAMBDA k : k = logout[t].token)
    /\ logout' = [logout EXCEPT ![t].phase = "answered"]
    /\ Blame({"logout"})
    /\ UNCHANGED <<cookie, minted, provider, call, refresh, login, faults, signedOut, forms>>

EndLogout(t) ==
    /\ ClearSession(t)
    /\ logout' = [logout EXCEPT ![t] = NoForm]

SlipLoggedOut(t) ==
    /\ logout[t].phase = "answered"
    /\ EndLogout(t)
    /\ signedOut' = TRUE
    /\ UNCHANGED <<jar, call, refresh, login, faults, causes, forms>>

(* The answer clears the cookie, whichever it is by now. *)
LoggedOut(t) ==
    /\ logout[t].phase = "answered"
    /\ cookie' = 0
    /\ EndLogout(t)
    /\ signedOut' = TRUE
    /\ UNCHANGED <<tokens, minted, call, refresh, login, faults, causes, forms>>

(* "finally": the tab is signed out, the cookie is not. *)
LogoutFails(t) ==
    /\ Fault
    /\ logout[t].phase # "none"
    /\ EndLogout(t)
    /\ UNCHANGED <<jar, call, refresh, login, signedOut, forms>>

Overrun == \E s, t \in Tabs : refresh[s].phase # "none" /\ logout[t].phase # "none"

Step ==
    \/ GraceEnds
    \/ \E t \in Tabs :
          \/ OpenTab(t) \/ Fetch(t)
          \/ \E c \in Calls : Answered(t, c) \/ Denied(t, c) \/ CallFails(t, c)
          \/ JudgeRefresh(t) \/ MintRefresh(t) \/ Deliver(t) \/ RefreshBreaks(t)
          \/ SubmitLogin(t) \/ ServeLogin(t) \/ LoggedIn(t) \/ LoginFails(t)
          \/ ClickLogout(t) \/ ServeLogout(t) \/ LoggedOut(t) \/ LogoutFails(t)

Next == Step /\ overran' = (overran \/ Overrun')

Init ==
    /\ \E s \in Sessions : cookie = s.cookie /\ tokens = s.tokens
    /\ minted = Cardinality(DOMAIN tokens)
    /\ status = [t \in Tabs |-> "closed"]
    /\ user = [t \in Tabs |-> Nobody] /\ access = [t \in Tabs |-> Nobody]
    /\ call = [t \in Tabs |-> [c \in Calls |-> NoCall]]
    /\ refresh = [t \in Tabs |-> NoRefresh]
    /\ login = [t \in Tabs |-> NoForm] /\ logout = [t \in Tabs |-> NoForm]
    /\ forms = {} /\ faults = 0 /\ signedOut = FALSE /\ causes = {} /\ overran = FALSE

Spec == Init /\ [][Next]_vars

(* The browser and the server do not stop half way. *)
Progress ==
    /\ \E t \in Tabs : \/ JudgeRefresh(t) \/ MintRefresh(t) \/ Deliver(t)
                      \/ Answered(t, "me") \/ Denied(t, "me")
    /\ overran' = (overran \/ Overrun')

FairSpec == Spec /\ WF_vars(Progress)
-----------------------------------------------------------------------------
(* Properties *)

(* Tabs that refresh the shared cookie side by side do not throw each other*)
(* out (token.go:5-8): a tab that did not log out itself leaves its session*)
(* only after a logout or a failure somewhere, a replay that came after the*)
(* grace window or between the two statements of a rotation, or a login    *)
(* that overtook its bootstrap (AuthProvider.tsx:41).                      *)
SignedOutForAReason ==
    [][\A t \in Tabs :
          status[t] = "authenticated" /\ status'[t] = "unauthenticated"
          => causes' \cap {"logout", "failed", "late", "race", "overtaken"} # {}]_vars

(* A tab acts as the user it shows, as long as no two users meet in the    *)
(* browser: a refresh takes whatever account the cookie is of by then      *)
(* (authClient.ts:41), and does not look at the user that the tab shows.   *)
ActsAsShown ==
    \A t \in Tabs :
        status[t] = "authenticated" /\ access[t] # Nobody /\ access[t] # user[t]
        => causes \cap {"overtaken", "switched"} # {}

Quiet ==
    \A t \in Tabs : /\ refresh[t].phase = "none"
                    /\ login[t].phase = "none" /\ logout[t].phase = "none"

(* After a logout nothing in the browser can sign it in again, and no tab  *)
(* that is signed out has a token, unless a refresh was on its way when the*)
(* logout was (AuthProvider.tsx:77-83): its answer brings both back.  So   *)
(* does the 401 of an old call after a logout that failed, or after a login*)
(* in another tab, and a bootstrap that a login has overtaken.             *)
LogoutSticks ==
    Quiet /\ ~overran /\ "failed" \notin causes =>
        /\ signedOut => cookie = 0
        /\ \A t \in Tabs : status[t] = "unauthenticated" =>
              access[t] = Nobody \/ causes \cap {"overtaken", "switched"} # {}

(* No page stays at "Loading": RequireAuth waits for the bootstrap, and    *)
(* whatever else the tabs do, every bootstrap comes to its end.            *)
BootstrapsEnd == []<>(\A t \in Tabs : status[t] # "loading")
=============================================================================
