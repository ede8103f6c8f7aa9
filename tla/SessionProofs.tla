------------------------- MODULE SessionProofs -------------------------
(***************************************************************************)
(* The browser's session, for any number of tabs and users, and whatever   *)
(* the bounds on tokens and faults are: a tab acts as the user it shows, a *)
(* logout sticks, and a tab leaves its session for a reason.               *)
(*                                                                         *)
(* None of the three is inductive.  A tab that is thrown out now was       *)
(* refused a token that had been good when it left the tab, so the         *)
(* invariant follows the families: what a signed-in browser holds, or is   *)
(* about to receive, belongs to one that is live or has a refresh half way *)
(* (FamiliesSound).  A tab acts as another user only because what some     *)
(* request carries is another's (OnePerson), and after a logout nothing    *)
(* that is on its way has a token to bring back (SignedOutSoFar).          *)
(***************************************************************************)
EXTENDS Session, FiniteSetTheorems, TLAPS

(* The users of two sessions have met, or a login has met a bootstrap. *)
Confused == causes \cap {"overtaken", "switched"} # {}

(* A session may have ended. *)
Excused == causes \cap {"logout", "failed", "late", "race"} # {}

(* Every request that may still mint a token has one left. *)
Minting == {t \in Tabs : refresh[t].phase \in {"sent", "mint"}}
LoggingIn == {t \in Tabs : login[t].phase = "sent"}
Budgeted == minted + Cardinality(Minting) + Cardinality(LoggingIn) <= MaxTokens

Idle(t, c) == call[t][c].phase = "idle"

(* What a tab's requests say about its provider, and about each other. *)
OrderlyTab(t) ==
    /\ status[t] = "closed" => ~Asks(t) /\ access[t] = Nobody
    /\ status[t] = "loading" => ~Idle(t, "me") /\ Idle(t, "api")
    /\ ~Idle(t, "me") => status[t] = "loading" \/ "overtaken" \in causes
    /\ \A c \in Calls : Idle(t, c) => call[t][c].as = Nobody
    /\ Refreshing(t) => \E c \in Calls : call[t][c].phase \in {"boot", "refreshing"}
    /\ refresh[t].phase \in {"mint", "answered"} => refresh[t].token # 0
    /\ login[t].phase # "none" => login[t].user \in Users
    /\ login[t].phase = "answered" =>
          login[t].token # 0 /\ tokens[login[t].token].user = login[t].user
    /\ logout[t].phase # "none" => status[t] \notin {"closed", "loading"}
    /\ logout[t].phase = "answered" => "logout" \in causes

Orderly == \A t \in Tabs : OrderlyTab(t)

(* Signed in, or on the way there with a token that was just minted. *)
Admitted(t) == status[t] = "authenticated" \/ call[t]["me"].phase \notin {"idle", "boot"}

(* The family of a token can still be refreshed, or something happened. *)
Good(k) == k # 0 /\ (FamilyIsLive(tokens[k].family) \/ FamilyIsMinting(tokens[k].family))
Sound(k) == Excused \/ Good(k)

SoundTab(t) ==
    /\ refresh[t].phase \in {"mint", "answered"} => Sound(refresh[t].token)
    /\ login[t].phase = "answered" => Sound(login[t].token)
    /\ Admitted(t) => Sound(cookie)
    /\ Admitted(t) /\ refresh[t].phase = "sent" =>
          "overtaken" \in causes \/ Sound(refresh[t].token)
    /\ Admitted(t) /\ refresh[t].phase = "denied" => "overtaken" \in causes \/ Excused

FamiliesSound == \A t \in Tabs : SoundTab(t)

(* Unless users have met, everything in the browser is about one person. *)
AboutTab(t, p) ==
    /\ Refreshing(t) /\ refresh[t].token # 0 => tokens[refresh[t].token].user = p
    /\ call[t]["me"].as \in {p, Nobody}
    /\ status[t] = "authenticated" => user[t] = p
    /\ status[t] # "unauthenticated" => access[t] \in {p, Nobody}

About(p) ==
    /\ cookie # 0 => tokens[cookie].user = p
    /\ \A t \in Tabs : AboutTab(t, p)

OnePerson == Confused \/ \E p \in Person : About(p)

(* Nothing that is on its way has a token to bring back. *)
NoWayBack == cookie = 0 /\ \A t \in Tabs : Refreshing(t) => refresh[t].token = 0

(* A tab that is signed out has no token, and brings none back. *)
SignedOutTab(t) ==
    status[t] = "unauthenticated" =>
        /\ access[t] = Nobody
        /\ (\E c \in Calls : ~Idle(t, c)) => NoWayBack

SignedOutSoFar ==
    /\ ~overran => ~Overrun
    /\ signedOut /\ ~overran => NoWayBack
    /\ ~overran /\ "failed" \notin causes /\ ~Confused => \A t \in Tabs : SignedOutTab(t)

Base == TypeOK /\ Budgeted /\ Orderly
SessionInv == Base /\ FamiliesSound /\ OnePerson /\ SignedOutSoFar
-----------------------------------------------------------------------------
(* The type invariant in parts: what an action leaves alone stays typed. *)
CallRecord == [phase : {"idle", "boot", "sent", "refreshing", "retried"}, as : Person]
RefreshRecord == [phase : {"none", "sent", "mint", "answered", "denied"}, token : 0..minted]
LoginRecord == [phase : {"none", "sent", "answered"}, user : Person, token : 0..minted]
LogoutRecord == [phase : {"none", "sent", "answered"}, user : {Nobody}, token : 0..minted]

JarOK == minted \in 0..MaxTokens /\ cookie \in 0..minted /\ tokens \in [1..minted -> Row]
ProviderOK ==
    /\ status \in [Tabs -> {"closed", "loading", "unauthenticated", "authenticated"}]
    /\ user \in [Tabs -> Person] /\ access \in [Tabs -> Person]
CallsOK == call \in [Tabs -> [Calls -> CallRecord]]
RefreshOK == refresh \in [Tabs -> RefreshRecord]
FormsOK ==
    /\ login \in [Tabs -> LoginRecord] /\ logout \in [Tabs -> LogoutRecord]
    /\ forms \subseteq {"login", "logout"}
HistoryOK == faults \in 0..MaxFaults /\ signedOut \in BOOLEAN /\ causes \subseteq Causes
WaitersOK ==
    \A t \in Tabs, c \in Calls :
        call[t][c].phase \in {"boot", "refreshing"} => refresh[t].phase # "none"

StateOK ==
    /\ JarOK /\ ProviderOK /\ CallsOK /\ RefreshOK /\ FormsOK /\ HistoryOK /\ WaitersOK

LEMMA TypeParts == TypeOK <=> StateOK /\ overran \in BOOLEAN
  BY DEF TypeOK, StateOK, JarOK, ProviderOK, CallsOK, RefreshOK, FormsOK, HistoryOK,
         WaitersOK, CallRecord, RefreshRecord, LoginRecord, LogoutRecord

LEMMA TypePartsNext == StateOK' /\ overran' \in BOOLEAN => TypeOK'
  BY DEF TypeOK, StateOK, JarOK, ProviderOK, CallsOK, RefreshOK, FormsOK, HistoryOK,
         WaitersOK, CallRecord, RefreshRecord, LoginRecord, LogoutRecord

(* The null records. *)
LEMMA Nulls ==
    /\ NoCall \in CallRecord /\ NoCall.phase = "idle" /\ NoCall.as = Nobody
    /\ minted \in Nat =>
          /\ NoRefresh \in RefreshRecord /\ NoForm \in LoginRecord /\ NoForm \in LogoutRecord
    /\ NoRefresh.phase = "none" /\ NoRefresh.token = 0
    /\ NoForm.phase = "none" /\ NoForm.user = Nobody /\ NoForm.token = 0
  BY DEF NoCall, NoRefresh, NoForm, CallRecord, RefreshRecord, LoginRecord, LogoutRecord,
         Person

(* A new token makes room for requests that carry it, and for all others. *)
LEMMA MoreTokens ==
  ASSUME JarOK, minted' = minted + 1
  PROVE  /\ RefreshRecord \subseteq RefreshRecord'
         /\ LoginRecord \subseteq LoginRecord' /\ LogoutRecord \subseteq LogoutRecord'
         /\ minted + 1 \in 0..minted' /\ 0..minted \subseteq 0..minted'
<1>1. minted \in Nat
  BY SessionAssumption DEF JarOK
<1> QED
  BY <1>1 DEF RefreshRecord, LoginRecord, LogoutRecord

(* What the requests of a tab carry. *)
LEMMA Typed ==
  ASSUME StateOK, NEW t \in Tabs
  PROVE  /\ minted \in Nat /\ minted <= MaxTokens /\ MaxTokens \in Nat
         /\ cookie \in 0..minted
         /\ \A k \in 1..minted : /\ tokens[k] \in Row /\ tokens[k].user \in Users
                                 /\ tokens[k].family \in Families
         /\ status[t] \in {"closed", "loading", "unauthenticated", "authenticated"}
         /\ user[t] \in Person /\ access[t] \in Person
         /\ \A c \in Calls : /\ call[t][c] \in CallRecord /\ call[t][c].as \in Person
                             /\ call[t][c].phase \in {"idle", "boot", "sent", "refreshing", "retried"}
         /\ refresh[t] \in RefreshRecord /\ refresh[t].token \in 0..minted
         /\ refresh[t].phase \in {"none", "sent", "mint", "answered", "denied"}
         /\ login[t] \in LoginRecord /\ login[t].token \in 0..minted
         /\ login[t].phase \in {"none", "sent", "answered"} /\ login[t].user \in Person
         /\ logout[t] \in LogoutRecord /\ logout[t].token \in 0..minted
         /\ logout[t].phase \in {"none", "sent", "answered"} /\ logout[t].user = Nobody
  BY SessionAssumption
  DEF StateOK, JarOK, ProviderOK, CallsOK, RefreshOK, FormsOK,
      CallRecord, RefreshRecord, LoginRecord, LogoutRecord, Row
-----------------------------------------------------------------------------
(* What the statements do to the table of tokens. *)

(* Nothing changes but the state of some tokens, and none comes to life. *)
Revocation ==
    /\ minted' = minted /\ tokens' \in [1..minted -> Row]
    /\ \A k \in 1..minted :
          /\ tokens'[k].user = tokens[k].user /\ tokens'[k].family = tokens[k].family
          /\ tokens'[k].state = "live" => tokens[k].state = "live"

LEMMA NothingRevoked ==
  ASSUME JarOK, UNCHANGED <<tokens, minted>>
  PROVE  Revocation
  BY DEF JarOK, Revocation

(* The four verdicts on a refresh. *)
Refused(t) == refresh' = [refresh EXCEPT ![t].phase = "denied"]
Granted(t) ==
    /\ refresh' = [refresh EXCEPT ![t].phase = "mint"]
    /\ refresh[t].token # 0 /\ causes' = causes

LEMMA JudgeFacts ==
  ASSUME StateOK, NEW t \in Tabs, JudgeRefresh(t)
  PROVE  LET k == refresh[t].token
             f == tokens[k].family IN
         /\ refresh[t].phase = "sent" /\ Revocation
         /\ \/ k = 0 /\ Refused(t) /\ UNCHANGED <<tokens, causes>>
            \/ /\ Granted(t)
               /\ \A i \in 1..minted : tokens[i].state = "live" /\ i # k => tokens'[i] = tokens[i]
            \/ /\ k # 0 /\ Refused(t)
               /\ \A i \in 1..minted :
                     tokens[i].state = "live" /\ tokens[i].family # f => tokens'[i] = tokens[i]
               /\ \/ FamilyIsLive(f) /\ causes' = causes \cup {"late"}
                  \/ FamilyIsMinting(f) /\ causes' = causes \cup {"race"}
                  \/ ~FamilyIsLive(f) /\ ~FamilyIsMinting(f) /\ causes' = causes
<1> DEFINE k == refresh[t].token
           f == tokens[k].family
<1>1. JarOK /\ minted' = minted /\ refresh[t].phase = "sent"
  BY DEF StateOK, JudgeRefresh
<1>2. CASE k = 0 /\ Refused(t) /\ UNCHANGED <<tokens, causes>>
  BY <1>1, <1>2, NothingRevoked
<1>3. CASE /\ k # 0 /\ tokens[k].state = "live"
           /\ RevokeWhere(LAMBDA i : i = k)
           /\ refresh' = [refresh EXCEPT ![t].phase = "mint"] /\ UNCHANGED causes
  <2>1. tokens' = [i \in 1..minted |->
            IF tokens[i].state = "live" /\ i = k THEN [tokens[i] EXCEPT !.state = "recent"]
            ELSE tokens[i]]
    BY <1>3 DEF RevokeWhere
  <2>2. Revocation
    BY <1>1, <2>1 DEF JarOK, Revocation, Row
  <2> QED
    BY <1>1, <1>3, <2>1, <2>2 DEF Granted
<1>4. CASE /\ k # 0 /\ refresh' = [refresh EXCEPT ![t].phase = "mint"]
           /\ UNCHANGED <<tokens, causes>>
  BY <1>1, <1>4, NothingRevoked DEF Granted
<1>5. CASE /\ k # 0 /\ (tokens[k].state = "old" \/ ~FamilyIsLive(f))
           /\ RevokeWhere(LAMBDA i : tokens[i].family = f)
           /\ Refused(t)
           /\ Blame(CASE tokens[k].state = "old" /\ FamilyIsLive(f) -> {"late"}
                      [] FamilyIsMinting(f) -> {"race"}
                      [] OTHER -> {})
  <2>1. tokens' = [i \in 1..minted |->
            IF tokens[i].state = "live" /\ tokens[i].family = f
            THEN [tokens[i] EXCEPT !.state = "recent"] ELSE tokens[i]]
    BY <1>5 DEF RevokeWhere
  <2>2. Revocation
    BY <1>1, <2>1 DEF JarOK, Revocation, Row
  <2>3. \A i \in 1..minted :
            tokens[i].state = "live" /\ tokens[i].family # f => tokens'[i] = tokens[i]
    BY <2>1
  <2>4. \/ FamilyIsLive(f) /\ causes' = causes \cup {"late"}
        \/ FamilyIsMinting(f) /\ causes' = causes \cup {"race"}
        \/ ~FamilyIsLive(f) /\ ~FamilyIsMinting(f) /\ causes' = causes
    BY <1>5 DEF Blame
  <2> QED
    BY <1>1, <1>5, <2>2, <2>3, <2>4
<1> QED
  BY <1>2, <1>3, <1>4, <1>5 DEF JudgeRefresh, Refused

LEMMA ServeLogoutIsRevocation ==
  ASSUME StateOK, NEW t \in Tabs, ServeLogout(t)
  PROVE  Revocation
<1> DEFINE token == logout[t].token
<1>1. tokens' = [k \in 1..minted |->
          IF tokens[k].state = "live" /\ k = token
          THEN [tokens[k] EXCEPT !.state = "recent"] ELSE tokens[k]]
  BY DEF ServeLogout, RevokeWhere
<1>2. minted' = minted /\ JarOK
  BY DEF ServeLogout, StateOK
<1> QED
  BY <1>1, <1>2 DEF JarOK, Revocation, Row

LEMMA GraceEndsIsRevocation ==
  ASSUME StateOK, GraceEnds
  PROVE  /\ Revocation
         /\ \A k \in 1..minted : tokens[k].state = "live" => tokens'[k].state = "live"
<1>1. PICK k \in ({cookie} \cup {refresh[t].token : t \in Tabs}) \ {0} :
          tokens[k].state = "recent" /\ tokens' = [tokens EXCEPT ![k].state = "old"]
  BY DEF GraceEnds
<1>2. tokens \in [1..minted -> Row] /\ minted' = minted
  BY DEF StateOK, JarOK, GraceEnds
<1> QED
  BY <1>1, <1>2 DEF Revocation, Row

(* The rows there were stay as they are; the new one is live. *)
LEMMA MintFacts ==
  ASSUME JarOK, NEW owner \in Users, NEW f \in Families, Mint(owner, f), minted < MaxTokens
  PROVE  /\ JarOK' \/ cookie' # cookie
         /\ minted' = minted + 1 /\ minted + 1 \in 1..minted'
         /\ \A k \in 1..minted : k \in 1..minted' /\ tokens'[k] = tokens[k]
         /\ tokens'[minted + 1] = [user |-> owner, family |-> f, state |-> "live"]
<1>1. minted \in Nat /\ MaxTokens \in Nat /\ DOMAIN tokens = 1..minted
  BY SessionAssumption DEF JarOK
<1>2. [user |-> owner, family |-> f, state |-> "live"] \in Row
  BY DEF Row
<1>3. minted' = minted + 1 /\ minted' \in 0..MaxTokens /\ cookie \in 0..minted'
  BY <1>1 DEF Mint, JarOK
<1>4. tokens' \in [1..minted' -> Row]
  BY <1>1, <1>2, <1>3 DEF Mint, JarOK
<1> QED
  BY <1>1, <1>3, <1>4 DEF Mint, JarOK

-----------------------------------------------------------------------------
(* A step of a tab leaves the provider and the requests of the others alone. *)
Kept(s) ==
    /\ status'[s] = status[s] /\ user'[s] = user[s] /\ access'[s] = access[s]
    /\ call'[s] = call[s] /\ refresh'[s] = refresh[s]
    /\ login'[s] = login[s] /\ logout'[s] = logout[s]

(* The tokens there are keep their user and family, and the causes grow. *)
Onward ==
    /\ minted' \in {minted, minted + 1}
    /\ \A k \in 1..minted :
          tokens'[k].user = tokens[k].user /\ tokens'[k].family = tokens[k].family
    /\ causes \subseteq causes'

TabStep(t) ==
    \/ OpenTab(t) \/ Fetch(t)
    \/ \E c \in Calls : Answered(t, c) \/ Denied(t, c) \/ CallFails(t, c)
    \/ JudgeRefresh(t) \/ MintRefresh(t) \/ Deliver(t) \/ RefreshBreaks(t)
    \/ SubmitLogin(t) \/ ServeLogin(t) \/ LoggedIn(t) \/ LoginFails(t)
    \/ ClickLogout(t) \/ ServeLogout(t) \/ LoggedOut(t) \/ LogoutFails(t)

LEMMA StepsOfTabs == Step => GraceEnds \/ \E t \in Tabs : TabStep(t)
  BY DEF Step, TabStep

LEMMA TabStepsAreLocal ==
  ASSUME StateOK, NEW t \in Tabs, TabStep(t)
  PROVE  Onward /\ \A s \in Tabs \ {t} : Kept(s)
<1>0. /\ minted \in Nat /\ DOMAIN tokens = 1..minted
      /\ status \in [Tabs -> {"closed", "loading", "unauthenticated", "authenticated"}]
      /\ user \in [Tabs -> Person] /\ access \in [Tabs -> Person]
      /\ call \in [Tabs -> [Calls -> CallRecord]]
      /\ refresh \in [Tabs -> RefreshRecord]
      /\ login \in [Tabs -> LoginRecord] /\ logout \in [Tabs -> LogoutRecord]
  BY SessionAssumption DEF StateOK, JarOK, ProviderOK, CallsOK, RefreshOK, FormsOK
<1>1. CASE OpenTab(t)
  BY <1>0, <1>1 DEF OpenTab, Onward, Kept, jar, input, history
<1>2. CASE Fetch(t)
  BY <1>0, <1>2 DEF Fetch, SendCall, Onward, Kept, jar, provider, input, history
<1>3. ASSUME NEW c \in Calls, Answered(t, c)
      PROVE  Onward /\ \A s \in Tabs \ {t} : Kept(s)
  BY <1>0, <1>3 DEF Answered, EndCall, Onward, Kept, jar, input, history
<1>4. ASSUME NEW c \in Calls, Denied(t, c)
      PROVE  Onward /\ \A s \in Tabs \ {t} : Kept(s)
  <2>1. CASE call[t][c].phase = "sent"
    BY <1>0, <1>4, <2>1 DEF Denied, ShareRefresh, Onward, Kept, jar, provider, input, history
  <2>2. CASE call[t][c].phase # "sent"
    BY <1>0, <1>4, <2>2
    DEF Denied, Rethrow, EndCall, ClearSession, Onward, Kept, jar, provider, input, history
  <2> QED
    BY <2>1, <2>2
<1>5. ASSUME NEW c \in Calls, CallFails(t, c)
      PROVE  Onward /\ \A s \in Tabs \ {t} : Kept(s)
  BY <1>0, <1>5
  DEF CallFails, Fault, Blame, Rethrow, EndCall, ClearSession, Onward, Kept, jar, provider, input
<1>6. CASE JudgeRefresh(t)
  <2>1. Revocation /\ \A s \in Tabs \ {t} : refresh'[s] = refresh[s]
    BY <1>0, <1>6, JudgeFacts DEF Granted, Refused
  <2>2. causes \subseteq causes'
    BY <1>6, JudgeFacts DEF Granted
  <2> QED
    BY <1>0, <1>6, <2>1, <2>2 DEF JudgeRefresh, Revocation, Onward, Kept, provider, input
<1>7. CASE MintRefresh(t)
  BY <1>0, <1>7 DEF MintRefresh, Mint, Onward, Kept, provider, input, history
<1>8. CASE Deliver(t)
  <2>1. CASE Refreshed(t)
    BY <1>0, <1>8, <2>1 DEF Deliver, Refreshed, EndRefresh, Onward, Kept, input, history
  <2>2. CASE RefreshFailed(t)
    BY <1>0, <1>8, <2>2
    DEF Deliver, RefreshFailed, EndRefresh, ClearSession, Onward, Kept, jar, input, history
  <2> QED
    BY <1>8, <2>1, <2>2 DEF Deliver
<1>9. CASE RefreshBreaks(t)
  BY <1>0, <1>9
  DEF RefreshBreaks, Fault, Blame, RefreshFailed, EndRefresh, ClearSession, Onward, Kept, jar, input
<1>10. CASE SubmitLogin(t)
  BY <1>0, <1>10 DEF SubmitLogin, Onward, Kept, jar, provider, history
<1>11. CASE ServeLogin(t)
  BY <1>0, <1>11 DEF ServeLogin, Mint, Onward, Kept, provider, history
<1>12. CASE LoggedIn(t)
  BY <1>0, <1>12 DEF LoggedIn, Blame, Onward, Kept
<1>13. CASE LoginFails(t)
  BY <1>0, <1>13 DEF LoginFails, Fault, Blame, Onward, Kept, jar, provider
<1>14. CASE ClickLogout(t)
  BY <1>0, <1>14 DEF ClickLogout, Onward, Kept, jar, provider, history
<1>15. CASE ServeLogout(t)
  <2>1. Revocation
    BY <1>15, ServeLogoutIsRevocation
  <2> QED
    BY <1>0, <1>15, <2>1 DEF ServeLogout, Blame, Revocation, Onward, Kept, provider
<1>16. CASE LoggedOut(t)
  BY <1>0, <1>16 DEF LoggedOut, EndLogout, ClearSession, Onward, Kept
<1>17. CASE LogoutFails(t)
  BY <1>0, <1>17 DEF LogoutFails, Fault, Blame, EndLogout, ClearSession, Onward, Kept, jar
<1> QED
  BY <1>1, <1>2, <1>3, <1>4, <1>5, <1>6, <1>7, <1>8, <1>9, <1>10, <1>11, <1>12, <1>13,
     <1>14, <1>15, <1>16, <1>17 DEF TabStep

LEMMA GraceEndsIsLocal ==
  ASSUME StateOK, GraceEnds
  PROVE  Onward /\ Revocation /\ UNCHANGED <<cookie, minted, provider, requests, history>>
<1>1. Revocation
  BY GraceEndsIsRevocation
<1> QED
  BY <1>1 DEF GraceEnds, Onward, Revocation, history
-----------------------------------------------------------------------------
(* The budget of tokens. *)

LEMMA Counting ==
  /\ IsFiniteSet(Minting) /\ Cardinality(Minting) \in Nat
  /\ IsFiniteSet(LoggingIn) /\ Cardinality(LoggingIn) \in Nat
<1>1. IsFiniteSet(Tabs) /\ Minting \in SUBSET Tabs /\ LoggingIn \in SUBSET Tabs
  BY SessionAssumption DEF Minting, LoggingIn
<1>2. IsFiniteSet(Minting) /\ IsFiniteSet(LoggingIn)
  BY <1>1, FS_Subset
<1> QED
  BY <1>2, FS_CardinalityType

LEMMA Fewer ==
  ASSUME NEW S, NEW T, IsFiniteSet(T), S \subseteq T
  PROVE  Cardinality(S) <= Cardinality(T)
  BY FS_Subset

(* Nobody asks for more. *)
LEMMA BudgetKept ==
  ASSUME StateOK, StateOK', Budgeted, minted' = minted,
         Minting' \subseteq Minting, LoggingIn' \subseteq LoggingIn
  PROVE  Budgeted'
<1>1. Cardinality(Minting') <= Cardinality(Minting)
  BY Counting, Fewer
<1>2. Cardinality(LoggingIn') <= Cardinality(LoggingIn)
  BY Counting, Fewer
<1>3. Cardinality(Minting') \in Nat /\ Cardinality(LoggingIn') \in Nat
  BY Counting, FS_Subset, FS_CardinalityType
<1>4. minted \in Nat /\ MaxTokens \in Nat
  BY SessionAssumption DEF StateOK, JarOK
<1> QED
  BY <1>1, <1>2, <1>3, <1>4, Counting DEF Budgeted

(* A refresh or a login leaves while there is a token for it. *)
LEMMA BudgetSpent ==
  ASSUME StateOK, Budget, minted' = minted, NEW t,
         \/ Minting' \subseteq Minting \cup {t} /\ LoggingIn' \subseteq LoggingIn
         \/ Minting' \subseteq Minting /\ LoggingIn' \subseteq LoggingIn \cup {t}
  PROVE  Budgeted'
<1>1. /\ IsFiniteSet(Minting \cup {t}) /\ Cardinality(Minting \cup {t}) <= Cardinality(Minting) + 1
      /\ IsFiniteSet(LoggingIn \cup {t})
      /\ Cardinality(LoggingIn \cup {t}) <= Cardinality(LoggingIn) + 1
  <2>1. /\ IsFiniteSet(Minting \cup {t})
        /\ Cardinality(Minting \cup {t}) \in {Cardinality(Minting), Cardinality(Minting) + 1}
    BY Counting, FS_AddElement
  <2>2. /\ IsFiniteSet(LoggingIn \cup {t})
        /\ Cardinality(LoggingIn \cup {t}) \in {Cardinality(LoggingIn), Cardinality(LoggingIn) + 1}
    BY Counting, FS_AddElement
  <2> QED
    BY <2>1, <2>2, Counting
<1>2. /\ Cardinality(Minting') \in Nat /\ Cardinality(LoggingIn') \in Nat
      /\ \/ /\ Cardinality(Minting') <= Cardinality(Minting \cup {t})
            /\ Cardinality(LoggingIn') <= Cardinality(LoggingIn)
         \/ /\ Cardinality(Minting') <= Cardinality(Minting)
            /\ Cardinality(LoggingIn') <= Cardinality(LoggingIn \cup {t})
  BY <1>1, Counting, FS_Subset, FS_CardinalityType
<1>3. minted \in Nat /\ MaxTokens \in Nat
  BY SessionAssumption DEF StateOK, JarOK
<1>4. minted + Cardinality(Minting) + Cardinality(LoggingIn) < MaxTokens
  BY DEF Budget, Minting, LoggingIn
<1>5. /\ Cardinality(Minting \cup {t}) \in Nat /\ Cardinality(LoggingIn \cup {t}) \in Nat
  BY <1>1, FS_CardinalityType
<1> QED
  BY <1>1, <1>2, <1>3, <1>4, <1>5, Counting DEF Budgeted

(* The token that a request was counted for. *)
LEMMA BudgetMinted ==
  ASSUME StateOK, Budgeted, NEW t,
         \/ t \in Minting /\ Minting' \subseteq Minting \ {t} /\ LoggingIn' \subseteq LoggingIn
         \/ t \in LoggingIn /\ Minting' \subseteq Minting /\ LoggingIn' \subseteq LoggingIn \ {t}
  PROVE  minted < MaxTokens /\ (minted' = minted + 1 => Budgeted')
<1>1. /\ IsFiniteSet(Minting \ {t}) /\ IsFiniteSet(LoggingIn \ {t})
      /\ t \in Minting => Cardinality(Minting \ {t}) = Cardinality(Minting) - 1
      /\ t \in LoggingIn => Cardinality(LoggingIn \ {t}) = Cardinality(LoggingIn) - 1
  BY Counting, FS_RemoveElement
<1>2. Cardinality(Minting \ {t}) \in Nat /\ Cardinality(LoggingIn \ {t}) \in Nat
  BY <1>1, FS_CardinalityType
<1>3. /\ Cardinality(Minting') \in Nat /\ Cardinality(LoggingIn') \in Nat
      /\ \/ /\ t \in Minting
            /\ Cardinality(Minting') <= Cardinality(Minting \ {t})
            /\ Cardinality(LoggingIn') <= Cardinality(LoggingIn)
         \/ /\ t \in LoggingIn
            /\ Cardinality(Minting') <= Cardinality(Minting)
            /\ Cardinality(LoggingIn') <= Cardinality(LoggingIn \ {t})
  BY <1>1, Counting, FS_Subset, FS_CardinalityType
<1>4. minted \in Nat /\ MaxTokens \in Nat
  BY SessionAssumption DEF StateOK, JarOK
<1>5. minted + Cardinality(Minting) + Cardinality(LoggingIn) <= MaxTokens
  BY DEF Budgeted
<1> QED
  BY <1>1, <1>2, <1>3, <1>4, <1>5, Counting DEF Budgeted
-----------------------------------------------------------------------------
(* What holds for a tab that a step leaves alone goes on to hold. *)
LEMMA OthersStayOrderly ==
  ASSUME StateOK, Onward, NEW s \in Tabs, Kept(s), OrderlyTab(s)
  PROVE  OrderlyTab(s)'
<1>1. login[s].token \in 0..minted /\ minted \in Nat
  BY Typed
<1> QED
  BY <1>1 DEF OrderlyTab, Onward, Kept, Asks, Refreshing, Idle

LEMMA OthersStillWait ==
  ASSUME WaitersOK, NEW t \in Tabs, \A s \in Tabs \ {t} : Kept(s),
         \A c \in Calls : call'[t][c].phase \in {"boot", "refreshing"} => refresh'[t].phase # "none"
  PROVE  WaitersOK'
  BY DEF WaitersOK, Kept

LEMMA OpenTabKeepsBase ==
  ASSUME StateOK, Budgeted, Orderly, NEW t \in Tabs, OpenTab(t)
  PROVE  StateOK' /\ Budgeted' /\ OrderlyTab(t)'
<1>1. \A s \in Tabs \ {t} : Kept(s)
  BY TabStepsAreLocal DEF TabStep
<1>2. OrderlyTab(t) /\ cookie \in 0..minted /\ call[t] \in [Calls -> CallRecord]
  BY Typed DEF Orderly, StateOK, CallsOK
<1>3. /\ call'[t] = [call[t] EXCEPT !["me"].phase = "boot"]
      /\ refresh'[t] = [phase |-> "sent", token |-> cookie]
      /\ status'[t] = "loading" /\ access' = access /\ login' = login /\ logout' = logout
      /\ UNCHANGED <<jar, user, access, input, history>>
  BY DEF OpenTab, StateOK, CallsOK, RefreshOK, ProviderOK, input
<1>4. /\ call'[t]["me"].phase = "boot" /\ call'[t]["me"].as = call[t]["me"].as
      /\ call'[t]["api"] = call[t]["api"] /\ call'[t] \in [Calls -> CallRecord]
  BY <1>2, <1>3 DEF Calls, CallRecord
<1>5. StateOK'
  <2>1. JarOK' /\ FormsOK' /\ HistoryOK'
    BY <1>3 DEF StateOK, JarOK, FormsOK, HistoryOK, jar, input, history,
                LoginRecord, LogoutRecord
  <2>2. ProviderOK'
    BY <1>3 DEF OpenTab, StateOK, ProviderOK
  <2>3. CallsOK'
    BY <1>3, <1>4 DEF OpenTab, StateOK, CallsOK, CallRecord
  <2>4. RefreshOK'
    BY <1>2, <1>3 DEF OpenTab, StateOK, RefreshOK, RefreshRecord, jar
  <2>5. WaitersOK'
    BY <1>1, <1>3, OthersStillWait DEF StateOK
  <2> QED
    BY <2>1, <2>2, <2>3, <2>4, <2>5 DEF StateOK
<1>6. Budgeted'
  <2>1. Minting' \subseteq Minting \cup {t} /\ LoggingIn' \subseteq LoggingIn
    BY <1>1, <1>3 DEF Minting, LoggingIn, Kept
  <2> QED
    BY <2>1, <1>3, BudgetSpent DEF OpenTab, jar
<1>7. OrderlyTab(t)'
  BY <1>2, <1>3, <1>4 DEF OpenTab, OrderlyTab, Asks, Refreshing, Idle, Calls, history, jar
<1> QED
  BY <1>5, <1>6, <1>7

LEMMA FetchKeepsBase ==
  ASSUME StateOK, Budgeted, Orderly, NEW t \in Tabs, Fetch(t)
  PROVE  StateOK' /\ Budgeted' /\ OrderlyTab(t)'
<1>1. \A s \in Tabs \ {t} : Kept(s)
  BY TabStepsAreLocal DEF TabStep
<1>2. OrderlyTab(t) /\ access[t] \in Person /\ call[t] \in [Calls -> CallRecord]
  BY Typed DEF Orderly, StateOK, CallsOK
<1>3. /\ call'[t] = [call[t] EXCEPT !["api"] = [phase |-> "sent", as |-> access[t]]]
      /\ UNCHANGED <<jar, provider, refresh, input, history>>
  BY DEF Fetch, SendCall, StateOK, CallsOK
<1>4. /\ call'[t]["api"] = [phase |-> "sent", as |-> access[t]]
      /\ call'[t]["me"] = call[t]["me"] /\ call'[t] \in [Calls -> CallRecord]
  BY <1>2, <1>3 DEF Calls, CallRecord
<1>5. StateOK'
  <2>1. JarOK' /\ ProviderOK' /\ RefreshOK' /\ FormsOK' /\ HistoryOK'
    BY <1>3 DEF StateOK, JarOK, ProviderOK, RefreshOK, FormsOK, HistoryOK, jar, provider, input,
                history, RefreshRecord, LoginRecord, LogoutRecord
  <2>2. CallsOK'
    BY <1>3, <1>4 DEF Fetch, SendCall, StateOK, CallsOK, CallRecord
  <2>3. WaitersOK'
    BY <1>1, <1>3, <1>4, OthersStillWait DEF StateOK, WaitersOK, Calls
  <2> QED
    BY <2>1, <2>2, <2>3 DEF StateOK
<1>6. Budgeted'
  BY <1>3, <1>5, BudgetKept DEF Minting, LoggingIn, input, jar
<1>7. OrderlyTab(t)'
  BY <1>2, <1>3, <1>4
  DEF Fetch, OrderlyTab, Asks, Refreshing, Idle, Calls, history, jar, provider, input
<1> QED
  BY <1>5, <1>6, <1>7

LEMMA AnsweredKeepsBase ==
  ASSUME StateOK, Budgeted, Orderly, NEW t \in Tabs, NEW c \in Calls, Answered(t, c)
  PROVE  StateOK' /\ Budgeted' /\ OrderlyTab(t)'
<1>1. \A s \in Tabs \ {t} : Kept(s)
  BY TabStepsAreLocal DEF TabStep
<1>2. OrderlyTab(t) /\ call[t][c].as \in Person /\ call[t] \in [Calls -> CallRecord]
  BY Typed DEF Orderly, StateOK, CallsOK
<1>3. /\ call'[t] = [call[t] EXCEPT ![c] = NoCall]
      /\ UNCHANGED <<jar, access, refresh, input, history>>
  BY DEF Answered, EndCall, StateOK, CallsOK
<1>4. /\ call'[t][c] = NoCall /\ \A d \in Calls \ {c} : call'[t][d] = call[t][d]
      /\ call'[t] \in [Calls -> CallRecord]
  BY <1>2, <1>3, Nulls
<1>5. StateOK'
  <2>1. JarOK' /\ RefreshOK' /\ FormsOK' /\ HistoryOK'
    BY <1>3 DEF StateOK, JarOK, RefreshOK, FormsOK, HistoryOK, jar, input,
                history, RefreshRecord, LoginRecord, LogoutRecord
  <2>2. CallsOK'
    BY <1>3, <1>4 DEF Answered, EndCall, StateOK, CallsOK, CallRecord
  <2>3. ProviderOK'
    BY <1>2 DEF Answered, StateOK, ProviderOK
  <2>4. WaitersOK'
    BY <1>1, <1>3, <1>4, Nulls, OthersStillWait DEF StateOK, WaitersOK
  <2> QED
    BY <2>1, <2>2, <2>3, <2>4 DEF StateOK
<1>6. Budgeted'
  BY <1>3, <1>5, BudgetKept DEF Minting, LoggingIn, input, jar
<1>7. OrderlyTab(t)'
  <2>1. /\ c = "me" => status'[t] = "authenticated"
        /\ c # "me" => status'[t] = status[t]
    BY DEF Answered, StateOK, ProviderOK
  <2>2. call[t][c].phase \in {"sent", "retried"} /\ access' = access
    BY DEF Answered, OnItsWay
  <2> QED
    BY <1>2, <1>3, <1>4, <2>1, <2>2, Nulls
    DEF OrderlyTab, Asks, Refreshing, Idle, Calls, history, jar, input
<1> QED
  BY <1>5, <1>6, <1>7

-----------------------------------------------------------------------------
(* A call that fails for good: the bootstrap's ends the session. *)
LEMMA RethrowFacts ==
  ASSUME StateOK, NEW t \in Tabs, NEW c \in Calls, Rethrow(t, c)
  PROVE  /\ ProviderOK' /\ CallsOK'
         /\ call'[t][c] = NoCall /\ \A d \in Calls \ {c} : call'[t][d] = call[t][d]
         /\ c = "me" => status'[t] = "unauthenticated" /\ access'[t] = Nobody
         /\ c # "me" => UNCHANGED provider
<1>1. call'[t] = [call[t] EXCEPT ![c] = NoCall] /\ call[t] \in [Calls -> CallRecord]
  BY DEF Rethrow, EndCall, StateOK, CallsOK
<1>2. /\ call'[t][c] = NoCall /\ \A d \in Calls \ {c} : call'[t][d] = call[t][d]
      /\ call'[t] \in [Calls -> CallRecord]
  BY <1>1, Nulls
<1>3. CallsOK'
  BY <1>1, <1>2 DEF Rethrow, EndCall, StateOK, CallsOK, CallRecord
<1>4. ProviderOK'
  BY DEF Rethrow, ClearSession, StateOK, ProviderOK, provider, Person
<1> QED
  BY <1>2, <1>3, <1>4 DEF Rethrow, ClearSession, StateOK, ProviderOK

LEMMA DeniedKeepsBase ==
  ASSUME StateOK, Budgeted, Orderly, NEW t \in Tabs, NEW c \in Calls, Denied(t, c)
  PROVE  StateOK' /\ Budgeted' /\ OrderlyTab(t)'
<1>1. \A s \in Tabs \ {t} : Kept(s)
  BY TabStepsAreLocal DEF TabStep
<1>2. /\ OrderlyTab(t) /\ cookie \in 0..minted /\ minted \in Nat
      /\ call[t] \in [Calls -> CallRecord] /\ call[t][c].phase \in {"sent", "retried"}
  BY Typed DEF Orderly, StateOK, CallsOK, Denied, OnItsWay
<1>3. JarOK' /\ FormsOK' /\ HistoryOK'
  BY DEF Denied, StateOK, JarOK, FormsOK, HistoryOK, jar, input, history,
         LoginRecord, LogoutRecord
<1>4. CASE call[t][c].phase = "sent"
  <2> DEFINE asks == [NoCall EXCEPT !.phase = "refreshing"]
  <2>1. asks \in CallRecord /\ asks.phase = "refreshing"
    BY DEF CallRecord, NoCall, Person
  <2>2. /\ call' = [call EXCEPT ![t][c] = asks] /\ ShareRefresh(t)
        /\ UNCHANGED provider /\ UNCHANGED <<jar, input, history>>
    BY <1>4 DEF Denied
  <2> HIDE DEF asks
  <2>3. call'[t] = [call[t] EXCEPT ![c] = asks]
    BY <2>2 DEF StateOK, CallsOK
  <2>4. /\ call'[t][c] = asks /\ \A d \in Calls \ {c} : call'[t][d] = call[t][d]
        /\ call'[t] \in [Calls -> CallRecord]
    BY <1>2, <2>1, <2>3
  <2>5. /\ RefreshOK' /\ refresh'[t].phase # "none"
        /\ refresh'[t].phase \in {"mint", "answered"} => refresh'[t] = refresh[t]
    BY <1>2, <2>2
    DEF ShareRefresh, Refreshing, StateOK, RefreshOK, RefreshRecord, jar
  <2>6. StateOK'
    <3>1. ProviderOK'
      BY <2>2 DEF StateOK, ProviderOK, provider
    <3>2. CallsOK'
      BY <2>2, <2>4 DEF StateOK, CallsOK, CallRecord
    <3>3. WaitersOK'
      BY <1>1, <2>5, OthersStillWait DEF StateOK
    <3> QED
      BY <1>3, <2>5, <3>1, <3>2, <3>3 DEF StateOK
  <2>7. Budgeted'
    <3>1. CASE Refreshing(t)
      BY <2>2, <2>6, <3>1, BudgetKept DEF ShareRefresh, Minting, LoggingIn, input, jar
    <3>2. CASE ~Refreshing(t)
      <4>1. Minting' \subseteq Minting \cup {t} /\ LoggingIn' \subseteq LoggingIn
        BY <1>1, <2>2 DEF Minting, LoggingIn, Kept, input
      <4> QED
        BY <2>2, <3>2, <4>1, BudgetSpent DEF ShareRefresh, jar
    <3> QED
      BY <3>1, <3>2
  <2>8. OrderlyTab(t)'
    BY <1>2, <1>4, <2>1, <2>2, <2>4, <2>5
    DEF OrderlyTab, Asks, Refreshing, Idle, Calls, history, jar, input, provider
  <2> QED
    BY <2>6, <2>7, <2>8
<1>5. CASE call[t][c].phase # "sent"
  <2>1. Rethrow(t, c) /\ UNCHANGED refresh /\ UNCHANGED <<jar, input, history>>
    BY <1>5 DEF Denied
  <2>2. StateOK'
    <3>1. RefreshOK'
      BY <2>1 DEF StateOK, RefreshOK, RefreshRecord, jar
    <3>2. WaitersOK'
      BY <1>1, <2>1, RethrowFacts, Nulls, OthersStillWait DEF StateOK, WaitersOK
    <3> QED
      BY <1>3, <2>1, <3>1, <3>2, RethrowFacts DEF StateOK
  <2>3. Budgeted'
    BY <2>1, <2>2, BudgetKept DEF Minting, LoggingIn, input, jar
  <2>4. OrderlyTab(t)'
    BY <1>2, <2>1, RethrowFacts, Nulls
    DEF OrderlyTab, Asks, Refreshing, Idle, Calls, history, jar, input, provider
  <2> QED
    BY <2>2, <2>3, <2>4
<1> QED
  BY <1>4, <1>5

LEMMA FaultFacts ==
  ASSUME StateOK, Fault
  PROVE  faults' \in 0..MaxFaults /\ causes' = causes \cup {"failed"} /\ causes' \subseteq Causes
  BY SessionAssumption DEF Fault, Blame, Causes, StateOK, HistoryOK

LEMMA CallFailsKeepsBase ==
  ASSUME StateOK, Budgeted, Orderly, NEW t \in Tabs, NEW c \in Calls, CallFails(t, c)
  PROVE  StateOK' /\ Budgeted' /\ OrderlyTab(t)'
<1>1. \A s \in Tabs \ {t} : Kept(s)
  BY TabStepsAreLocal DEF TabStep
<1>2. /\ OrderlyTab(t) /\ call[t][c].phase \in {"sent", "retried"}
      /\ Rethrow(t, c) /\ Fault /\ UNCHANGED <<jar, refresh, input, signedOut>>
  BY DEF Orderly, CallFails, OnItsWay
<1>3. StateOK'
  <2>1. JarOK' /\ FormsOK' /\ RefreshOK'
    BY <1>2 DEF StateOK, JarOK, FormsOK, RefreshOK, jar, input,
                RefreshRecord, LoginRecord, LogoutRecord
  <2>2. HistoryOK'
    BY <1>2, FaultFacts DEF StateOK, HistoryOK
  <2>3. WaitersOK'
    BY <1>1, <1>2, RethrowFacts, Nulls, OthersStillWait DEF StateOK, WaitersOK
  <2> QED
    BY <1>2, <2>1, <2>2, <2>3, RethrowFacts DEF StateOK
<1>4. Budgeted'
  BY <1>2, <1>3, BudgetKept DEF Minting, LoggingIn, input, jar
<1>5. OrderlyTab(t)'
  BY <1>2, RethrowFacts, FaultFacts, Nulls
  DEF OrderlyTab, Asks, Refreshing, Idle, Calls, jar, input, provider
<1> QED
  BY <1>3, <1>4, <1>5

LEMMA JudgeRefreshKeepsBase ==
  ASSUME StateOK, Budgeted, Orderly, NEW t \in Tabs, JudgeRefresh(t)
  PROVE  StateOK' /\ Budgeted' /\ OrderlyTab(t)'
<1>1. (\A s \in Tabs \ {t} : Kept(s)) /\ Onward
  BY TabStepsAreLocal DEF TabStep
<1>2. /\ OrderlyTab(t) /\ refresh[t] \in RefreshRecord /\ login[t].token \in 0..minted
      /\ minted \in Nat
  BY Typed DEF Orderly
<1>3. /\ UNCHANGED <<cookie, minted, provider, call, input, faults, signedOut>>
      /\ Revocation /\ refresh[t].phase = "sent"
      /\ \/ Refused(t) /\ refresh'[t] = [refresh[t] EXCEPT !.phase = "denied"]
         \/ /\ Granted(t) /\ refresh'[t] = [refresh[t] EXCEPT !.phase = "mint"]
            /\ refresh[t].token # 0
  BY JudgeFacts DEF JudgeRefresh, Granted, Refused, StateOK, RefreshOK
<1>4. /\ refresh'[t] \in RefreshRecord /\ refresh'[t].phase \in {"denied", "mint"}
      /\ refresh'[t].token = refresh[t].token
      /\ refresh'[t].phase = "mint" => refresh[t].token # 0
  BY <1>2, <1>3 DEF RefreshRecord
<1>5. StateOK'
  <2>1. JarOK'
    BY <1>3 DEF StateOK, JarOK, Revocation
  <2>2. ProviderOK' /\ FormsOK' /\ CallsOK'
    BY <1>3 DEF StateOK, ProviderOK, FormsOK, CallsOK, provider, input,
                CallRecord, LoginRecord, LogoutRecord
  <2>3. RefreshOK'
    BY <1>3, <1>4 DEF StateOK, RefreshOK, RefreshRecord, Granted, Refused
  <2>4. HistoryOK'
    BY <1>3, JudgeFacts DEF StateOK, HistoryOK, Causes, Granted
  <2>5. WaitersOK'
    BY <1>1, <1>4, OthersStillWait DEF StateOK
  <2> QED
    BY <2>1, <2>2, <2>3, <2>4, <2>5 DEF StateOK
<1>6. Budgeted'
  <2>1. Minting' \subseteq Minting
    BY <1>1, <1>3 DEF Minting, Kept
  <2> QED
    BY <1>3, <1>5, <2>1, BudgetKept DEF LoggingIn, input
<1>7. OrderlyTab(t)'
  BY <1>1, <1>2, <1>3, <1>4
  DEF OrderlyTab, Asks, Refreshing, Idle, input, provider, Onward
<1> QED
  BY <1>5, <1>6, <1>7

LEMMA MintRefreshFacts ==
  ASSUME StateOK, Budgeted, Orderly, NEW t \in Tabs, MintRefresh(t)
  PROVE  /\ refresh[t].phase = "mint" /\ refresh[t].token \in 1..minted /\ minted < MaxTokens
         /\ JarOK' /\ minted' = minted + 1 /\ minted + 1 \in 1..minted'
         /\ \A k \in 1..minted : k \in 1..minted' /\ tokens'[k] = tokens[k]
         /\ tokens'[minted + 1] = [tokens[refresh[t].token] EXCEPT !.state = "live"]
         /\ refresh' = [refresh EXCEPT ![t] = [phase |-> "answered", token |-> minted + 1]]
         /\ refresh'[t] = [phase |-> "answered", token |-> minted + 1]
         /\ Budgeted' /\ UNCHANGED <<cookie, provider, call, input, history>>
<1> DEFINE k == refresh[t].token
<1>1. /\ refresh[t].phase = "mint" /\ Mint(tokens[k].user, tokens[k].family)
      /\ refresh' = [refresh EXCEPT ![t] = [phase |-> "answered", token |-> minted + 1]]
      /\ refresh'[t] = [phase |-> "answered", token |-> minted + 1]
      /\ UNCHANGED <<cookie, provider, call, input, history>>
  BY DEF MintRefresh, StateOK, RefreshOK
<1>2. k \in 1..minted
  BY <1>1, Typed DEF Orderly, OrderlyTab
<1>3. tokens[k] \in Row /\ tokens[k].user \in Users /\ tokens[k].family \in Families
  BY <1>2, Typed
<1>4. minted < MaxTokens /\ (minted' = minted + 1 => Budgeted')
  <2>1. t \in Minting /\ Minting' \subseteq Minting \ {t} /\ LoggingIn' \subseteq LoggingIn
    BY <1>1, TabStepsAreLocal DEF TabStep, Minting, LoggingIn, input, Kept
  <2> QED
    BY <2>1, BudgetMinted
<1>5. /\ JarOK' /\ minted' = minted + 1 /\ minted + 1 \in 1..minted'
      /\ \A i \in 1..minted : i \in 1..minted' /\ tokens'[i] = tokens[i]
      /\ tokens'[minted + 1] = [user |-> tokens[k].user, family |-> tokens[k].family,
                                state |-> "live"]
  BY <1>1, <1>3, <1>4, MintFacts DEF StateOK
<1>6. [user |-> tokens[k].user, family |-> tokens[k].family, state |-> "live"]
          = [tokens[k] EXCEPT !.state = "live"]
  BY <1>3 DEF Row
<1> QED
  BY <1>1, <1>2, <1>4, <1>5, <1>6

LEMMA MintRefreshKeepsBase ==
  ASSUME StateOK, Budgeted, Orderly, NEW t \in Tabs, MintRefresh(t)
  PROVE  StateOK' /\ Budgeted' /\ OrderlyTab(t)'
<1>1. (\A s \in Tabs \ {t} : Kept(s)) /\ Onward
  BY TabStepsAreLocal DEF TabStep
<1>2. /\ OrderlyTab(t) /\ login[t].token \in 0..minted /\ minted \in Nat
  BY Typed DEF Orderly
<1>3. /\ refresh' = [refresh EXCEPT ![t] = [phase |-> "answered", token |-> minted + 1]]
      /\ refresh'[t] = [phase |-> "answered", token |-> minted + 1]
      /\ refresh[t].phase = "mint" /\ JarOK' /\ minted' = minted + 1
      /\ UNCHANGED <<cookie, provider, call, input, history>>
  BY MintRefreshFacts
<1>4. StateOK'
  <2>1. ProviderOK' /\ CallsOK' /\ HistoryOK'
    BY <1>3 DEF StateOK, ProviderOK, CallsOK, HistoryOK, provider, history, CallRecord
  <2>2. FormsOK'
    BY <1>3, MoreTokens DEF StateOK, FormsOK, input
  <2>3. RefreshOK'
    <3>1. [phase |-> "answered", token |-> minted + 1] \in RefreshRecord'
      BY <1>2, <1>3 DEF RefreshRecord
    <3>2. refresh \in [Tabs -> RefreshRecord']
      BY <1>3, MoreTokens DEF StateOK, RefreshOK
    <3> QED
      BY <1>3, <3>1, <3>2 DEF RefreshOK
  <2>4. WaitersOK'
    BY <1>1, <1>3, OthersStillWait DEF StateOK
  <2> QED
    BY <1>3, <2>1, <2>2, <2>3, <2>4 DEF StateOK
<1>5. OrderlyTab(t)'
  BY <1>1, <1>2, <1>3
  DEF OrderlyTab, Asks, Refreshing, Idle, input, provider, history, Onward
<1> QED
  BY <1>4, <1>5, MintRefreshFacts
-----------------------------------------------------------------------------
LEMMA RefreshedFacts ==
  ASSUME StateOK, Orderly, NEW t \in Tabs, Refreshed(t)
  PROVE  LET k == refresh[t].token IN
         /\ k \in 1..minted /\ refresh[t].phase = "answered" /\ cookie' = k
         /\ tokens[k].user \in Users
         /\ access' = [access EXCEPT ![t] = tokens[k].user] /\ access'[t] = tokens[k].user
         /\ \A c \in Calls :
               /\ call[t][c].phase = "boot" =>
                     call'[t][c] = [phase |-> "sent", as |-> tokens[k].user]
               /\ call[t][c].phase = "refreshing" =>
                     call'[t][c] = [phase |-> "retried", as |-> tokens[k].user]
               /\ call[t][c].phase \notin {"boot", "refreshing"} => call'[t][c] = call[t][c]
         /\ CallsOK' /\ refresh' = [refresh EXCEPT ![t] = NoRefresh] /\ refresh'[t] = NoRefresh
         /\ UNCHANGED <<tokens, minted, status, user, input>>
<1> DEFINE k == refresh[t].token
           owner == tokens[k].user
           calls == [c \in Calls |->
                       CASE call[t][c].phase = "boot" -> [phase |-> "sent", as |-> owner]
                         [] call[t][c].phase = "refreshing" -> [phase |-> "retried", as |-> owner]
                         [] OTHER -> call[t][c]]
<1>1. k \in 1..minted /\ refresh[t].phase = "answered"
  BY Typed DEF Refreshed, Orderly, OrderlyTab
<1>2. owner \in Users /\ owner \in Person /\ call[t] \in [Calls -> CallRecord]
  BY <1>1, Typed DEF Person, StateOK, CallsOK
<1>3. call' = [call EXCEPT ![t] = calls] /\ call'[t] = calls
  BY DEF Refreshed, StateOK, CallsOK
<1>4. \A c \in Calls :
         /\ call[t][c].phase = "boot" => calls[c] = [phase |-> "sent", as |-> owner]
         /\ call[t][c].phase = "refreshing" => calls[c] = [phase |-> "retried", as |-> owner]
         /\ call[t][c].phase \notin {"boot", "refreshing"} => calls[c] = call[t][c]
  OBVIOUS
<1>5. calls \in [Calls -> CallRecord]
  <2>1. /\ [phase |-> "sent", as |-> owner] \in CallRecord
        /\ [phase |-> "retried", as |-> owner] \in CallRecord
    BY <1>2 DEF CallRecord
  <2> QED
    BY <1>2, <1>4, <2>1
<1> HIDE DEF calls
<1>6. CallsOK'
  BY <1>3, <1>5 DEF StateOK, CallsOK, CallRecord
<1> QED
  BY <1>1, <1>2, <1>3, <1>4, <1>6 DEF Refreshed, EndRefresh, StateOK, RefreshOK, ProviderOK

LEMMA RefreshedKeepsBase ==
  ASSUME StateOK, Budgeted, Orderly, NEW t \in Tabs, Deliver(t), Refreshed(t)
  PROVE  StateOK' /\ Budgeted' /\ OrderlyTab(t)'
<1>1. \A s \in Tabs \ {t} : Kept(s)
  BY TabStepsAreLocal DEF TabStep
<1>2. OrderlyTab(t) /\ minted \in Nat /\ UNCHANGED history
  BY Typed DEF Orderly, Deliver
<1> DEFINE k == refresh[t].token
           owner == tokens[k].user
<1>0. /\ k \in 1..minted /\ refresh[t].phase = "answered" /\ cookie' = k /\ owner \in Users
      /\ access' = [access EXCEPT ![t] = owner] /\ access'[t] = owner
      /\ \A c \in Calls :
            /\ call[t][c].phase = "boot" => call'[t][c] = [phase |-> "sent", as |-> owner]
            /\ call[t][c].phase = "refreshing" =>
                  call'[t][c] = [phase |-> "retried", as |-> owner]
            /\ call[t][c].phase \notin {"boot", "refreshing"} => call'[t][c] = call[t][c]
      /\ CallsOK' /\ refresh' = [refresh EXCEPT ![t] = NoRefresh] /\ refresh'[t] = NoRefresh
      /\ UNCHANGED <<tokens, minted, status, user, input>>
  BY RefreshedFacts
<1> HIDE DEF k, owner
<1>3. StateOK'
  <2>1. JarOK' /\ FormsOK' /\ HistoryOK'
    BY <1>0, <1>2 DEF StateOK, JarOK, FormsOK, HistoryOK, input, history,
                      LoginRecord, LogoutRecord
  <2>2. ProviderOK'
    BY <1>0 DEF StateOK, ProviderOK, Person
  <2>3. RefreshOK'
    BY <1>2, <1>0, Nulls DEF StateOK, RefreshOK, RefreshRecord
  <2>4. WaitersOK'
    <3>1. \A c \in Calls : call'[t][c].phase \notin {"boot", "refreshing"}
      BY <1>0
    <3> QED
      BY <1>1, <3>1, OthersStillWait DEF StateOK
  <2> QED
    BY <2>1, <2>2, <2>3, <2>4, <1>0 DEF StateOK
<1>4. Budgeted'
  <2>1. Minting' \subseteq Minting
    BY <1>1, <1>0, Nulls DEF Minting, Kept
  <2> QED
    BY <1>3, <2>1, <1>0, BudgetKept DEF LoggingIn, input
<1>5. OrderlyTab(t)'
  <2>1. Refreshing(t) /\ status[t] # "closed"
    BY <1>2, <1>0 DEF Refreshing, OrderlyTab, Asks
  <2>2. /\ login' = login /\ logout' = logout /\ tokens' = tokens /\ causes' = causes
        /\ status' = status
    BY <1>0, <1>2 DEF input, history
  <2>3. \A c \in Calls :
           /\ Idle(t, c)' => Idle(t, c) /\ call'[t][c] = call[t][c]
           /\ Idle(t, c) => Idle(t, c)'
    BY <1>0 DEF Idle
  <2> QED
    BY <1>2, <2>1, <2>2, <2>3, <1>0, Nulls DEF OrderlyTab, Asks, Refreshing, Calls
<1> QED
  BY <1>3, <1>4, <1>5

LEMMA RefreshFailedFacts ==
  ASSUME StateOK, NEW t \in Tabs, RefreshFailed(t)
  PROVE  /\ access'[t] = Nobody /\ status'[t] = "unauthenticated" /\ ProviderOK'
         /\ \A c \in Calls :
               /\ call[t][c].phase \in {"boot", "refreshing"} => call'[t][c] = NoCall
               /\ call[t][c].phase \notin {"boot", "refreshing"} => call'[t][c] = call[t][c]
         /\ CallsOK' /\ RefreshOK' /\ refresh'[t] = NoRefresh
         /\ UNCHANGED <<jar, input>>
<1> DEFINE calls == [c \in Calls |->
              IF call[t][c].phase \in {"boot", "refreshing"} THEN NoCall ELSE call[t][c]]
<1>1. call' = [call EXCEPT ![t] = calls] /\ call'[t] = calls /\ call[t] \in [Calls -> CallRecord]
  BY DEF RefreshFailed, StateOK, CallsOK
<1>2. calls \in [Calls -> CallRecord]
  BY <1>1, Nulls
<1>3. \A c \in Calls :
         /\ call[t][c].phase \in {"boot", "refreshing"} => calls[c] = NoCall
         /\ call[t][c].phase \notin {"boot", "refreshing"} => calls[c] = call[t][c]
  OBVIOUS
<1> HIDE DEF calls
<1>4. CallsOK'
  BY <1>1, <1>2 DEF StateOK, CallsOK, CallRecord
<1>5. access'[t] = Nobody /\ status'[t] = "unauthenticated" /\ ProviderOK'
  BY DEF RefreshFailed, ClearSession, StateOK, ProviderOK, Person
<1>6. UNCHANGED <<jar, input>> /\ refresh'[t] = NoRefresh /\ RefreshOK'
  <2>1. minted \in Nat
    BY Typed
  <2>2. UNCHANGED <<jar, input>> /\ refresh' = [refresh EXCEPT ![t] = NoRefresh]
    BY DEF RefreshFailed, EndRefresh
  <2> QED
    BY <2>1, <2>2, Nulls DEF StateOK, RefreshOK, RefreshRecord, jar
<1> QED
  BY <1>1, <1>3, <1>4, <1>5, <1>6

(* Its own history apart: "denied" leaves it alone, a failure is blamed. *)
LEMMA RefreshFailedKeepsBase ==
  ASSUME StateOK, Budgeted, Orderly, NEW t \in Tabs, RefreshFailed(t), TabStep(t), HistoryOK',
         refresh[t].phase # "none"
  PROVE  StateOK' /\ Budgeted' /\ OrderlyTab(t)'
<1>1. (\A s \in Tabs \ {t} : Kept(s)) /\ Onward
  BY TabStepsAreLocal
<1>2. OrderlyTab(t)
  BY DEF Orderly
<1>3. StateOK'
  <2>1. JarOK' /\ FormsOK'
    BY RefreshFailedFacts DEF StateOK, JarOK, FormsOK, jar, input, LoginRecord, LogoutRecord
  <2>2. WaitersOK'
    <3>1. \A c \in Calls : call'[t][c].phase \notin {"boot", "refreshing"}
      BY RefreshFailedFacts, Nulls
    <3> QED
      BY <1>1, <3>1, OthersStillWait DEF StateOK
  <2> QED
    BY <2>1, <2>2, RefreshFailedFacts DEF StateOK
<1>4. Budgeted'
  <2>1. Minting' \subseteq Minting
    BY <1>1, RefreshFailedFacts, Nulls DEF Minting, Kept
  <2> QED
    BY <1>3, <2>1, RefreshFailedFacts, BudgetKept DEF LoggingIn, input, jar
<1>5. OrderlyTab(t)'
  <2>1. /\ login'[t] = login[t] /\ logout'[t] = logout[t] /\ tokens' = tokens
        /\ causes \subseteq causes'
    BY <1>1, RefreshFailedFacts DEF input, jar, Onward
  <2>2. call'[t]["me"].phase # "idle" => "overtaken" \in causes'
    BY <1>2, <2>1, RefreshFailedFacts, Nulls DEF OrderlyTab, Refreshing, Idle, Calls
  <2> QED
    BY <1>2, <2>1, <2>2, RefreshFailedFacts, Nulls
    DEF OrderlyTab, Asks, Refreshing, Idle, Calls
<1> QED
  BY <1>3, <1>4, <1>5

LEMMA DeliverKeepsBase ==
  ASSUME StateOK, Budgeted, Orderly, NEW t \in Tabs, Deliver(t)
  PROVE  StateOK' /\ Budgeted' /\ OrderlyTab(t)'
<1>1. CASE Refreshed(t)
  BY <1>1, RefreshedKeepsBase
<1>2. CASE RefreshFailed(t) /\ ~Refreshed(t)
  <2>1. TabStep(t) /\ HistoryOK' /\ refresh[t].phase = "denied"
    BY <1>2 DEF TabStep, Deliver, StateOK, HistoryOK, history
  <2> QED
    BY <1>2, <2>1, RefreshFailedKeepsBase
<1> QED
  BY <1>1, <1>2 DEF Deliver

LEMMA RefreshBreaksKeepsBase ==
  ASSUME StateOK, Budgeted, Orderly, NEW t \in Tabs, RefreshBreaks(t)
  PROVE  StateOK' /\ Budgeted' /\ OrderlyTab(t)'
<1>1. RefreshFailed(t) /\ TabStep(t) /\ HistoryOK' /\ refresh[t].phase \in {"sent", "mint", "answered"}
  BY FaultFacts DEF TabStep, RefreshBreaks, StateOK, HistoryOK
<1> QED
  BY <1>1, RefreshFailedKeepsBase
-----------------------------------------------------------------------------
(* A request of a form that is done with, or moves on. *)
LEMMA SubmitLoginKeepsBase ==
  ASSUME StateOK, Budgeted, Orderly, NEW t \in Tabs, SubmitLogin(t)
  PROVE  StateOK' /\ Budgeted' /\ OrderlyTab(t)'
<1>1. \A s \in Tabs \ {t} : Kept(s)
  BY TabStepsAreLocal DEF TabStep
<1>2. PICK u \in Users :
          login' = [login EXCEPT ![t] = [NoForm EXCEPT !.phase = "sent", !.user = u]]
  BY DEF SubmitLogin
<1> DEFINE form == [NoForm EXCEPT !.phase = "sent", !.user = u]
<1>3. form \in LoginRecord /\ form.phase = "sent" /\ form.user = u
  <2>1. u \in Person /\ minted \in Nat
    BY Typed DEF Person
  <2> QED
    <3>1. NoForm \in LoginRecord
      BY <2>1, Nulls
    <3> QED
      BY <2>1, <3>1 DEF LoginRecord
<1>4. login' = [login EXCEPT ![t] = form] /\ login'[t] = form
  BY <1>2 DEF StateOK, FormsOK
<1> HIDE DEF form
<1>5. /\ Budget /\ forms' \subseteq {"login", "logout"}
      /\ UNCHANGED <<jar, provider, call, refresh, logout, history>>
  BY DEF SubmitLogin, Submit, StateOK, FormsOK
<1>6. StateOK'
  <2>1. /\ JarOK' /\ ProviderOK' /\ CallsOK' /\ RefreshOK' /\ HistoryOK' /\ WaitersOK'
    BY <1>5 DEF StateOK, JarOK, ProviderOK, CallsOK, RefreshOK, HistoryOK, WaitersOK,
                jar, provider, history, CallRecord, RefreshRecord
  <2>2. FormsOK'
    BY <1>3, <1>4, <1>5 DEF StateOK, FormsOK, LoginRecord, LogoutRecord, jar
  <2> QED
    BY <2>1, <2>2 DEF StateOK
<1>7. Budgeted'
  <2>1. Minting' \subseteq Minting /\ LoggingIn' \subseteq LoggingIn \cup {t}
    BY <1>1, <1>5 DEF Minting, LoggingIn, Kept
  <2> QED
    BY <1>5, <2>1, BudgetSpent DEF jar
<1>8. OrderlyTab(t)'
  BY <1>3, <1>4, <1>5 DEF Orderly, OrderlyTab, Asks, Refreshing, Idle, jar, provider, history
<1> QED
  BY <1>6, <1>7, <1>8

LEMMA ServeLoginFacts ==
  ASSUME StateOK, Budgeted, Orderly, NEW t \in Tabs, ServeLogin(t)
  PROVE  /\ login[t].phase = "sent" /\ login[t].user \in Users /\ minted < MaxTokens
         /\ JarOK' /\ minted' = minted + 1 /\ minted + 1 \in 1..minted'
         /\ \A k \in 1..minted : k \in 1..minted' /\ tokens'[k] = tokens[k]
         /\ tokens'[minted + 1] = [user |-> login[t].user, family |-> minted + 1, state |-> "live"]
         /\ login' = [login EXCEPT ![t] = [login[t] EXCEPT !.phase = "answered",
                                                           !.token = minted + 1]]
         /\ login'[t].phase = "answered" /\ login'[t].user = login[t].user
         /\ login'[t].token = minted + 1
         /\ Budgeted' /\ UNCHANGED <<cookie, provider, call, refresh, logout, history, forms>>
<1>1. login[t].phase = "sent" /\ login[t].user \in Users /\ Mint(login[t].user, minted + 1)
  BY DEF ServeLogin, Orderly, OrderlyTab
<1>2. /\ login' = [login EXCEPT ![t] = [login[t] EXCEPT !.phase = "answered",
                                                        !.token = minted + 1]]
      /\ login'[t].phase = "answered" /\ login'[t].user = login[t].user
      /\ login'[t].token = minted + 1
  <2>1. login[t] \in LoginRecord /\ login \in [Tabs -> LoginRecord]
    BY Typed DEF StateOK, FormsOK
  <2>2. login' = [login EXCEPT ![t] = [login[t] EXCEPT !.phase = "answered",
                                                       !.token = minted + 1]]
    BY <2>1 DEF ServeLogin
  <2>3. login'[t] = [login[t] EXCEPT !.phase = "answered", !.token = minted + 1]
    BY <2>1, <2>2
  <2> QED
    BY <2>1, <2>2, <2>3 DEF LoginRecord
<1>3. UNCHANGED <<cookie, provider, call, refresh, logout, history, forms>>
  BY DEF ServeLogin
<1>4. minted < MaxTokens /\ (minted' = minted + 1 => Budgeted')
  <2>1. t \in LoggingIn /\ Minting' \subseteq Minting /\ LoggingIn' \subseteq LoggingIn \ {t}
    <3>1. \A s \in Tabs \ {t} : login'[s] = login[s]
      BY <1>2
    <3> QED
      BY <1>1, <1>2, <1>3, <3>1 DEF Minting, LoggingIn
  <2> QED
    BY <2>1, BudgetMinted
<1>5. minted + 1 \in Families
  BY <1>4, Typed DEF Families
<1>6. /\ JarOK' /\ minted' = minted + 1 /\ minted + 1 \in 1..minted'
      /\ \A i \in 1..minted : i \in 1..minted' /\ tokens'[i] = tokens[i]
      /\ tokens'[minted + 1] = [user |-> login[t].user, family |-> minted + 1, state |-> "live"]
  BY <1>1, <1>3, <1>4, <1>5, MintFacts DEF StateOK
<1> QED
  BY <1>1, <1>2, <1>3, <1>4, <1>6

LEMMA ServeLoginKeepsBase ==
  ASSUME StateOK, Budgeted, Orderly, NEW t \in Tabs, ServeLogin(t)
  PROVE  StateOK' /\ Budgeted' /\ OrderlyTab(t)'
<1> DEFINE answer == [login[t] EXCEPT !.phase = "answered", !.token = minted + 1]
<1>1. /\ login[t].user \in Users /\ JarOK' /\ minted' = minted + 1
      /\ tokens'[minted + 1] = [user |-> login[t].user, family |-> minted + 1, state |-> "live"]
      /\ login' = [login EXCEPT ![t] = answer] /\ login'[t].phase = "answered"
      /\ login'[t].user = login[t].user /\ login'[t].token = minted + 1
      /\ UNCHANGED <<cookie, provider, call, refresh, logout, history, forms>>
  BY ServeLoginFacts
<1>2. answer \in LoginRecord' /\ minted \in Nat
  <2>1. minted \in Nat /\ login[t] \in LoginRecord'
    BY <1>1, Typed, MoreTokens DEF StateOK
  <2>2. minted + 1 \in 0..minted'
    BY <1>1, <2>1
  <2> QED
    BY <2>1, <2>2 DEF LoginRecord
<1> HIDE DEF answer
<1>3. StateOK'
  <2>1. ProviderOK' /\ CallsOK' /\ HistoryOK' /\ WaitersOK'
    BY <1>1 DEF StateOK, ProviderOK, CallsOK, HistoryOK, WaitersOK, provider, history, CallRecord
  <2>2. RefreshOK'
    BY <1>1, MoreTokens DEF StateOK, RefreshOK
  <2>3. FormsOK'
    <3>1. /\ login \in [Tabs -> LoginRecord'] /\ logout \in [Tabs -> LogoutRecord']
          /\ forms \subseteq {"login", "logout"}
      BY <1>1, MoreTokens DEF StateOK, FormsOK
    <3> QED
      BY <1>1, <1>2, <3>1 DEF FormsOK
  <2> QED
    BY <1>1, <2>1, <2>2, <2>3 DEF StateOK
<1>4. OrderlyTab(t)'
  <2>1. minted + 1 # 0 /\ tokens'[minted + 1].user = login[t].user
    BY <1>1, <1>2
  <2> QED
    BY <1>1, <1>2, <2>1 DEF Orderly, OrderlyTab, Asks, Refreshing, Idle, provider, history
<1> QED
  BY <1>3, <1>4, ServeLoginFacts

LEMMA LoggedInFacts ==
  ASSUME StateOK, Orderly, NEW t \in Tabs, LoggedIn(t)
  PROVE  LET u == login[t].user IN
         /\ login[t].phase = "answered" /\ login[t].token \in 1..minted /\ u \in Users
         /\ tokens[login[t].token].user = u /\ cookie' = login[t].token
         /\ access'[t] = u /\ user'[t] = u /\ status'[t] = "authenticated" /\ ProviderOK'
         /\ login'[t] = NoForm /\ login' = [login EXCEPT ![t] = NoForm] /\ signedOut' = FALSE
         /\ causes' = causes \cup Confusion(t, u)
         /\ UNCHANGED <<tokens, minted, call, refresh, logout, faults, forms>>
<1>1. /\ login[t].phase = "answered" /\ login[t].token \in 1..minted /\ login[t].user \in Users
      /\ tokens[login[t].token].user = login[t].user
  BY Typed DEF LoggedIn, Orderly, OrderlyTab
<1>2. /\ access'[t] = login[t].user /\ user'[t] = login[t].user /\ status'[t] = "authenticated"
      /\ ProviderOK'
  BY <1>1 DEF LoggedIn, StateOK, ProviderOK, Person
<1> QED
  BY <1>1, <1>2 DEF LoggedIn, Blame, StateOK, FormsOK

LEMMA LoggedInKeepsBase ==
  ASSUME StateOK, Budgeted, Orderly, NEW t \in Tabs, LoggedIn(t)
  PROVE  StateOK' /\ Budgeted' /\ OrderlyTab(t)'
<1>1. \A s \in Tabs \ {t} : Kept(s)
  BY TabStepsAreLocal DEF TabStep
<1>2. /\ login[t].phase = "answered" /\ login[t].token \in 1..minted
      /\ cookie' = login[t].token /\ status'[t] = "authenticated" /\ ProviderOK'
      /\ login'[t] = NoForm /\ login' = [login EXCEPT ![t] = NoForm] /\ signedOut' = FALSE
      /\ causes' = causes \cup Confusion(t, login[t].user)
      /\ UNCHANGED <<tokens, minted, call, refresh, logout, faults, forms>>
  BY LoggedInFacts
<1>3. /\ Confusion(t, login[t].user) \subseteq Causes
      /\ Bootstraps(t) => "overtaken" \in Confusion(t, login[t].user)
  BY DEF Confusion, Causes
<1>4. StateOK'
  <2>1. CallsOK' /\ RefreshOK' /\ WaitersOK'
    BY <1>2 DEF StateOK, CallsOK, RefreshOK, WaitersOK, CallRecord, RefreshRecord
  <2>2. JarOK'
    BY <1>2 DEF StateOK, JarOK
  <2>3. HistoryOK'
    BY <1>2, <1>3 DEF StateOK, HistoryOK
  <2>4. FormsOK'
    BY <1>2, Typed, Nulls DEF StateOK, FormsOK, LoginRecord, LogoutRecord
  <2> QED
    BY <1>2, <2>1, <2>2, <2>3, <2>4 DEF StateOK
<1>5. Budgeted'
  <2>1. LoggingIn' \subseteq LoggingIn
    BY <1>1, <1>2, Nulls DEF LoggingIn, Kept
  <2> QED
    BY <1>2, <1>4, <2>1, BudgetKept DEF Minting
<1>6. OrderlyTab(t)'
  BY <1>2, <1>3, Nulls DEF Orderly, OrderlyTab, Asks, Bootstraps, Refreshing, Idle
<1> QED
  BY <1>4, <1>5, <1>6

LEMMA LoginFailsKeepsBase ==
  ASSUME StateOK, Budgeted, Orderly, NEW t \in Tabs, LoginFails(t)
  PROVE  StateOK' /\ Budgeted' /\ OrderlyTab(t)'
<1>1. \A s \in Tabs \ {t} : Kept(s)
  BY TabStepsAreLocal DEF TabStep
<1>2. /\ Fault /\ login' = [login EXCEPT ![t] = NoForm] /\ login'[t] = NoForm
      /\ UNCHANGED <<jar, provider, call, refresh, logout, signedOut, forms>>
  BY DEF LoginFails, StateOK, FormsOK
<1>3. StateOK'
  <2>1. JarOK' /\ ProviderOK' /\ CallsOK' /\ RefreshOK' /\ WaitersOK'
    BY <1>2 DEF StateOK, JarOK, ProviderOK, CallsOK, RefreshOK, WaitersOK, jar, provider,
                CallRecord, RefreshRecord
  <2>2. HistoryOK'
    BY <1>2, FaultFacts DEF StateOK, HistoryOK
  <2>3. FormsOK'
    BY <1>2, Typed, Nulls DEF StateOK, FormsOK, LoginRecord, LogoutRecord, jar
  <2> QED
    BY <2>1, <2>2, <2>3 DEF StateOK
<1>4. Budgeted'
  <2>1. LoggingIn' \subseteq LoggingIn
    BY <1>1, <1>2, Nulls DEF LoggingIn, Kept
  <2> QED
    BY <1>2, <1>3, <2>1, BudgetKept DEF Minting, jar
<1>5. OrderlyTab(t)'
  BY <1>2, FaultFacts, Nulls DEF Orderly, OrderlyTab, Asks, Refreshing, Idle, provider, jar
<1> QED
  BY <1>3, <1>4, <1>5

LEMMA ClickLogoutKeepsBase ==
  ASSUME StateOK, Budgeted, Orderly, NEW t \in Tabs, ClickLogout(t)
  PROVE  StateOK' /\ Budgeted' /\ OrderlyTab(t)'
<1> DEFINE form == [NoForm EXCEPT !.phase = "sent", !.token = cookie]
<1>1. form \in LogoutRecord /\ form.phase = "sent"
  BY Typed DEF NoForm, LogoutRecord
<1>2. /\ logout' = [logout EXCEPT ![t] = form] /\ logout'[t] = form
      /\ status[t] = "authenticated" /\ forms' \subseteq {"login", "logout"}
      /\ UNCHANGED <<jar, provider, call, refresh, login, history>>
  BY DEF ClickLogout, Submit, StateOK, FormsOK
<1> HIDE DEF form
<1>3. StateOK'
  <2>1. /\ JarOK' /\ ProviderOK' /\ CallsOK' /\ RefreshOK' /\ HistoryOK' /\ WaitersOK'
    BY <1>2 DEF StateOK, JarOK, ProviderOK, CallsOK, RefreshOK, HistoryOK, WaitersOK,
                jar, provider, history, CallRecord, RefreshRecord
  <2>2. FormsOK'
    BY <1>1, <1>2 DEF StateOK, FormsOK, LoginRecord, LogoutRecord, jar
  <2> QED
    BY <2>1, <2>2 DEF StateOK
<1>4. Budgeted'
  BY <1>2, <1>3, BudgetKept DEF Minting, LoggingIn, jar
<1>5. OrderlyTab(t)'
  BY <1>1, <1>2 DEF Orderly, OrderlyTab, Asks, Refreshing, Idle, jar, provider, history
<1> QED
  BY <1>3, <1>4, <1>5

LEMMA ServeLogoutKeepsBase ==
  ASSUME StateOK, Budgeted, Orderly, NEW t \in Tabs, ServeLogout(t)
  PROVE  StateOK' /\ Budgeted' /\ OrderlyTab(t)'
<1>1. Revocation
  BY ServeLogoutIsRevocation
<1>2. /\ logout' = [logout EXCEPT ![t] = [logout[t] EXCEPT !.phase = "answered"]]
      /\ logout[t].phase = "sent" /\ causes' = causes \cup {"logout"}
      /\ UNCHANGED <<cookie, minted, provider, call, refresh, login, faults, signedOut, forms>>
  BY DEF ServeLogout, Blame, StateOK, FormsOK
<1>3. /\ [logout[t] EXCEPT !.phase = "answered"] \in LogoutRecord
      /\ login[t].token \in 0..minted /\ minted \in Nat
  BY Typed DEF LogoutRecord
<1>4. StateOK'
  <2>1. JarOK'
    BY <1>1, <1>2 DEF StateOK, JarOK, Revocation
  <2>2. ProviderOK' /\ CallsOK' /\ RefreshOK' /\ WaitersOK'
    BY <1>2 DEF StateOK, ProviderOK, CallsOK, RefreshOK, WaitersOK, provider,
                CallRecord, RefreshRecord
  <2>3. FormsOK' /\ HistoryOK'
    BY <1>2, <1>3 DEF StateOK, FormsOK, HistoryOK, LoginRecord, LogoutRecord, Causes
  <2> QED
    BY <2>1, <2>2, <2>3 DEF StateOK
<1>5. Budgeted'
  BY <1>2, <1>4, BudgetKept DEF Minting, LoggingIn
<1>6. OrderlyTab(t)'
  <2>1. logout[t].phase # "none" /\ "logout" \in causes' /\ causes \subseteq causes'
    BY <1>2
  <2> QED
    BY <1>1, <1>2, <1>3, <2>1
    DEF Orderly, OrderlyTab, Asks, Refreshing, Idle, provider, Revocation
<1> QED
  BY <1>4, <1>5, <1>6

LEMMA EndLogoutFacts ==
  ASSUME StateOK, NEW t \in Tabs, EndLogout(t)
  PROVE  /\ access'[t] = Nobody /\ user'[t] = Nobody /\ status'[t] = "unauthenticated"
         /\ ProviderOK' /\ logout'[t] = NoForm /\ logout' = [logout EXCEPT ![t] = NoForm]
  BY DEF EndLogout, ClearSession, StateOK, ProviderOK, FormsOK, Person

(* The cookie and the history apart. *)
LEMMA EndLogoutKeepsBase ==
  ASSUME StateOK, Budgeted, Orderly, NEW t \in Tabs, EndLogout(t), TabStep(t),
         logout[t].phase # "none", JarOK', HistoryOK',
         UNCHANGED <<tokens, minted, call, refresh, login, forms>>
  PROVE  StateOK' /\ Budgeted' /\ OrderlyTab(t)'
<1>1. Onward
  BY TabStepsAreLocal
<1>2. StateOK'
  <2>1. CallsOK' /\ RefreshOK' /\ WaitersOK'
    BY DEF StateOK, CallsOK, RefreshOK, WaitersOK, CallRecord, RefreshRecord
  <2>2. FormsOK'
    <3>1. NoForm \in LogoutRecord
      BY Typed, Nulls
    <3>2. logout' = [logout EXCEPT ![t] = NoForm]
      BY EndLogoutFacts
    <3> QED
      BY <3>1, <3>2 DEF StateOK, FormsOK, LoginRecord, LogoutRecord
  <2> QED
    BY <2>1, <2>2, EndLogoutFacts DEF StateOK
<1>3. Budgeted'
  BY <1>2, BudgetKept DEF Minting, LoggingIn
<1>4. OrderlyTab(t)'
  BY <1>1, EndLogoutFacts, Nulls
  DEF Orderly, OrderlyTab, Asks, Refreshing, Idle, Onward
<1> QED
  BY <1>2, <1>3, <1>4

LEMMA LoggedOutKeepsBase ==
  ASSUME StateOK, Budgeted, Orderly, NEW t \in Tabs, LoggedOut(t)
  PROVE  StateOK' /\ Budgeted' /\ OrderlyTab(t)'
<1>1. EndLogout(t) /\ TabStep(t) /\ logout[t].phase # "none"
      /\ UNCHANGED <<tokens, minted, call, refresh, login, forms>>
  BY DEF LoggedOut, TabStep
<1>2. JarOK' /\ HistoryOK'
  BY Typed DEF LoggedOut, StateOK, JarOK, HistoryOK
<1> QED
  BY <1>1, <1>2, EndLogoutKeepsBase

LEMMA LogoutFailsKeepsBase ==
  ASSUME StateOK, Budgeted, Orderly, NEW t \in Tabs, LogoutFails(t)
  PROVE  StateOK' /\ Budgeted' /\ OrderlyTab(t)'
<1>1. EndLogout(t) /\ TabStep(t) /\ logout[t].phase # "none"
      /\ UNCHANGED <<tokens, minted, call, refresh, login, forms>>
  BY DEF LogoutFails, TabStep, jar
<1>2. JarOK' /\ HistoryOK'
  BY FaultFacts DEF LogoutFails, StateOK, JarOK, HistoryOK, jar
<1> QED
  BY <1>1, <1>2, EndLogoutKeepsBase

LEMMA GraceEndsKeepsBase ==
  ASSUME StateOK, Budgeted, Orderly, GraceEnds
  PROVE  StateOK' /\ Budgeted' /\ Orderly'
<1>1. Onward /\ Revocation /\ UNCHANGED <<cookie, minted, provider, requests, history>>
  BY GraceEndsIsLocal
<1>2. StateOK'
  BY <1>1 DEF StateOK, JarOK, ProviderOK, CallsOK, RefreshOK, FormsOK, HistoryOK, WaitersOK,
              Revocation, provider, requests, input, history,
              CallRecord, RefreshRecord, LoginRecord, LogoutRecord
<1>3. Budgeted'
  BY <1>1, <1>2, BudgetKept DEF Minting, LoggingIn, requests, input
<1>4. \A s \in Tabs : Kept(s)
  BY <1>1 DEF Kept, provider, requests, input
<1>5. Orderly'
  BY <1>1, <1>4, OthersStayOrderly DEF Orderly
<1> QED
  BY <1>2, <1>3, <1>5
-----------------------------------------------------------------------------
(* The types, the budget and the order of a tab's requests. *)

LEMMA InitBase == Init => Base
<1> SUFFICES ASSUME Init PROVE Base
  OBVIOUS
<1>1. PICK s \in Sessions : cookie = s.cookie /\ tokens = s.tokens
  BY DEF Init
<1>2. PICK n \in 0..MaxTokens : s.cookie \in 0..n /\ s.tokens \in [1..n -> Row]
  BY <1>1, SessionAssumption
<1>3. minted = n /\ n \in Nat
  BY <1>1, <1>2, FS_Interval, SessionAssumption DEF Init
<1>4. StateOK
  <2>1. JarOK
    BY <1>1, <1>2, <1>3 DEF JarOK
  <2>2. ProviderOK /\ CallsOK
    BY Nulls DEF Init, ProviderOK, CallsOK, Person
  <2>3. RefreshOK /\ FormsOK
    BY <1>3, Nulls DEF Init, RefreshOK, FormsOK
  <2>4. HistoryOK
    <3>1. faults \in 0..MaxFaults /\ causes \subseteq Causes
      BY SessionAssumption DEF Init
    <3>2. signedOut \in BOOLEAN
      BY DEF Init
    <3> QED
      BY <3>1, <3>2 DEF HistoryOK
  <2>5. WaitersOK
    BY Nulls DEF Init, WaitersOK
  <2> QED
    BY <2>1, <2>2, <2>3, <2>4, <2>5 DEF StateOK
<1>5. Budgeted
  <2>1. Minting = {} /\ LoggingIn = {}
    BY Nulls DEF Init, Minting, LoggingIn
  <2>2. Cardinality({}) = 0
    BY FS_EmptySet
  <2> QED
    BY <1>2, <1>3, <2>1, <2>2, SessionAssumption DEF Budgeted
<1>6. Orderly
  <2> SUFFICES ASSUME NEW t \in Tabs PROVE OrderlyTab(t)
    BY DEF Orderly
  <2>1. /\ status[t] = "closed" /\ access[t] = Nobody /\ refresh[t] = NoRefresh
        /\ login[t] = NoForm /\ logout[t] = NoForm /\ \A c \in Calls : call[t][c] = NoCall
    BY DEF Init
  <2> QED
    BY <2>1, Nulls DEF OrderlyTab, Asks, Refreshing, Idle, Calls
<1> QED
  BY <1>4, <1>5, <1>6, TypeParts DEF Base, Init

LEMMA TabStepKeepsBase ==
  ASSUME StateOK, Budgeted, Orderly, NEW t \in Tabs, TabStep(t)
  PROVE  StateOK' /\ Budgeted' /\ Orderly'
<1>1. StateOK' /\ Budgeted' /\ OrderlyTab(t)'
  BY OpenTabKeepsBase, FetchKeepsBase, AnsweredKeepsBase, DeniedKeepsBase, CallFailsKeepsBase,
     JudgeRefreshKeepsBase, MintRefreshKeepsBase, DeliverKeepsBase, RefreshBreaksKeepsBase,
     SubmitLoginKeepsBase, ServeLoginKeepsBase, LoggedInKeepsBase, LoginFailsKeepsBase,
     ClickLogoutKeepsBase, ServeLogoutKeepsBase, LoggedOutKeepsBase, LogoutFailsKeepsBase
  DEF TabStep
<1>2. Onward /\ \A s \in Tabs \ {t} : Kept(s)
  BY TabStepsAreLocal
<1>3. \A s \in Tabs \ {t} : OrderlyTab(s)'
  BY <1>2, OthersStayOrderly DEF Orderly
<1> QED
  BY <1>1, <1>3 DEF Orderly

LEMMA StepKeepsBase == Base /\ [Next]_vars => Base'
<1> SUFFICES ASSUME Base, [Next]_vars PROVE Base'
  OBVIOUS
<1>0. StateOK /\ overran \in BOOLEAN /\ Budgeted /\ Orderly
  BY TypeParts DEF Base
<1>1. CASE GraceEnds \/ \E t \in Tabs : TabStep(t)
  <2>1. StateOK' /\ Budgeted' /\ Orderly'
    BY <1>0, <1>1, GraceEndsKeepsBase, TabStepKeepsBase
  <2>2. overran' \in BOOLEAN
    <3>1. CASE Next
      BY <1>0, <3>1 DEF Next, Overrun
    <3>2. CASE UNCHANGED vars
      BY <1>0, <3>2 DEF vars
    <3> QED
      BY <3>1, <3>2
  <2> QED
    BY <2>1, <2>2, TypePartsNext DEF Base
<1>2. CASE UNCHANGED vars
  BY <1>2 DEF vars, jar, provider, requests, input, history, Base, TypeOK, Budgeted, Minting,
              LoggingIn, Orderly, OrderlyTab, Asks, Refreshing, Idle
<1> QED
  BY <1>1, <1>2, StepsOfTabs DEF Next

(* Whatever the tabs do, the state of the browser is well formed, and every *)
(* call that waits for a refresh waits for one that is on its way: the      *)
(* promise behind refreshInFlight (authClient.ts) is never lost.            *)
THEOREM SessionTypes == Spec => []TypeOK
<1>1. Base => TypeOK
  BY DEF Base
<1> QED
  BY <1>1, InitBase, StepKeepsBase, PTL DEF Spec
-----------------------------------------------------------------------------
(* Who changes what.  The table of tokens: the four handlers.               *)
LEMMA TokensChange ==
  ASSUME StateOK, NEW t \in Tabs, TabStep(t)
  PROVE  \/ UNCHANGED <<tokens, minted>>
         \/ JudgeRefresh(t) \/ MintRefresh(t) \/ ServeLogin(t) \/ ServeLogout(t)
<1>1. ASSUME NEW c \in Calls, Answered(t, c) \/ Denied(t, c) \/ CallFails(t, c)
      PROVE  UNCHANGED <<tokens, minted>>
  BY <1>1 DEF Answered, Denied, CallFails, jar
<1>2. CASE Deliver(t) \/ RefreshBreaks(t)
  BY <1>2 DEF Deliver, RefreshBreaks, Refreshed, RefreshFailed, jar
<1>3. CASE \/ OpenTab(t) \/ Fetch(t) \/ SubmitLogin(t) \/ LoggedIn(t) \/ LoginFails(t)
           \/ ClickLogout(t) \/ LoggedOut(t) \/ LogoutFails(t)
  BY <1>3 DEF OpenTab, Fetch, SubmitLogin, LoggedIn, LoginFails, ClickLogout, LoggedOut,
              LogoutFails, jar
<1> QED
  BY <1>1, <1>2, <1>3 DEF TabStep

(* The cookie: the answers of a refresh, a login and a logout. *)
LEMMA CookieChanges ==
  ASSUME NEW t \in Tabs, TabStep(t)
  PROVE  cookie' = cookie \/ (Deliver(t) /\ Refreshed(t)) \/ LoggedIn(t) \/ LoggedOut(t)
<1>1. ASSUME NEW c \in Calls, Answered(t, c) \/ Denied(t, c) \/ CallFails(t, c)
      PROVE  cookie' = cookie
  BY <1>1 DEF Answered, Denied, CallFails, jar
<1>2. CASE Deliver(t) \/ RefreshBreaks(t)
  BY <1>2 DEF Deliver, RefreshBreaks, RefreshFailed, jar
<1>3. CASE \/ OpenTab(t) \/ Fetch(t) \/ JudgeRefresh(t) \/ MintRefresh(t) \/ SubmitLogin(t)
           \/ ServeLogin(t) \/ LoginFails(t) \/ ClickLogout(t) \/ ServeLogout(t)
           \/ LogoutFails(t)
  BY <1>3 DEF OpenTab, Fetch, JudgeRefresh, MintRefresh, SubmitLogin, ServeLogin, LoginFails,
              ClickLogout, ServeLogout, LogoutFails, jar
<1> QED
  BY <1>1, <1>2, <1>3 DEF TabStep

(* The refresh of a tab: it leaves with the cookie, is judged, mints, and   *)
(* ends with its answer.                                                    *)
LEMMA RefreshChanges ==
  ASSUME StateOK, Orderly, NEW t \in Tabs, TabStep(t)
  PROVE  \/ refresh'[t] = refresh[t]
         \/ /\ OpenTab(t) /\ refresh[t].phase = "none"
            /\ refresh'[t] = [phase |-> "sent", token |-> cookie]
         \/ \E c \in Calls : /\ Denied(t, c) /\ call[t][c].phase = "sent"
                             /\ refresh[t].phase = "none"
                             /\ refresh'[t] = [phase |-> "sent", token |-> cookie]
         \/ JudgeRefresh(t) \/ MintRefresh(t)
         \/ Deliver(t) /\ Refreshed(t)
         \/ /\ RefreshFailed(t)
            /\ (Deliver(t) /\ refresh[t].phase = "denied") \/ RefreshBreaks(t)
<1>0. refresh \in [Tabs -> RefreshRecord] /\ OrderlyTab(t)
  BY DEF StateOK, RefreshOK, Orderly
<1>1. ASSUME NEW c \in Calls, Answered(t, c) \/ CallFails(t, c)
      PROVE  refresh'[t] = refresh[t]
  BY <1>1 DEF Answered, CallFails
<1>2. ASSUME NEW c \in Calls, Denied(t, c), refresh'[t] # refresh[t]
      PROVE  /\ call[t][c].phase = "sent" /\ refresh[t].phase = "none"
             /\ refresh'[t] = [phase |-> "sent", token |-> cookie]
  BY <1>0, <1>2 DEF Denied, ShareRefresh, Refreshing
<1>3. CASE OpenTab(t)
  BY <1>0, <1>3 DEF OpenTab, OrderlyTab, Asks, Refreshing
<1>4. CASE Deliver(t) \/ RefreshBreaks(t)
  BY <1>4 DEF Deliver, RefreshBreaks
<1>5. CASE \/ Fetch(t) \/ SubmitLogin(t) \/ ServeLogin(t) \/ LoggedIn(t) \/ LoginFails(t)
           \/ ClickLogout(t) \/ ServeLogout(t) \/ LoggedOut(t) \/ LogoutFails(t)
  BY <1>5 DEF Fetch, SubmitLogin, ServeLogin, LoggedIn, LoginFails, ClickLogout, ServeLogout,
              LoggedOut, LogoutFails
<1> QED
  BY <1>1, <1>2, <1>3, <1>4, <1>5 DEF TabStep

(* The same in phases. *)
LEMMA RefreshPhases ==
  ASSUME StateOK, Budgeted, Orderly, NEW t \in Tabs, TabStep(t)
  PROVE  \/ refresh'[t] = refresh[t]
         \/ /\ refresh[t].phase = "none" /\ refresh'[t] = [phase |-> "sent", token |-> cookie]
            /\ OpenTab(t) \/ \E c \in Calls : Denied(t, c)
         \/ /\ JudgeRefresh(t) /\ refresh[t].phase = "sent"
            /\ \/ Granted(t) /\ refresh'[t].phase = "mint"
               \/ Refused(t) /\ refresh'[t].phase = "denied"
            /\ refresh'[t].token = refresh[t].token
         \/ /\ MintRefresh(t) /\ refresh[t].phase = "mint"
            /\ refresh'[t] = [phase |-> "answered", token |-> minted + 1]
         \/ /\ Deliver(t) /\ Refreshed(t)
            /\ refresh[t].phase = "answered" /\ refresh'[t] = NoRefresh
         \/ /\ RefreshFailed(t) /\ refresh'[t] = NoRefresh
            /\ (Deliver(t) /\ refresh[t].phase = "denied") \/ RefreshBreaks(t)
<1>1. CASE JudgeRefresh(t)
  <2>1. refresh \in [Tabs -> RefreshRecord] /\ refresh[t] \in RefreshRecord
    BY Typed DEF StateOK, RefreshOK
  <2>2. refresh[t].phase = "sent" /\ (Granted(t) \/ Refused(t))
    BY <1>1, JudgeFacts
  <2> QED
    BY <1>1, <2>1, <2>2 DEF Granted, Refused, RefreshRecord
<1>2. CASE MintRefresh(t)
  BY <1>2, MintRefreshFacts
<1>3. CASE Deliver(t) /\ Refreshed(t)
  BY <1>3, RefreshedFacts
<1>4. CASE RefreshFailed(t) /\ ((Deliver(t) /\ refresh[t].phase = "denied") \/ RefreshBreaks(t))
  BY <1>4, RefreshFailedFacts
<1> QED
  BY <1>1, <1>2, <1>3, <1>4, RefreshChanges

(* A tab is let in by the answer of its bootstrap's refresh, or by a login. *)
LEMMA AdmissionChanges ==
  ASSUME StateOK, Orderly, NEW t \in Tabs, TabStep(t), Admitted(t)'
  PROVE  Admitted(t) \/ (Deliver(t) /\ Refreshed(t)) \/ LoggedIn(t)
<1>0. call[t] \in [Calls -> CallRecord] /\ "me" \in Calls /\ "api" \in Calls
  BY DEF StateOK, CallsOK, Calls
<1>1. ASSUME NEW c \in Calls, Answered(t, c)
      PROVE  Admitted(t)
  <2>1. call' = [call EXCEPT ![t][c] = NoCall] /\ call[t][c].phase \in {"sent", "retried"}
        /\ (c # "me" => status' = status)
    BY <1>1 DEF Answered, EndCall, OnItsWay
  <2>2. c # "me" => call'[t]["me"] = call[t]["me"]
    BY <2>1, <1>0 DEF StateOK, CallsOK
  <2> QED
    BY <1>0, <2>1, <2>2 DEF Admitted
<1>2. ASSUME NEW c \in Calls, Rethrow(t, c), call[t][c].phase \in {"sent", "retried"}
      PROVE  Admitted(t)
  BY <1>0, <1>2, RethrowFacts DEF Admitted, provider
<1>3. ASSUME NEW c \in Calls, Denied(t, c), call[t][c].phase = "sent"
      PROVE  Admitted(t)
  <2>1. call' = [call EXCEPT ![t][c] = [NoCall EXCEPT !.phase = "refreshing"]] /\ UNCHANGED provider
    BY <1>3 DEF Denied
  <2>2. c # "me" => call'[t]["me"] = call[t]["me"]
    BY <2>1, <1>0 DEF StateOK, CallsOK
  <2> QED
    BY <1>0, <1>3, <2>1, <2>2 DEF Admitted, provider
<1>4. ASSUME NEW c \in Calls, Answered(t, c) \/ Denied(t, c) \/ CallFails(t, c)
      PROVE  Admitted(t)
  BY <1>1, <1>2, <1>3, <1>4 DEF Denied, CallFails, OnItsWay
<1>5. CASE OpenTab(t)
  <2>1. status'[t] = "loading" /\ call'[t] = [call[t] EXCEPT !["me"].phase = "boot"]
    BY <1>5 DEF OpenTab, StateOK, ProviderOK, CallsOK
  <2>2. call'[t]["me"].phase = "boot"
    BY <1>0, <2>1 DEF CallRecord
  <2> QED
    BY <2>1, <2>2 DEF Admitted
<1>6. CASE Fetch(t)
  BY <1>6 DEF Fetch, Admitted
<1>7. CASE RefreshFailed(t)
  BY <1>0, <1>7, RefreshFailedFacts, Nulls DEF Admitted
<1>8. CASE EndLogout(t) /\ UNCHANGED call
  BY <1>8, EndLogoutFacts DEF Admitted
<1>9. CASE \/ JudgeRefresh(t) \/ MintRefresh(t) \/ SubmitLogin(t) \/ ServeLogin(t)
           \/ LoginFails(t) \/ ClickLogout(t) \/ ServeLogout(t)
  BY <1>9 DEF JudgeRefresh, MintRefresh, SubmitLogin, ServeLogin, LoginFails, ClickLogout,
              ServeLogout, Admitted, provider
<1> QED
  BY <1>4, <1>5, <1>6, <1>7, <1>8, <1>9
  DEF TabStep, Deliver, RefreshBreaks, LoggedOut, LogoutFails

(* The forms. *)
LEMMA FormsChange ==
  ASSUME StateOK, NEW t \in Tabs, TabStep(t)
  PROVE  /\ login'[t].phase = "answered" => login'[t] = login[t] \/ ServeLogin(t)
         /\ logout'[t] = logout[t] \/ ClickLogout(t) \/ ServeLogout(t) \/ EndLogout(t)
<1>0. /\ login \in [Tabs -> LoginRecord] /\ logout \in [Tabs -> LogoutRecord]
  BY DEF StateOK, FormsOK
<1>1. ASSUME NEW c \in Calls, Answered(t, c) \/ Denied(t, c) \/ CallFails(t, c)
      PROVE  UNCHANGED input
  BY <1>1 DEF Answered, Denied, CallFails
<1>2. CASE Deliver(t) \/ RefreshBreaks(t)
  BY <1>2 DEF Deliver, RefreshBreaks, Refreshed, RefreshFailed, input
<1>3. CASE \/ OpenTab(t) \/ Fetch(t) \/ JudgeRefresh(t) \/ MintRefresh(t)
  BY <1>3 DEF OpenTab, Fetch, JudgeRefresh, MintRefresh, input
<1>4. CASE SubmitLogin(t)
  <2>1. PICK u \in Users :
            login' = [login EXCEPT ![t] = [NoForm EXCEPT !.phase = "sent", !.user = u]]
    BY <1>4 DEF SubmitLogin
  <2>2. [NoForm EXCEPT !.phase = "sent", !.user = u].phase = "sent"
    BY DEF NoForm
  <2> QED
    BY <1>0, <1>4, <2>1, <2>2 DEF SubmitLogin
<1>5. CASE LoggedIn(t) \/ LoginFails(t)
  BY <1>0, <1>5, Nulls DEF LoggedIn, LoginFails
<1>6. CASE ClickLogout(t) \/ ServeLogin(t) \/ ServeLogout(t) \/ LoggedOut(t) \/ LogoutFails(t)
  BY <1>6 DEF ClickLogout, ServeLogin, ServeLogout, LoggedOut, LogoutFails
<1> QED
  BY <1>1, <1>2, <1>3, <1>4, <1>5, <1>6 DEF TabStep, input
-----------------------------------------------------------------------------
(* A family that can be refreshed goes on to be, or its end has a cause.    *)
FamilyIsOpen(f) == FamilyIsLive(f) \/ FamilyIsMinting(f)

LEMMA ExcuseStays == Onward /\ Excused => Excused'
  BY DEF Onward, Excused

LEMMA LiveFamilyStaysOpen ==
  ASSUME StateOK, Budgeted, Orderly, NEW t \in Tabs, TabStep(t), NEW f, FamilyIsLive(f)
  PROVE  Excused' \/ FamilyIsLive(f)' \/ FamilyIsMinting(f)'
<1>1. PICK j \in 1..minted : tokens[j].family = f /\ tokens[j].state = "live"
  BY DEF FamilyIsLive
<1>2. CASE UNCHANGED <<tokens, minted>>
  BY <1>1, <1>2 DEF FamilyIsLive
<1>3. CASE MintRefresh(t)
  BY <1>1, <1>3, MintRefreshFacts DEF FamilyIsLive
<1>4. CASE ServeLogin(t)
  BY <1>1, <1>4, ServeLoginFacts DEF FamilyIsLive
<1>5. CASE ServeLogout(t)
  BY <1>5 DEF ServeLogout, Blame, Excused
<1>6. CASE JudgeRefresh(t)
  <2> DEFINE k == refresh[t].token
             g == tokens[k].family
  <2>1. minted' = minted /\ refresh \in [Tabs -> RefreshRecord] /\ refresh[t] \in RefreshRecord
    BY <1>6, Typed DEF JudgeRefresh, StateOK, RefreshOK
  <2>2. tokens'[j] = tokens[j] => FamilyIsLive(f)'
    BY <1>1, <2>1 DEF FamilyIsLive
  <2>3. CASE UNCHANGED tokens
    BY <2>2, <2>3
  <2>4. CASE /\ Granted(t)
             /\ \A i \in 1..minted : tokens[i].state = "live" /\ i # k => tokens'[i] = tokens[i]
    <3>1. CASE j # k
      BY <1>1, <2>2, <2>4, <3>1
    <3>2. CASE j = k
      <4>1. refresh'[t].phase = "mint" /\ refresh'[t].token = j
        BY <2>1, <2>4, <3>2 DEF Granted, RefreshRecord
      <4>2. tokens'[j].family = f
        BY <1>1, <1>6, JudgeFacts DEF Revocation
      <4> QED
        BY <4>1, <4>2 DEF FamilyIsMinting
    <3> QED
      BY <3>1, <3>2
  <2>5. CASE /\ k # 0
             /\ \A i \in 1..minted :
                   tokens[i].state = "live" /\ tokens[i].family # g => tokens'[i] = tokens[i]
             /\ \/ FamilyIsLive(g) /\ causes' = causes \cup {"late"}
                \/ FamilyIsMinting(g) /\ causes' = causes \cup {"race"}
                \/ ~FamilyIsLive(g) /\ ~FamilyIsMinting(g) /\ causes' = causes
    <3>1. CASE f # g
      BY <1>1, <2>2, <2>5, <3>1
    <3>2. CASE f = g
      BY <2>5, <3>2 DEF Excused
    <3> QED
      BY <3>1, <3>2
  <2> QED
    BY <1>6, <2>3, <2>4, <2>5, JudgeFacts
<1> QED
  BY <1>2, <1>3, <1>4, <1>5, <1>6, TokensChange

LEMMA MintingFamilyStaysOpen ==
  ASSUME StateOK, Budgeted, Orderly, NEW t \in Tabs, TabStep(t), NEW f, FamilyIsMinting(f)
  PROVE  Excused' \/ FamilyIsLive(f)' \/ FamilyIsMinting(f)'
<1>1. PICK s \in Tabs : refresh[s].phase = "mint" /\ tokens[refresh[s].token].family = f
  BY DEF FamilyIsMinting
<1>2. refresh[s].token \in 1..minted
  BY <1>1, Typed DEF Orderly, OrderlyTab
<1>3. Onward /\ \A r \in Tabs \ {t} : Kept(r)
  BY TabStepsAreLocal
<1>4. CASE refresh'[s] = refresh[s]
  BY <1>1, <1>2, <1>3, <1>4 DEF FamilyIsMinting, Onward
<1>5. CASE s = t /\ refresh'[t] # refresh[t]
  <2>1. CASE MintRefresh(t)
    <3>1. /\ minted + 1 \in 1..minted'
          /\ tokens'[minted + 1] = [tokens[refresh[t].token] EXCEPT !.state = "live"]
          /\ tokens[refresh[t].token] \in Row
      BY <1>2, <1>5, <2>1, MintRefreshFacts, Typed
    <3>2. tokens'[minted + 1].state = "live" /\ tokens'[minted + 1].family = f
      BY <1>1, <1>5, <3>1 DEF Row
    <3> QED
      BY <3>1, <3>2 DEF FamilyIsLive
  <2>2. CASE RefreshBreaks(t)
    BY <2>2, FaultFacts DEF RefreshBreaks, Excused
  <2> QED
    BY <1>1, <1>5, <2>1, <2>2, RefreshChanges DEF JudgeRefresh, Refreshed
<1> QED
  BY <1>3, <1>4, <1>5 DEF Kept

LEMMA SoundStays ==
  ASSUME StateOK, Budgeted, Orderly, NEW t \in Tabs, TabStep(t), NEW k \in 0..minted, Sound(k)
  PROVE  Sound(k)'
<1>1. Onward
  BY TabStepsAreLocal
<1>2. CASE Excused
  BY <1>1, <1>2, ExcuseStays DEF Sound
<1>3. CASE Good(k)
  <2>1. k \in 1..minted
    BY <1>3, Typed DEF Good
  <2>2. PICK f : f = tokens[k].family
    OBVIOUS
  <2>3. tokens'[k].family = f
    BY <1>1, <2>1, <2>2 DEF Onward
  <2>4. FamilyIsLive(f) \/ FamilyIsMinting(f)
    BY <1>3, <2>2 DEF Good
  <2>5. Excused' \/ FamilyIsLive(f)' \/ FamilyIsMinting(f)'
    BY <2>4, LiveFamilyStaysOpen, MintingFamilyStaysOpen
  <2> QED
    BY <2>1, <2>3, <2>5 DEF Sound, Good, FamilyIsLive, FamilyIsMinting
<1> QED
  BY <1>2, <1>3 DEF Sound

(* What the cookie becomes is sound, if it was or an answer sets it. *)
LEMMA CookieIsSound ==
  ASSUME StateOK, Budgeted, Orderly, FamiliesSound, NEW t \in Tabs, TabStep(t),
         Sound(cookie) \/ (Deliver(t) /\ Refreshed(t)) \/ LoggedIn(t)
  PROVE  Sound(cookie)'
<1>0. PICK k : k = cookie'
  OBVIOUS
<1>1. CASE cookie' = cookie /\ Sound(cookie)
  <2>1. k \in 0..minted /\ Sound(k)
    BY <1>0, <1>1, Typed
  <2> QED
    BY <1>0, <2>1, SoundStays DEF Sound, Good, FamilyIsLive, FamilyIsMinting
<1>2. CASE Refreshed(t)
  <2>1. k \in 0..minted /\ Sound(k)
    <3>1. refresh[t].token \in 1..minted /\ cookie' = refresh[t].token
          /\ refresh[t].phase = "answered" /\ minted \in Nat
      BY <1>2, RefreshedFacts, Typed
    <3> QED
      BY <1>0, <3>1 DEF FamiliesSound, SoundTab
  <2> QED
    BY <1>0, <2>1, SoundStays DEF Sound, Good, FamilyIsLive, FamilyIsMinting
<1>3. CASE LoggedIn(t)
  <2>1. k \in 0..minted /\ Sound(k)
    <3>1. login[t].token \in 1..minted /\ cookie' = login[t].token
          /\ login[t].phase = "answered" /\ minted \in Nat
      BY <1>3, LoggedInFacts, Typed
    <3> QED
      BY <1>0, <3>1 DEF FamiliesSound, SoundTab
  <2> QED
    BY <1>0, <2>1, SoundStays DEF Sound, Good, FamilyIsLive, FamilyIsMinting
<1>4. CASE LoggedOut(t)
  <2>1. "logout" \in causes /\ causes' = causes
    BY <1>4 DEF LoggedOut, Orderly, OrderlyTab
  <2> QED
    BY <2>1 DEF Sound, Excused
<1> QED
  BY <1>1, <1>2, <1>3, <1>4, CookieChanges
-----------------------------------------------------------------------------
(* A token that a request carries stays sound while the request is there. *)
LEMMA CarriedIsSound ==
  ASSUME StateOK, Budgeted, Orderly, NEW t \in Tabs, TabStep(t), NEW s \in Tabs
  PROVE  /\ refresh'[s].token = refresh[s].token /\ Sound(refresh[s].token)
                => Sound(refresh[s].token)'
         /\ login'[s].token = login[s].token /\ Sound(login[s].token)
                => Sound(login[s].token)'
         /\ refresh'[s].token = cookie /\ Sound(cookie) => Sound(refresh[s].token)'
<1>1. PICK k : k = refresh[s].token
  OBVIOUS
<1>2. PICK l : l = login[s].token
  OBVIOUS
<1>3. PICK c : c = cookie
  OBVIOUS
<1>4. k \in 0..minted /\ l \in 0..minted /\ c \in 0..minted
  BY <1>1, <1>2, <1>3, Typed
<1>5. (Sound(k) => Sound(k)') /\ (Sound(l) => Sound(l)') /\ (Sound(c) => Sound(c)')
  BY <1>4, SoundStays
<1> QED
  BY <1>1, <1>2, <1>3, <1>5 DEF Sound, Good, FamilyIsLive, FamilyIsMinting

LEMMA OthersStaySound ==
  ASSUME StateOK, Budgeted, Orderly, FamiliesSound, NEW t \in Tabs, TabStep(t),
         NEW s \in Tabs \ {t}
  PROVE  SoundTab(s)'
<1>1. Onward /\ Kept(s) /\ SoundTab(s)
  BY TabStepsAreLocal DEF FamiliesSound
<1>2. /\ Sound(refresh[s].token) => Sound(refresh[s].token)'
      /\ Sound(login[s].token) => Sound(login[s].token)'
  BY <1>1, CarriedIsSound DEF Kept
<1>3. Admitted(s)' <=> Admitted(s)
  BY <1>1 DEF Kept, Admitted
<1>4. Sound(cookie) => Sound(cookie)'
  BY CookieIsSound
<1>5. Excused => Excused'
  BY <1>1, ExcuseStays
<1> QED
  BY <1>1, <1>2, <1>3, <1>4, <1>5 DEF SoundTab, Kept, Onward

LEMMA NewTokenIsSound ==
  ASSUME StateOK, Budgeted, Orderly, NEW t \in Tabs
  PROVE  /\ MintRefresh(t) => Sound(refresh[t].token)'
         /\ ServeLogin(t) => Sound(login[t].token)'
<1>1. ASSUME MintRefresh(t) PROVE Sound(refresh[t].token)'
  <2>1. /\ refresh'[t].token = minted + 1 /\ minted + 1 \in 1..minted' /\ minted \in Nat
        /\ tokens'[minted + 1] = [tokens[refresh[t].token] EXCEPT !.state = "live"]
        /\ tokens[refresh[t].token] \in Row
    BY <1>1, MintRefreshFacts, Typed
  <2>2. tokens'[minted + 1].state = "live" /\ minted + 1 # 0
    BY <2>1 DEF Row
  <2> QED
    BY <2>1, <2>2 DEF Sound, Good, FamilyIsLive
<1>2. ASSUME ServeLogin(t) PROVE Sound(login[t].token)'
  <2>1. /\ login'[t].token = minted + 1 /\ minted + 1 \in 1..minted' /\ minted \in Nat
        /\ tokens'[minted + 1] = [user |-> login[t].user, family |-> minted + 1, state |-> "live"]
    BY <1>2, ServeLoginFacts, Typed
  <2>2. tokens'[minted + 1].state = "live" /\ minted + 1 # 0
    BY <2>1
  <2> QED
    BY <2>1, <2>2 DEF Sound, Good, FamilyIsLive
<1> QED
  BY <1>1, <1>2

LEMMA ActingTabStaysSound ==
  ASSUME StateOK, Budgeted, Orderly, FamiliesSound, NEW t \in Tabs, TabStep(t)
  PROVE  SoundTab(t)'
<1>1. Onward /\ SoundTab(t) /\ OrderlyTab(t) /\ refresh[t] \in RefreshRecord
  BY TabStepsAreLocal, Typed DEF FamiliesSound, Orderly
<1>2. Excused => Excused'
  BY <1>1, ExcuseStays
<1>3. ASSUME refresh'[t].phase \in {"mint", "answered"}
      PROVE  Sound(refresh[t].token)'
  <2>1. CASE refresh'[t] = refresh[t]
    BY <1>1, <1>3, <2>1, CarriedIsSound DEF SoundTab
  <2>2. CASE MintRefresh(t)
    BY <2>2, NewTokenIsSound
  <2>3. CASE JudgeRefresh(t)
    <3>1. PICK k : k = refresh[t].token
      OBVIOUS
    <3>2. Granted(t)
      BY <1>1, <1>3, <2>3, JudgeFacts DEF Refused, StateOK, RefreshOK, RefreshRecord
    <3>3. refresh'[t].phase = "mint" /\ refresh'[t].token = k /\ k # 0
      BY <1>1, <3>1, <3>2 DEF Granted, StateOK, RefreshOK, RefreshRecord
    <3> QED
      BY <3>3 DEF Sound, Good, FamilyIsMinting
  <2> QED
    BY <1>3, <2>1, <2>2, <2>3, RefreshPhases, Nulls
<1>4. login'[t].phase = "answered" => Sound(login[t].token)'
  BY <1>1, FormsChange, CarriedIsSound, NewTokenIsSound DEF SoundTab
<1>5. Admitted(t)' => Sound(cookie)'
  BY <1>1, AdmissionChanges, CookieIsSound DEF SoundTab
<1>6. ASSUME Admitted(t)', Refreshing(t), ~Admitted(t), refresh'[t].phase # "none"
      PROVE  "overtaken" \in causes'
  <2>1. LoggedIn(t)
    BY <1>6, AdmissionChanges, RefreshedFacts, Nulls
  <2> QED
    BY <1>6, <2>1, LoggedInFacts DEF Confusion, Bootstraps
<1>7. ASSUME Admitted(t)', refresh'[t].phase = "sent"
      PROVE  "overtaken" \in causes' \/ Sound(refresh[t].token)'
  <2>1. CASE refresh'[t] = refresh[t]
    <3>1. CASE Admitted(t)
      BY <1>1, <1>7, <2>1, <3>1, CarriedIsSound DEF SoundTab, Onward
    <3>2. CASE ~Admitted(t)
      BY <1>6, <1>7, <2>1, <3>2 DEF Refreshing
    <3> QED
      BY <3>1, <3>2
  <2>2. CASE refresh'[t] = [phase |-> "sent", token |-> cookie] /\ refresh[t].phase = "none"
    <3>1. Admitted(t)
      BY <1>7, <2>2, AdmissionChanges, RefreshedFacts, LoggedInFacts
    <3> QED
      BY <1>1, <2>2, <3>1, CarriedIsSound DEF SoundTab
  <2> QED
    BY <1>7, <2>1, <2>2, RefreshPhases, Nulls
<1>8. ASSUME Admitted(t)', refresh'[t].phase = "denied"
      PROVE  "overtaken" \in causes' \/ Excused'
  <2>1. CASE refresh'[t] = refresh[t]
    <3>1. CASE Admitted(t)
      BY <1>1, <1>2, <1>8, <2>1, <3>1 DEF SoundTab, Onward
    <3>2. CASE ~Admitted(t)
      BY <1>6, <1>8, <2>1, <3>2 DEF Refreshing
    <3> QED
      BY <3>1, <3>2
  <2>2. CASE JudgeRefresh(t) /\ Admitted(t)
    <3> DEFINE k == refresh[t].token
               g == tokens[k].family
    <3>1. "overtaken" \in causes \/ Excused \/ Good(k)
      BY <1>1, <2>2, JudgeFacts DEF SoundTab, Sound
    <3>2. CASE Good(k)
      <4>1. k # 0 /\ (FamilyIsLive(g) \/ FamilyIsMinting(g))
        BY <3>2 DEF Good
      <4>2. ~Granted(t)
        BY <1>1, <1>8 DEF Granted, StateOK, RefreshOK, RefreshRecord
      <4>3. causes' = causes \cup {"late"} \/ causes' = causes \cup {"race"}
        BY <2>2, <4>1, <4>2, JudgeFacts
      <4> QED
        BY <4>3 DEF Excused
    <3> QED
      BY <1>1, <1>2, <3>1, <3>2 DEF Onward
  <2>3. CASE JudgeRefresh(t) /\ ~Admitted(t)
    BY <1>6, <1>8, <2>3, JudgeFacts DEF Refreshing
  <2> QED
    BY <1>8, <2>1, <2>2, <2>3, RefreshPhases, Nulls
<1> QED
  BY <1>3, <1>4, <1>5, <1>7, <1>8 DEF SoundTab

LEMMA TabStepKeepsSound ==
  ASSUME StateOK, Budgeted, Orderly, FamiliesSound, NEW t \in Tabs, TabStep(t)
  PROVE  FamiliesSound'
  BY ActingTabStaysSound, OthersStaySound DEF FamiliesSound

LEMMA GraceEndsKeepsSound ==
  ASSUME StateOK, Orderly, FamiliesSound, GraceEnds
  PROVE  FamiliesSound'
<1>1. Onward /\ Revocation /\ UNCHANGED <<cookie, minted, provider, requests, history>>
  BY GraceEndsIsLocal
<1>2. /\ refresh' = refresh /\ login' = login /\ call' = call /\ status' = status
      /\ causes' = causes /\ minted' = minted /\ cookie' = cookie
  BY <1>1 DEF requests, input, provider, history
<1>3. \A k \in 1..minted : /\ tokens'[k].family = tokens[k].family
                           /\ tokens[k].state = "live" => tokens'[k].state = "live"
  BY <1>1, GraceEndsIsRevocation DEF Revocation
<1>4. \A f : FamilyIsLive(f) => FamilyIsLive(f)'
  BY <1>2, <1>3 DEF FamilyIsLive
<1>5. \A f : FamilyIsMinting(f) => FamilyIsMinting(f)'
  <2> SUFFICES ASSUME NEW f, NEW s \in Tabs, refresh[s].phase = "mint",
                      tokens[refresh[s].token].family = f
               PROVE  FamilyIsMinting(f)'
    BY DEF FamilyIsMinting
  <2>1. refresh[s].token \in 1..minted
    BY Typed DEF Orderly, OrderlyTab
  <2> QED
    BY <1>2, <1>3, <2>1 DEF FamilyIsMinting
<1>6. \A k \in 0..minted : Sound(k) => Sound(k)'
  <2> SUFFICES ASSUME NEW k \in 0..minted, Sound(k) PROVE Sound(k)'
    OBVIOUS
  <2>1. CASE Excused
    BY <1>2, <2>1 DEF Sound, Excused
  <2>2. CASE Good(k)
    <3>1. k \in 1..minted
      BY <2>2, Typed DEF Good, StateOK, JarOK
    <3>2. PICK f : f = tokens[k].family
      OBVIOUS
    <3>3. tokens'[k].family = f /\ (FamilyIsLive(f)' \/ FamilyIsMinting(f)')
      BY <1>3, <1>4, <1>5, <2>2, <3>1, <3>2 DEF Good
    <3> QED
      BY <3>1, <3>3 DEF Sound, Good, FamilyIsLive, FamilyIsMinting
  <2> QED
    BY <2>1, <2>2 DEF Sound
<1> SUFFICES ASSUME NEW s \in Tabs PROVE SoundTab(s)'
  BY DEF FamiliesSound
<1>7. PICK k, l, c : k = refresh[s].token /\ l = login[s].token /\ c = cookie
  OBVIOUS
<1>8. k \in 0..minted /\ l \in 0..minted /\ c \in 0..minted
  BY <1>7, Typed
<1>9. (Sound(k) => Sound(k)') /\ (Sound(l) => Sound(l)') /\ (Sound(c) => Sound(c)')
  BY <1>6, <1>8
<1>10. /\ Sound(refresh[s].token) => Sound(refresh[s].token)'
       /\ Sound(login[s].token) => Sound(login[s].token)'
       /\ Sound(cookie) => Sound(cookie)'
  BY <1>2, <1>7, <1>9 DEF Sound, Good, FamilyIsLive, FamilyIsMinting
<1>11. SoundTab(s) /\ (Admitted(s)' <=> Admitted(s)) /\ (Excused' <=> Excused)
  BY <1>2 DEF FamiliesSound, Admitted, Excused
<1> QED
  BY <1>2, <1>10, <1>11 DEF SoundTab
-----------------------------------------------------------------------------
(* The provider of a tab. *)
LEMMA ProviderChanges ==
  ASSUME StateOK, Orderly, NEW t \in Tabs, TabStep(t)
  PROVE  \/ status'[t] = status[t] /\ user'[t] = user[t] /\ access'[t] = access[t]
         \/ status'[t] = "unauthenticated" /\ access'[t] = Nobody
         \/ /\ OpenTab(t) /\ status[t] = "closed" /\ status'[t] = "loading"
            /\ access'[t] = access[t]
         \/ /\ Answered(t, "me") /\ call[t]["me"].as # Nobody /\ ~Idle(t, "me")
            /\ status'[t] = "authenticated" /\ user'[t] = call[t]["me"].as
            /\ access'[t] = access[t]
         \/ Deliver(t) /\ Refreshed(t)
         \/ LoggedIn(t)
<1>0. /\ status \in [Tabs -> {"closed", "loading", "unauthenticated", "authenticated"}]
      /\ user \in [Tabs -> Person] /\ access \in [Tabs -> Person]
  BY DEF StateOK, ProviderOK
<1>1. ASSUME NEW c \in Calls, Rethrow(t, c), ~(status'[t] = "unauthenticated" /\ access'[t] = Nobody)
      PROVE  UNCHANGED provider
  BY <1>1, RethrowFacts
<1>2. ASSUME NEW c \in Calls, Denied(t, c) \/ CallFails(t, c)
      PROVE  UNCHANGED provider \/ Rethrow(t, c)
  BY <1>2 DEF Denied, CallFails
<1>3. ASSUME NEW c \in Calls, Answered(t, c)
      PROVE  \/ UNCHANGED provider
             \/ /\ c = "me" /\ call[t]["me"].as # Nobody /\ ~Idle(t, "me")
                /\ status'[t] = "authenticated" /\ user'[t] = call[t]["me"].as
                /\ access'[t] = access[t]
  BY <1>0, <1>3 DEF Answered, OnItsWay, Idle, provider
<1>4. CASE OpenTab(t)
  BY <1>0, <1>4 DEF OpenTab
<1>5. CASE RefreshFailed(t)
  BY <1>5, RefreshFailedFacts
<1>6. CASE EndLogout(t)
  BY <1>6, EndLogoutFacts
<1>7. CASE \/ Fetch(t) \/ JudgeRefresh(t) \/ MintRefresh(t) \/ SubmitLogin(t) \/ ServeLogin(t)
           \/ LoginFails(t) \/ ClickLogout(t) \/ ServeLogout(t)
  BY <1>7 DEF Fetch, JudgeRefresh, MintRefresh, SubmitLogin, ServeLogin, LoginFails,
              ClickLogout, ServeLogout, provider
<1>8. ASSUME NEW c \in Calls, Answered(t, c) \/ Denied(t, c) \/ CallFails(t, c)
      PROVE  \/ status'[t] = status[t] /\ user'[t] = user[t] /\ access'[t] = access[t]
             \/ status'[t] = "unauthenticated" /\ access'[t] = Nobody
             \/ /\ Answered(t, "me") /\ call[t]["me"].as # Nobody /\ ~Idle(t, "me")
                /\ status'[t] = "authenticated" /\ user'[t] = call[t]["me"].as
                /\ access'[t] = access[t]
  BY <1>1, <1>2, <1>3, <1>8 DEF provider
<1> QED
  BY <1>4, <1>5, <1>6, <1>7, <1>8 DEF TabStep, Deliver, RefreshBreaks, LoggedOut, LogoutFails

(* The calls of a tab: whose token they carry, and who starts the first. *)
LEMMA CallChanges ==
  ASSUME StateOK, Orderly, NEW t \in Tabs, TabStep(t)
  PROVE  /\ \/ call'[t]["me"].as \in {call[t]["me"].as, Nobody}
            \/ Deliver(t) /\ Refreshed(t) /\ call'[t]["me"].as = tokens[refresh[t].token].user
         /\ \A c \in Calls : Idle(t, c) /\ ~Idle(t, c)' => OpenTab(t) \/ Fetch(t)
<1>0. call[t] \in [Calls -> CallRecord] /\ "me" \in Calls /\ "api" \in Calls /\ "me" # "api"
      /\ call \in [Tabs -> [Calls -> CallRecord]]
  BY DEF StateOK, CallsOK, Calls
<1>1. ASSUME NEW c \in Calls, Answered(t, c) \/ Rethrow(t, c)
      PROVE  /\ call'[t]["me"].as \in {call[t]["me"].as, Nobody}
             /\ \A d \in Calls : Idle(t, d) => Idle(t, d)'
  <2>1. call' = [call EXCEPT ![t][c] = NoCall]
    BY <1>1 DEF Answered, Rethrow, EndCall
  <2>2. call'[t][c] = NoCall /\ \A d \in Calls \ {c} : call'[t][d] = call[t][d]
    BY <1>0, <2>1
  <2> QED
    BY <1>0, <2>2, Nulls DEF Idle
<1>2. ASSUME NEW c \in Calls, Denied(t, c), ~Rethrow(t, c)
      PROVE  /\ call'[t]["me"].as \in {call[t]["me"].as, Nobody}
             /\ \A d \in Calls : Idle(t, d) => Idle(t, d)'
  <2>1. call[t][c].phase = "sent" /\ call' = [call EXCEPT ![t][c] = [NoCall EXCEPT !.phase = "refreshing"]]
    BY <1>2 DEF Denied
  <2>2. /\ call'[t][c] = [NoCall EXCEPT !.phase = "refreshing"]
        /\ \A d \in Calls \ {c} : call'[t][d] = call[t][d]
    BY <1>0, <2>1
  <2>3. [NoCall EXCEPT !.phase = "refreshing"].as = Nobody
    BY DEF NoCall
  <2> QED
    BY <1>0, <2>1, <2>2, <2>3 DEF Idle
<1>3. ASSUME NEW c \in Calls, Answered(t, c) \/ Denied(t, c) \/ CallFails(t, c)
      PROVE  /\ call'[t]["me"].as \in {call[t]["me"].as, Nobody}
             /\ \A d \in Calls : Idle(t, d) => Idle(t, d)'
  BY <1>1, <1>2, <1>3 DEF CallFails
<1>4. CASE OpenTab(t)
  <2>1. call'[t] = [call[t] EXCEPT !["me"].phase = "boot"]
    BY <1>0, <1>4 DEF OpenTab
  <2>2. call'[t]["me"].as = call[t]["me"].as
    BY <1>0, <2>1 DEF CallRecord
  <2> QED
    BY <1>4, <2>2
<1>5. CASE Fetch(t)
  <2>1. call'[t]["me"] = call[t]["me"]
    BY <1>0, <1>5 DEF Fetch, SendCall
  <2> QED
    BY <1>5, <2>1
<1>6. CASE Deliver(t) /\ Refreshed(t)
  <2>1. /\ call'[t]["me"].as \in {call[t]["me"].as, tokens[refresh[t].token].user}
        /\ \A d \in Calls : Idle(t, d) => Idle(t, d)'
    <3>1. PICK owner : owner = tokens[refresh[t].token].user
      OBVIOUS
    <3>2. \A c \in Calls :
             /\ call[t][c].phase = "boot" => call'[t][c] = [phase |-> "sent", as |-> owner]
             /\ call[t][c].phase = "refreshing" =>
                   call'[t][c] = [phase |-> "retried", as |-> owner]
             /\ call[t][c].phase \notin {"boot", "refreshing"} => call'[t][c] = call[t][c]
      BY <1>6, <3>1, RefreshedFacts
    <3> QED
      BY <1>0, <3>1, <3>2 DEF Idle
  <2> QED
    BY <1>6, <2>1
<1>7. CASE RefreshFailed(t)
  <2>1. /\ call'[t]["me"].as \in {call[t]["me"].as, Nobody}
        /\ \A d \in Calls : Idle(t, d) => Idle(t, d)'
    BY <1>0, <1>7, RefreshFailedFacts, Nulls DEF Idle
  <2> QED
    BY <2>1
<1>8. CASE \/ JudgeRefresh(t) \/ MintRefresh(t) \/ SubmitLogin(t) \/ ServeLogin(t) \/ LoggedIn(t)
           \/ LoginFails(t) \/ ClickLogout(t) \/ ServeLogout(t) \/ LoggedOut(t) \/ LogoutFails(t)
  BY <1>8 DEF JudgeRefresh, MintRefresh, SubmitLogin, ServeLogin, LoggedIn, LoginFails,
              ClickLogout, ServeLogout, LoggedOut, LogoutFails, Idle
<1> QED
  BY <1>3, <1>4, <1>5, <1>6, <1>7, <1>8 DEF TabStep, Deliver, RefreshBreaks

(* How a tab loses its session. *)
LEMMA ThrownOut ==
  ASSUME StateOK, Orderly, NEW t \in Tabs, TabStep(t),
         status[t] # "unauthenticated", status'[t] = "unauthenticated"
  PROVE  \/ "failed" \in causes'
         \/ LoggedOut(t)
         \/ Denied(t, "me") /\ Rethrow(t, "me") /\ ~Idle(t, "me")
         \/ Deliver(t) /\ RefreshFailed(t) /\ refresh[t].phase = "denied"
<1>0. status \in [Tabs -> {"closed", "loading", "unauthenticated", "authenticated"}]
  BY DEF StateOK, ProviderOK
<1>1. CASE RefreshBreaks(t) \/ LogoutFails(t) \/ \E c \in Calls : CallFails(t, c)
  BY <1>1, FaultFacts DEF RefreshBreaks, LogoutFails, CallFails
<1>2. ASSUME NEW c \in Calls, Answered(t, c)
      PROVE  FALSE
  BY <1>0, <1>2 DEF Answered
<1>3. ASSUME NEW c \in Calls, Denied(t, c)
      PROVE  Denied(t, "me") /\ Rethrow(t, "me") /\ ~Idle(t, "me")
  BY <1>3, RethrowFacts DEF Denied, OnItsWay, Idle, provider
<1>4. CASE Deliver(t)
  BY <1>4, RefreshedFacts DEF Deliver
<1>5. CASE OpenTab(t)
  BY <1>0, <1>5 DEF OpenTab
<1>6. CASE LoggedIn(t)
  BY <1>6, LoggedInFacts
<1>7. CASE \/ Fetch(t) \/ JudgeRefresh(t) \/ MintRefresh(t) \/ SubmitLogin(t) \/ ServeLogin(t)
           \/ LoginFails(t) \/ ClickLogout(t) \/ ServeLogout(t)
  BY <1>7 DEF Fetch, JudgeRefresh, MintRefresh, SubmitLogin, ServeLogin, LoginFails,
              ClickLogout, ServeLogout, provider
<1> QED
  BY <1>1, <1>2, <1>3, <1>4, <1>5, <1>6, <1>7 DEF TabStep
-----------------------------------------------------------------------------
(* One person. *)

LEMMA ConfusionStays == Onward /\ Confused => Confused'
  BY DEF Onward, Confused

(* A login that meets nobody starts over, as its own user. *)
LEMMA LoggedInIsAboutTheUser ==
  ASSUME StateOK, Orderly, NEW t \in Tabs, TabStep(t), LoggedIn(t), NEW p \in Person, About(p),
         ~Confused'
  PROVE  OnePerson'
<1> PICK u : u = login[t].user
  OBVIOUS
<1>1. /\ login[t].token \in 1..minted /\ u \in Users /\ tokens[login[t].token].user = u
      /\ cookie' = login[t].token /\ access'[t] = u /\ user'[t] = u
      /\ status'[t] = "authenticated" /\ causes' = causes \cup Confusion(t, u)
      /\ UNCHANGED <<tokens, minted, call, refresh, logout, faults, forms>>
  BY LoggedInFacts
<1>2. /\ ~Bootstraps(t)
      /\ \A s \in Tabs \ {t} : ~Asks(s) /\ ~(status[s] = "authenticated" /\ user[s] # u)
  BY <1>1 DEF Confusion, Confused
<1>3. \A s \in Tabs : ~Refreshing(s) /\ Idle(s, "me")
  BY <1>2 DEF Bootstraps, Asks, Idle, Calls
<1>4. ASSUME NEW s \in Tabs PROVE AboutTab(s, u)'
  <2>1. call'[s]["me"].as = Nobody /\ ~Refreshing(s)'
    BY <1>1, <1>3 DEF Orderly, OrderlyTab, Refreshing, Calls
  <2>2. CASE s = t
    BY <1>1, <2>1, <2>2 DEF AboutTab
  <2>3. CASE s # t
    <3>1. Kept(s) /\ OrderlyTab(s) /\ AboutTab(s, p)
      BY <2>3, TabStepsAreLocal DEF Orderly, About
    <3>2. status[s] \in {"closed", "loading", "unauthenticated", "authenticated"}
      BY Typed
    <3>3. status[s] # "loading"
      BY <1>3, <3>1 DEF OrderlyTab
    <3>4. status[s] = "closed" => access[s] = Nobody
      BY <3>1 DEF OrderlyTab
    <3>5. status[s] = "authenticated" => user[s] = u /\ access[s] \in {u, Nobody}
      BY <1>2, <2>3, <3>1 DEF AboutTab
    <3> QED
      BY <2>1, <3>1, <3>2, <3>3, <3>4, <3>5 DEF AboutTab, Kept
  <2> QED
    BY <2>2, <2>3
<1>5. About(u)'
  BY <1>1, <1>4 DEF About
<1> QED
  BY <1>1, <1>5 DEF OnePerson, Person

LEMMA TabStepStaysAboutOne ==
  ASSUME StateOK, Budgeted, Orderly, NEW t \in Tabs, TabStep(t), ~LoggedIn(t),
         NEW p \in Person, About(p), ~Confused
  PROVE  About(p)'
<1>1. Onward /\ OrderlyTab(t) /\ minted \in Nat /\ cookie \in 0..minted
  BY TabStepsAreLocal, Typed DEF Orderly
<1>2. \A k \in 1..minted : tokens'[k].user = tokens[k].user
  BY <1>1 DEF Onward
<1>3. ASSUME Deliver(t), Refreshed(t)
      PROVE  /\ tokens[refresh[t].token].user = p /\ refresh[t].token \in 1..minted
             /\ cookie' = refresh[t].token /\ access'[t] = p
             /\ status'[t] = status[t] /\ user'[t] = user[t]
  <2>1. /\ refresh[t].token \in 1..minted /\ refresh[t].phase = "answered"
        /\ cookie' = refresh[t].token /\ access'[t] = tokens[refresh[t].token].user
        /\ status'[t] = status[t] /\ user'[t] = user[t]
    BY <1>3, RefreshedFacts
  <2>2. AboutTab(t, p) /\ refresh[t].token # 0
    BY <1>1, <2>1 DEF About
  <2>3. tokens[refresh[t].token].user = p
    BY <2>1, <2>2 DEF AboutTab, Refreshing
  <2> QED
    BY <2>1, <2>3
<1>4. cookie' # 0 => tokens'[cookie'].user = p
  <2>1. CASE cookie' = cookie
    BY <1>1, <1>2, <2>1 DEF About
  <2>2. CASE Deliver(t) /\ Refreshed(t)
    BY <1>2, <1>3, <2>2
  <2>3. CASE LoggedOut(t)
    BY <2>3 DEF LoggedOut
  <2> QED
    BY <2>1, <2>2, <2>3, CookieChanges
<1>5. ASSUME NEW s \in Tabs \ {t} PROVE AboutTab(s, p)'
  <2>1. Kept(s) /\ AboutTab(s, p) /\ refresh[s].token \in 0..minted
    BY TabStepsAreLocal, Typed DEF About
  <2> QED
    BY <1>1, <1>2, <2>1 DEF AboutTab, Kept, Refreshing
<1>6. AboutTab(t, p)'
  <2>1. AboutTab(t, p) /\ refresh[t].token \in 0..minted
    BY Typed DEF About
  <2>2. Refreshing(t)' /\ refresh'[t].token # 0 => tokens'[refresh'[t].token].user = p
    <3>1. CASE refresh'[t] = refresh[t]
      BY <1>1, <1>2, <2>1, <3>1 DEF AboutTab, Refreshing
    <3>2. CASE refresh'[t] = [phase |-> "sent", token |-> cookie]
      BY <1>1, <1>2, <3>2 DEF About
    <3>3. CASE JudgeRefresh(t) /\ refresh[t].phase = "sent" /\ refresh'[t].token = refresh[t].token
      BY <1>1, <1>2, <2>1, <3>3 DEF AboutTab, Refreshing
    <3>4. CASE MintRefresh(t)
      <4>1. /\ refresh[t].phase = "mint" /\ refresh[t].token \in 1..minted
            /\ tokens'[minted + 1] = [tokens[refresh[t].token] EXCEPT !.state = "live"]
            /\ refresh'[t] = [phase |-> "answered", token |-> minted + 1]
        BY <3>4, MintRefreshFacts
      <4>2. tokens[refresh[t].token] \in Row
        BY <4>1, Typed
      <4>3. tokens[refresh[t].token].user = p
        BY <2>1, <4>1 DEF AboutTab, Refreshing
      <4> QED
        BY <4>1, <4>2, <4>3 DEF Row
    <3>5. CASE refresh'[t] = NoRefresh
      BY <3>5, Nulls DEF Refreshing
    <3> QED
      BY <3>1, <3>2, <3>3, <3>4, <3>5, RefreshPhases
  <2>3. call'[t]["me"].as \in {p, Nobody}
    BY <1>3, <2>1, CallChanges DEF AboutTab
  <2>4. /\ status'[t] = "authenticated" => user'[t] = p
        /\ status'[t] # "unauthenticated" => access'[t] \in {p, Nobody}
    <3>1. CASE \/ status'[t] = status[t] /\ user'[t] = user[t] /\ access'[t] = access[t]
               \/ status'[t] = "unauthenticated" /\ access'[t] = Nobody
               \/ status[t] = "closed" /\ status'[t] = "loading" /\ access'[t] = access[t]
      BY <2>1, <3>1 DEF AboutTab
    <3>2. CASE /\ call[t]["me"].as # Nobody /\ ~Idle(t, "me")
               /\ status'[t] = "authenticated" /\ user'[t] = call[t]["me"].as
               /\ access'[t] = access[t]
      <4>1. status[t] = "loading"
        BY <1>1, <3>2 DEF OrderlyTab, Confused
      <4> QED
        BY <2>1, <3>2, <4>1 DEF AboutTab
    <3>3. CASE Deliver(t) /\ Refreshed(t)
      BY <1>3, <2>1, <3>3 DEF AboutTab
    <3> QED
      BY <3>1, <3>2, <3>3, ProviderChanges
  <2> QED
    BY <2>2, <2>3, <2>4 DEF AboutTab
<1> QED
  BY <1>4, <1>5, <1>6 DEF About

LEMMA TabStepKeepsOnePerson ==
  ASSUME StateOK, Budgeted, Orderly, OnePerson, NEW t \in Tabs, TabStep(t)
  PROVE  OnePerson'
<1>1. Confused => Confused'
  BY TabStepsAreLocal, ConfusionStays
<1>2. CASE ~Confused' /\ LoggedIn(t)
  BY <1>1, <1>2, LoggedInIsAboutTheUser DEF OnePerson
<1>3. CASE ~Confused' /\ ~LoggedIn(t)
  <2>1. PICK p \in Person : About(p)
    BY <1>1, <1>3 DEF OnePerson
  <2>2. About(p)'
    BY <1>1, <1>3, <2>1, TabStepStaysAboutOne
  <2> QED
    BY <2>2 DEF OnePerson
<1> QED
  BY <1>2, <1>3 DEF OnePerson

LEMMA GraceEndsKeepsOnePerson ==
  ASSUME StateOK, OnePerson, GraceEnds
  PROVE  OnePerson'
<1>1. Onward /\ UNCHANGED <<cookie, minted, provider, requests, history>>
  BY GraceEndsIsLocal
<1>2. CASE Confused
  BY <1>1, <1>2, ConfusionStays DEF OnePerson
<1>3. ASSUME NEW p \in Person, About(p) PROVE About(p)'
  <2>1. cookie \in 0..minted /\ minted \in Nat /\ \A s \in Tabs : refresh[s].token \in 0..minted
    BY SessionAssumption, Typed DEF StateOK, JarOK
  <2>2. \A k \in 1..minted : tokens'[k].user = tokens[k].user
    BY <1>1 DEF Onward
  <2>3. ASSUME NEW s \in Tabs PROVE AboutTab(s, p)'
    BY <1>1, <1>3, <2>1, <2>2, <2>3 DEF About, AboutTab, Refreshing, provider, requests
  <2> QED
    BY <1>1, <1>3, <2>1, <2>2, <2>3 DEF About
<1> QED
  BY <1>2, <1>3 DEF OnePerson
-----------------------------------------------------------------------------
(* After a logout. *)

LEMMA SignedOutChanges ==
  ASSUME NEW t \in Tabs, TabStep(t)
  PROVE  signedOut' = signedOut \/ LoggedIn(t) \/ LoggedOut(t)
<1>1. ASSUME NEW c \in Calls, Answered(t, c) \/ Denied(t, c) \/ CallFails(t, c)
      PROVE  signedOut' = signedOut
  BY <1>1 DEF Answered, Denied, CallFails, history
<1>2. CASE Deliver(t) \/ RefreshBreaks(t)
  BY <1>2 DEF Deliver, RefreshBreaks, history
<1>3. CASE \/ OpenTab(t) \/ Fetch(t) \/ JudgeRefresh(t) \/ MintRefresh(t) \/ SubmitLogin(t)
           \/ ServeLogin(t) \/ LoginFails(t) \/ ClickLogout(t) \/ ServeLogout(t)
           \/ LogoutFails(t)
  BY <1>3 DEF OpenTab, Fetch, JudgeRefresh, MintRefresh, SubmitLogin, ServeLogin, LoginFails,
              ClickLogout, ServeLogout, LogoutFails, history
<1> QED
  BY <1>1, <1>2, <1>3 DEF TabStep

(* Only a login brings a token back. *)
LEMMA NoWayBackStays ==
  ASSUME StateOK, Budgeted, Orderly, NoWayBack, NEW t \in Tabs, TabStep(t), ~LoggedIn(t)
  PROVE  NoWayBack'
<1>1. refresh[t].phase \notin {"mint", "answered"}
  BY DEF NoWayBack, Orderly, OrderlyTab, Refreshing
<1>2. cookie' = 0
  BY <1>1, CookieChanges, RefreshedFacts DEF NoWayBack, LoggedOut
<1>3. ASSUME NEW s \in Tabs \ {t}, Refreshing(s)' PROVE refresh'[s].token = 0
  BY <1>3, TabStepsAreLocal DEF NoWayBack, Kept, Refreshing
<1>4. Refreshing(t)' => refresh'[t].token = 0
  BY <1>1, RefreshPhases, Nulls DEF NoWayBack, Refreshing
<1> QED
  BY <1>2, <1>3, <1>4 DEF NoWayBack

(* A logout whose tab had no refresh with it on the way cuts them all off. *)
LEMMA LoggedOutIsNoWayBack ==
  ASSUME NEW t \in Tabs, LoggedOut(t), ~Overrun
  PROVE  NoWayBack'
<1>1. \A s \in Tabs : refresh[s].phase = "none"
  BY DEF LoggedOut, Overrun
<1> QED
  BY <1>1 DEF LoggedOut, NoWayBack, Refreshing

(* A tab that loses its session leaves no call behind, unless there is no   *)
(* way back.                                                                *)
LEMMA ThrownOutIsSignedOut ==
  ASSUME StateOK, Budgeted, Orderly, NEW t \in Tabs, TabStep(t), ~Overrun,
         "failed" \notin causes', ~Confused,
         status[t] # "unauthenticated", status'[t] = "unauthenticated"
  PROVE  NoWayBack' \/ \A c \in Calls : Idle(t, c)'
<1>1. OrderlyTab(t) /\ Calls = {"me", "api"} /\ "overtaken" \notin causes
  BY DEF Orderly, Calls, Confused
<1>2. CASE LoggedOut(t)
  BY <1>2, LoggedOutIsNoWayBack
<1>3. CASE Rethrow(t, "me") /\ ~Idle(t, "me")
  <2>1. Idle(t, "api")
    BY <1>1, <1>3 DEF OrderlyTab
  <2> QED
    BY <1>1, <1>3, <2>1, RethrowFacts, Nulls DEF Idle
<1>4. CASE RefreshFailed(t) /\ refresh[t].phase = "denied"
  <2>1. \E c \in Calls : call[t][c].phase \in {"boot", "refreshing"}
    BY <1>1, <1>4 DEF OrderlyTab, Refreshing
  <2>2. Idle(t, "me") \/ Idle(t, "api")
    BY <1>1 DEF OrderlyTab
  <2> QED
    BY <1>1, <1>4, <2>1, <2>2, RefreshFailedFacts, Nulls DEF Idle
<1> QED
  BY <1>2, <1>3, <1>4, ThrownOut

LEMMA TabStepKeepsSignedOut ==
  ASSUME StateOK, Budgeted, Orderly, SignedOutSoFar, NEW t \in Tabs, TabStep(t),
         overran' = (overran \/ Overrun')
  PROVE  SignedOutSoFar'
<1>1. Onward /\ \A s \in Tabs \ {t} : Kept(s)
  BY TabStepsAreLocal
<1>2. ~overran' => ~Overrun'
  OBVIOUS
<1>3. ASSUME signedOut', ~overran' PROVE NoWayBack'
  <2>1. ~overran /\ ~Overrun
    BY <1>3 DEF SignedOutSoFar
  <2>2. CASE LoggedOut(t)
    BY <2>1, <2>2, LoggedOutIsNoWayBack
  <2>3. CASE signedOut /\ ~LoggedIn(t)
    BY <2>1, <2>3, NoWayBackStays DEF SignedOutSoFar
  <2> QED
    BY <1>3, <2>2, <2>3, SignedOutChanges DEF LoggedIn
<1>4. ASSUME ~overran', "failed" \notin causes', ~Confused', NEW s \in Tabs,
             status'[s] = "unauthenticated"
      PROVE  access'[s] = Nobody /\ ((\E c \in Calls : ~Idle(s, c)') => NoWayBack')
  <2>1. /\ ~overran /\ ~Overrun /\ "failed" \notin causes /\ ~Confused
        /\ \A r \in Tabs : SignedOutTab(r)
    BY <1>1, <1>4, ConfusionStays DEF SignedOutSoFar, Onward
  <2>2. CASE s # t
    <3>1. Kept(s) /\ access[s] = Nobody /\ status[s] = "unauthenticated"
      BY <1>1, <1>4, <2>1, <2>2 DEF SignedOutTab, Kept
    <3>2. ASSUME NEW c \in Calls, ~Idle(s, c)' PROVE NoWayBack'
      <4>1. ~Idle(s, c)
        BY <3>1, <3>2 DEF Kept, Idle
      <4>2. NoWayBack
        BY <2>1, <3>1, <4>1 DEF SignedOutTab
      <4>3. ~LoggedIn(t)
        <5> SUFFICES ASSUME LoggedIn(t) PROVE FALSE
          OBVIOUS
        <5>1. "switched" \in Confusion(t, login[t].user)
          BY <2>2, <4>1 DEF Confusion, Asks, Idle
        <5> QED
          BY <1>4, <5>1, LoggedInFacts DEF Confused
      <4> QED
        BY <4>2, <4>3, NoWayBackStays
    <3> QED
      BY <3>1, <3>2 DEF Kept
  <2>3. CASE s = t /\ status[t] = "unauthenticated"
    <3>1. /\ access[t] = Nobody /\ OrderlyTab(t)
          /\ (\E c \in Calls : ~Idle(t, c)) => NoWayBack
      BY <2>1, <2>3 DEF SignedOutTab, Orderly
    <3>2. ~LoggedIn(t)
      BY <1>4, <2>3, LoggedInFacts
    <3>3. ~(Deliver(t) /\ Refreshed(t))
      <4> SUFFICES ASSUME Deliver(t), Refreshed(t) PROVE FALSE
        OBVIOUS
      <4>1. refresh[t].phase = "answered" /\ refresh[t].token # 0 /\ Refreshing(t)
        <5>1. refresh[t].token \in 1..minted /\ minted \in Nat /\ refresh[t].phase = "answered"
          BY RefreshedFacts, Typed
        <5> QED
          BY <5>1 DEF Refreshing
      <4>2. \E c \in Calls : ~Idle(t, c)
        BY <3>1, <4>1 DEF OrderlyTab, Idle
      <4> QED
        BY <3>1, <4>1, <4>2 DEF NoWayBack
    <3>4. access'[t] = Nobody
      BY <1>4, <2>3, <3>1, <3>2, <3>3, ProviderChanges
    <3>5. ASSUME NEW c \in Calls, ~Idle(t, c)' PROVE NoWayBack'
      <4>1. ~OpenTab(t) /\ ~Fetch(t)
        BY <2>3 DEF OpenTab, Fetch
      <4>2. ~Idle(t, c)
        BY <3>5, <4>1, CallChanges
      <4> QED
        BY <3>1, <3>2, <4>2, NoWayBackStays
    <3> QED
      BY <2>3, <3>4, <3>5
  <2>4. CASE s = t /\ status[t] # "unauthenticated"
    <3>1. NoWayBack' \/ \A c \in Calls : Idle(t, c)'
      BY <1>4, <2>1, <2>4, ThrownOutIsSignedOut
    <3>2. access'[t] = Nobody
      <4>1. ~(Deliver(t) /\ Refreshed(t)) /\ ~LoggedIn(t)
        BY <1>4, <2>4, RefreshedFacts, LoggedInFacts
      <4> QED
        BY <1>4, <2>4, <4>1, ProviderChanges
    <3> QED
      BY <2>4, <3>1, <3>2
  <2> QED
    BY <2>2, <2>3, <2>4
<1> QED
  BY <1>2, <1>3, <1>4 DEF SignedOutSoFar, SignedOutTab

LEMMA GraceEndsKeepsSignedOut ==
  ASSUME StateOK, SignedOutSoFar, GraceEnds, overran' = (overran \/ Overrun')
  PROVE  SignedOutSoFar'
<1>1. UNCHANGED <<cookie, provider, requests, history>>
  BY GraceEndsIsLocal
<1>2. /\ cookie' = cookie /\ status' = status /\ access' = access /\ call' = call
      /\ refresh' = refresh /\ logout' = logout /\ signedOut' = signedOut /\ causes' = causes
  BY <1>1 DEF provider, requests, input, history
<1>3. /\ Overrun' <=> Overrun
      /\ NoWayBack' <=> NoWayBack
      /\ Confused' <=> Confused
  BY <1>2 DEF Overrun, NoWayBack, Refreshing, Confused
<1>4. \A t \in Tabs : SignedOutTab(t) => SignedOutTab(t)'
  BY <1>2, <1>3 DEF SignedOutTab, Idle
<1> QED
  BY <1>2, <1>3, <1>4 DEF SignedOutSoFar
-----------------------------------------------------------------------------
(* The invariant. *)

LEMMA InitInv == Init => SessionInv
<1> SUFFICES ASSUME Init PROVE SessionInv
  OBVIOUS
<1>1. Base /\ StateOK /\ Orderly
  BY InitBase, TypeParts DEF Base
<1>2. \A t \in Tabs : /\ refresh[t] = NoRefresh /\ login[t] = NoForm /\ logout[t] = NoForm
                      /\ status[t] = "closed" /\ access[t] = Nobody
                      /\ \A c \in Calls : call[t][c] = NoCall
  BY DEF Init
<1>3. FamiliesSound
  BY <1>2, Nulls DEF FamiliesSound, SoundTab, Admitted, Calls
<1>4. OnePerson
  <2>1. PICK p \in Person : cookie # 0 => tokens[cookie].user = p
    <3>1. CASE cookie = 0
      BY <3>1 DEF Person
    <3>2. CASE cookie # 0
      <4>1. cookie \in 1..minted
        BY <1>1, <3>2, SessionAssumption DEF StateOK, JarOK
      <4>2. tokens[cookie].user \in Users
        BY <1>1, <4>1 DEF StateOK, JarOK, Row
      <4> QED
        BY <4>2 DEF Person
    <3> QED
      BY <3>1, <3>2
  <2>2. About(p)
    BY <1>2, <2>1, Nulls DEF About, AboutTab, Refreshing, Calls
  <2> QED
    BY <2>2 DEF OnePerson
<1>5. SignedOutSoFar
  <2>1. ~Overrun /\ signedOut = FALSE /\ \A t \in Tabs : SignedOutTab(t)
    BY <1>2, Nulls DEF Init, Overrun, SignedOutTab
  <2> QED
    BY <2>1 DEF SignedOutSoFar
<1> QED
  BY <1>1, <1>3, <1>4, <1>5 DEF SessionInv

LEMMA StepKeepsInv == SessionInv /\ [Next]_vars => SessionInv'
<1> SUFFICES ASSUME SessionInv, [Next]_vars PROVE SessionInv'
  OBVIOUS
<1>0. StateOK /\ Budgeted /\ Orderly /\ Base'
  BY StepKeepsBase, TypeParts DEF SessionInv, Base
<1>1. CASE Next /\ GraceEnds
  BY <1>0, <1>1, GraceEndsKeepsSound, GraceEndsKeepsOnePerson, GraceEndsKeepsSignedOut
  DEF Next, SessionInv
<1>2. ASSUME Next, NEW t \in Tabs, TabStep(t) PROVE SessionInv'
  BY <1>0, <1>2, TabStepKeepsSound, TabStepKeepsOnePerson, TabStepKeepsSignedOut
  DEF Next, SessionInv
<1>3. CASE UNCHANGED vars
  <2>1. /\ cookie' = cookie /\ tokens' = tokens /\ minted' = minted /\ status' = status
        /\ user' = user /\ access' = access /\ call' = call /\ refresh' = refresh
        /\ login' = login /\ logout' = logout /\ signedOut' = signedOut /\ causes' = causes
        /\ overran' = overran
    BY <1>3 DEF vars, jar, provider, requests, input, history
  <2>2. FamiliesSound'
    BY <2>1 DEF SessionInv, FamiliesSound, SoundTab, Sound, Good, Excused, Admitted,
                FamilyIsLive, FamilyIsMinting
  <2>3. OnePerson'
    BY <2>1 DEF SessionInv, OnePerson, Confused, About, AboutTab, Refreshing
  <2>4. SignedOutSoFar'
    BY <2>1 DEF SessionInv, SignedOutSoFar, Overrun, NoWayBack, Confused, SignedOutTab, Idle,
                Refreshing
  <2> QED
    BY <1>0, <2>2, <2>3, <2>4 DEF SessionInv
<1> QED
  BY <1>1, <1>2, <1>3, StepsOfTabs DEF Next

(* The invariant that carries the three: families, persons and logouts are *)
(* sound in every state that the tabs and the handlers can reach.          *)
THEOREM SessionInvariant == Spec => []SessionInv
  BY InitInv, StepKeepsInv, PTL DEF Spec

(* As long as no two users meet in the browser, and no login overtakes a    *)
(* bootstrap, a tab never acts as anyone but the user it shows: a refresh   *)
(* takes whatever account the shared cookie is of (authClient.ts:41).       *)
THEOREM TabsActAsShown == Spec => []ActsAsShown
<1>1. SessionInv => ActsAsShown
  <2> SUFFICES ASSUME OnePerson, ~Confused PROVE ActsAsShown
    BY DEF SessionInv, ActsAsShown, Confused
  <2>1. PICK p \in Person : About(p)
    BY DEF OnePerson
  <2> QED
    BY <2>1 DEF ActsAsShown, About, AboutTab
<1> QED
  BY <1>1, SessionInvariant, PTL

(* Once a logout's answer has come, and no refresh was on its way with any  *)
(* logout, nothing in the browser has a token to sign in with, and no tab   *)
(* that shows no user has one either (AuthProvider.tsx:77-83).              *)
THEOREM LogoutsStick == Spec => []LogoutSticks
<1>1. SessionInv => LogoutSticks
  BY DEF SessionInv, SignedOutSoFar, SignedOutTab, NoWayBack, LogoutSticks, Confused
<1> QED
  BY <1>1, SessionInvariant, PTL

(* Tabs that share the cookie do not throw each other out: a tab that shows *)
(* a user leaves its session only once a logout, a failure, a late or a     *)
(* racing replay, or a login that overtook its bootstrap has happened.      *)
THEOREM TabsSignOutForAReason == Spec => SignedOutForAReason
<1> DEFINE Reasoned ==
       \A t \in Tabs :
          status[t] = "authenticated" /\ status'[t] = "unauthenticated"
          => causes' \cap {"logout", "failed", "late", "race", "overtaken"} # {}
<1>1. SessionInv /\ [Next]_vars => [Reasoned]_vars
  <2> SUFFICES ASSUME SessionInv, Next, NEW t \in Tabs,
                      status[t] = "authenticated", status'[t] = "unauthenticated"
               PROVE  causes' \cap {"logout", "failed", "late", "race", "overtaken"} # {}
    OBVIOUS
  <2>1. StateOK /\ Budgeted /\ Orderly /\ FamiliesSound /\ OrderlyTab(t) /\ SoundTab(t)
    BY TypeParts DEF SessionInv, Base, Orderly, FamiliesSound
  <2>2. ~GraceEnds
    BY <2>1, GraceEndsIsLocal DEF provider
  <2>3. PICK s \in Tabs : TabStep(s)
    BY <2>2, StepsOfTabs DEF Next
  <2>4. s = t /\ causes \subseteq causes'
    BY <2>1, <2>3, TabStepsAreLocal DEF Kept, Onward
  <2>5. CASE "failed" \in causes'
    BY <2>5
  <2>6. CASE LoggedOut(t)
    BY <2>1, <2>4, <2>6 DEF LoggedOut, OrderlyTab
  <2>7. CASE ~Idle(t, "me")
    BY <2>1, <2>4, <2>7 DEF OrderlyTab
  <2>8. CASE refresh[t].phase = "denied"
    BY <2>1, <2>4, <2>8 DEF SoundTab, Admitted, Excused
  <2> QED
    BY <2>1, <2>3, <2>4, <2>5, <2>6, <2>7, <2>8, ThrownOut
<1> QED
  BY <1>1, SessionInvariant, PTL DEF Spec, SignedOutForAReason
=============================================================================
