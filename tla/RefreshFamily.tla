--------------------------- MODULE RefreshFamily ---------------------------
(***************************************************************************)
(* Login, Refresh and Logout of the auth service                           *)
(* (server/internal/app/auth) over the refresh_tokens table.  No use case  *)
(* opens a transaction: every statement commits on its own, and requests   *)
(* interleave between any two of them.                                     *)
(*                                                                         *)
(* One user, whose families (sessions) share the table; the only statement *)
(* that reaches beyond a family is the purge of a user's expired ones.     *)
(* Whoever was given a token may present it at any time, and any number of *)
(* times: tabs share a cookie, and responses get lost.                     *)
(*                                                                         *)
(* A reading of the clock and the statement that follows it are one step;  *)
(* the statements that use the reading later do so however late.  A login  *)
(* or logout is one step: only one statement of it can matter to others.   *)
(***************************************************************************)
EXTENDS Naturals, FiniteSets

CONSTANTS Requests,
          Grace,        \* RefreshGraceWindow, in ticks
          Lifetime,     \* refreshTTL, in ticks
          MaxTokens,    \* bound on the tokens ever minted
          MaxTime       \* bound on the clock

ASSUME RefreshAssumption == /\ Grace \in Nat
                            /\ Lifetime \in Nat \ {0}
                            /\ MaxTokens \in Nat
                            /\ MaxTime \in Nat

VARIABLES tokens,     \* the rows of refresh_tokens
          minted,     \* how many tokens were generated so far
          now,
          pc,         \* the next statement of each refresh
          presented,  \* the token it was given
          row,        \* the row it has read
          at,         \* the clock when it decided
          ended,      \* history: the families that were revoked as reused,
                      \* logged out of, or had a refresh fail half way
          dead        \* history: the families that have been without a live
                      \* token and without a refresh that could mint one

request == <<pc, presented, row, at>>
vars == <<tokens, minted, now, request, ended, dead>>

(* Tokens are known by their number, families by that of their first one. *)
Token == 1..MaxTokens
Time == 0..MaxTime
Never == MaxTime + 1

Row == [family : Token, expires : 0..(MaxTime + Lifetime),
        revoked : Time \cup {Never}]
NoRow == [family |-> 0, expires |-> 0, revoked |-> Never]

TypeOK ==
    /\ tokens \in [Token -> Row \cup {NoRow}]
    /\ minted \in 0..MaxTokens
    /\ now \in Time
    /\ pc \in [Requests ->
          {"idle", "check", "rotate", "mint", "purge", "reuse"}]
    /\ presented \in [Requests -> 0..MaxTokens]
    /\ row \in [Requests -> Row \cup {NoRow}]
    /\ at \in [Requests -> Time]
    /\ ended \in SUBSET Token /\ dead \in SUBSET Token

Init ==
    /\ tokens = [k \in Token |-> NoRow]
    /\ minted = 0
    /\ now = 0
    /\ pc = [t \in Requests |-> "idle"]
    /\ presented = [t \in Requests |-> 0]
    /\ row = [t \in Requests |-> NoRow]
    /\ at = [t \in Requests |-> 0]
    /\ ended = {} /\ dead = {}

Tick ==
    /\ now < MaxTime
    /\ now' = now + 1
    /\ UNCHANGED <<tokens, minted, request, ended>>
-----------------------------------------------------------------------------
(* The statements of the repository *)

IsLive(r, time) == r.revoked = Never /\ r.expires > time

FamilyHasLiveToken(family, time) ==
    \E k \in Token : tokens[k].family = family /\ IsLive(tokens[k], time)

SlipStillNull(r) == r # NoRow
(* WHERE revoked_at IS NULL *)
StillNull(r) == r # NoRow /\ r.revoked = Never

RevokeThose(which, time) ==
    tokens' = [k \in Token |-> IF k \in which /\ StillNull(tokens[k])
                               THEN [tokens[k] EXCEPT !.revoked = time]
                               ELSE tokens[k]]

Revoke(k, time) == RevokeThose({k}, time)

RevokeFamily(family, time) ==
    RevokeThose({k \in Token : tokens[k].family = family}, time)

SlipExpiredFamily(family, time) ==
    \E k \in Token : tokens[k].family = family /\ tokens[k].expires <= time
(* HAVING max(expires_at) <= time *)
ExpiredFamily(family, time) ==
    \A k \in Token : tokens[k].family = family => tokens[k].expires <= time

PurgeExpiredFamilies(time) ==
    tokens' = [k \in Token |-> IF ExpiredFamily(tokens[k].family, time)
                               THEN NoRow ELSE tokens[k]]

(* mintInFamily: the insert of a token that nobody has seen. *)
Create(family) ==
    /\ minted < MaxTokens
    /\ minted' = minted + 1
    /\ tokens' = [tokens EXCEPT ![minted + 1] =
          [family |-> family, expires |-> now + Lifetime, revoked |-> Never]]
-----------------------------------------------------------------------------
(* The use cases *)

Goto(t, label) == pc' = [pc EXCEPT ![t] = label]

(* The request is answered, and its locals are gone. *)
Reply(t) ==
    /\ Goto(t, "idle")
    /\ presented' = [presented EXCEPT ![t] = 0]
    /\ row' = [row EXCEPT ![t] = NoRow]
    /\ at' = [at EXCEPT ![t] = 0]

(* A password that matches opens a new family. *)
Login ==
    /\ Create(minted + 1)
    /\ UNCHANGED <<now, request, ended>>

(* An unknown token is logged out already. *)
Logout(k) ==
    /\ tokens[k] # NoRow
    /\ Revoke(k, now)
    /\ ended' = ended \cup {tokens[k].family}
    /\ UNCHANGED <<minted, now, request>>

(* FindByHash; a token that is not there is answered 401 at once. *)
FindByHash(t) ==
    \E k \in 1..minted :
        /\ pc[t] = "idle" /\ tokens[k] # NoRow
        /\ presented' = [presented EXCEPT ![t] = k]
        /\ row' = [row EXCEPT ![t] = tokens[k]]
        /\ Goto(t, "check")
        /\ UNCHANGED <<tokens, minted, now, at, ended>>

SlipAnyFamily(r, familyHasLiveToken, time) ==
    IF r.revoked # Never
    THEN IF time - r.revoked <= Grace THEN "replay" ELSE "reuse"
    ELSE IF r.expires <= time THEN "invalid" ELSE "rotate"

DecideRefresh(r, familyHasLiveToken, time) ==
    IF r.revoked # Never
    THEN IF time - r.revoked <= Grace /\ familyHasLiveToken
         THEN "replay" ELSE "reuse"
    ELSE IF r.expires <= time THEN "invalid" ELSE "rotate"

SlipNextStatement(decision) == decision
(* A tolerated replay mints without revoking anything. *)
NextStatement(decision) == IF decision = "replay" THEN "mint" ELSE decision

(* The clock is read once for the whole decision; the row that it judges   *)
(* is the one read before.                                                 *)
Decide(t) ==
    LET decision == DecideRefresh(
            row[t], FamilyHasLiveToken(row[t].family, now), now)
    IN
    /\ pc[t] = "check"
    /\ IF decision = "invalid"
       THEN Reply(t)
       ELSE /\ Goto(t, NextStatement(decision))
            /\ at' = [at EXCEPT ![t] = now]
            /\ UNCHANGED <<presented, row>>
    /\ UNCHANGED <<tokens, minted, now, ended>>

Reuse(t) ==
    /\ pc[t] = "reuse"
    /\ RevokeFamily(row[t].family, at[t])
    /\ ended' = ended \cup {row[t].family}
    /\ Reply(t)
    /\ UNCHANGED <<minted, now>>

Rotate(t) ==
    /\ pc[t] = "rotate"
    /\ Revoke(presented[t], at[t])
    /\ Goto(t, "mint")
    /\ at' = [at EXCEPT ![t] = 0]    \* not used again
    /\ UNCHANGED <<minted, now, presented, row, ended>>

ContinueFamily(t) ==
    /\ pc[t] = "mint"
    /\ Create(row[t].family)
    /\ Goto(t, "purge")
    /\ UNCHANGED <<now, presented, row, at, ended>>

(* "A failure here must not fail the refresh" (refresh.go:61). *)
Purge(t) ==
    /\ pc[t] = "purge"
    /\ PurgeExpiredFamilies(now) \/ UNCHANGED tokens
    /\ Reply(t)
    /\ UNCHANGED <<minted, now, ended>>

(* A statement fails, or the client is gone and its context cancelled: the *)
(* session has lost the token that a rotation has just revoked.            *)
Fail(t) ==
    /\ pc[t] \notin {"idle", "purge"}
    /\ Reply(t)
    /\ ended' = IF pc[t] = "mint" THEN ended \cup {row[t].family} ELSE ended
    /\ UNCHANGED <<tokens, minted, now>>

Step ==
    \/ Tick
    \/ Login
    \/ \E k \in 1..minted : Logout(k)
    \/ \E t \in Requests :
          \/ FindByHash(t) \/ Decide(t) \/ Reuse(t) \/ Rotate(t)
          \/ ContinueFamily(t) \/ Purge(t) \/ Fail(t)

HasLiveToken(f) == FamilyHasLiveToken(f, now)
InFlight(f) == \E t \in Requests : row[t].family = f /\ pc[t] # "purge"
Dead(f) == ~HasLiveToken(f) /\ ~InFlight(f)

Next == Step /\ dead' = dead \cup {f \in 1..minted : Dead(f)}'

Spec == Init /\ [][Next]_vars
-----------------------------------------------------------------------------
(* Properties *)

(* A token is revoked once and for good: requests that rotate, replay,     *)
(* revoke and log out at the same time neither revive it nor move its      *)
(* revocation to a later time, which would stretch the grace window        *)
(* (refresh_token_repository.go:62-79).                                    *)
RevokedOnce ==
    [][\A k \in Token :
          tokens[k].revoked # Never =>
             tokens'[k] = NoRow \/ tokens'[k].revoked = tokens[k].revoked]_vars

IsOpen(f) ==
    HasLiveToken(f) \/ \E t \in Requests : row[t].family = f /\ pc[t] = "mint"

(* A family that has had no live token while no refresh of it was under    *)
(* way never gets a live token again: no replay within the grace window    *)
(* brings a session back that a reuse or a logout has ended, and no        *)
(* rotation one that has expired (token.go:28-47).                         *)
DeadFamiliesStayDead == \A f \in dead : ~HasLiveToken(f)

(* A session that nobody logged out of, that was not judged stolen and     *)
(* that had no refresh fail half way lasts until its newest token expires: *)
(* no rotation, replay or purge, of this session or of another one of the  *)
(* user's, leaves it without a token (refresh.go:37-65).                   *)
SessionsEndForAReason ==
    [][\A f \in 1..minted :
          IsOpen(f) /\ ~IsOpen(f)' =>
             \/ f \in ended'
             \/ \E k \in 1..minted :
                   /\ tokens[k].family = f /\ tokens[k].revoked = Never
                   /\ tokens[k].expires <= now']_vars

(* token.go:5-8: the grace window "absorbs benign concurrent / cross-tab   *)
(* refresh races": in a session that nothing else has ended, a token       *)
(* replayed within the window is not judged stolen.                        *)
BenignRacesAreAbsorbed ==
    \A t \in Requests : pc[t] = "reuse" =>
        at[t] - row[t].revoked > Grace \/ row[t].family \in ended
=============================================================================
