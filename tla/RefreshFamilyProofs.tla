------------------------ MODULE RefreshFamilyProofs ------------------------
(***************************************************************************)
(* The refresh-token families, for every number of requests, tokens and    *)
(* ticks, and whatever the grace window and the lifetime are: the table    *)
(* stays well formed, a revocation is final, a session that is over stays  *)
(* over, and one that nothing has ended keeps a token.                     *)
(*                                                                         *)
(* DeadFamiliesStayDead is not inductive.  A request that was under way    *)
(* when its family died could bring it back, so the invariant says that    *)
(* none is, and that those which start later hold a row that no decision   *)
(* lets through: a revoked one, or one that has expired by now.            *)
(***************************************************************************)
EXTENDS RefreshFamily, TLAPS

(* The numbers that were not given out yet name no row. *)
UnmintedAreBlank == \A k \in Token : k > minted => tokens[k] = NoRow

(* A request that is under way holds the row that it was given, and the    *)
(* row's token, unless a purge has removed it, is still of that family.    *)
Holds(t) ==
    /\ presented[t] \in 1..minted
    /\ row[t] \in Row
    /\ \/ tokens[presented[t]] = NoRow
       \/ tokens[presented[t]].family = row[t].family

RequestsHoldTheirRows ==
    \A t \in Requests : IF pc[t] = "idle" THEN row[t] = NoRow ELSE Holds(t)

(* A refresh that no longer can, or never could, mint into its family. *)
Spent(t) ==
    /\ pc[t] \notin {"rotate", "mint"}
    /\ pc[t] = "check" => row[t].revoked # Never \/ row[t].expires <= now

Over(f) ==
    /\ f \in 1..minted
    /\ ~HasLiveToken(f)
    /\ \A t \in Requests : row[t].family = f => Spent(t)

DeadFamiliesAreOver == \A f \in dead : Over(f)

IInv ==
    /\ TypeOK
    /\ UnmintedAreBlank
    /\ RequestsHoldTheirRows
    /\ DeadFamiliesAreOver
-----------------------------------------------------------------------------
(* What the statements do to the table. *)

LEMMA RowFacts ==
    /\ NoRow \notin Row
    /\ NoRow.family = 0 /\ NoRow.revoked = Never /\ NoRow.expires = 0
    /\ \A r \in Row \cup {NoRow} :
          /\ r.family \in 0..MaxTokens
          /\ r.expires \in Nat
          /\ r.revoked \in Time \cup {Never}
    /\ \A r \in Row : r.family \in Token
    /\ Never \notin Time
  BY RefreshAssumption DEF Row, NoRow, Token, Time, Never

(* A revocation stamps rows that had no stamp, and changes nothing else. *)
LEMMA RevocationOnlyStamps ==
  ASSUME TypeOK, NEW which, NEW time \in Time, RevokeThose(which, time)
  PROVE  /\ tokens' \in [Token -> Row \cup {NoRow}]
         /\ \A k \in Token :
               /\ tokens'[k] = NoRow <=> tokens[k] = NoRow
               /\ tokens'[k].family = tokens[k].family
               /\ tokens'[k].expires = tokens[k].expires
               /\ tokens[k].revoked # Never => tokens'[k] = tokens[k]
               /\ k \notin which => tokens'[k] = tokens[k]
<1>1. ASSUME NEW k \in Token, k \in which, StillNull(tokens[k])
      PROVE  LET r == [tokens[k] EXCEPT !.revoked = time] IN
             /\ r \in Row
             /\ r.family = tokens[k].family
             /\ r.expires = tokens[k].expires
  BY <1>1 DEF TypeOK, StillNull, Row, NoRow
<1>2. \A k \in Token :
          tokens'[k] = IF k \in which /\ StillNull(tokens[k])
                       THEN [tokens[k] EXCEPT !.revoked = time]
                       ELSE tokens[k]
  BY DEF RevokeThose
<1>3. tokens' \in [Token -> Row \cup {NoRow}]
  <2>1. \A k \in Token : tokens'[k] \in Row \cup {NoRow}
    BY <1>1, <1>2 DEF TypeOK
  <2>2. QED
    BY <2>1, <1>2 DEF RevokeThose
<1>4. ASSUME NEW k \in Token
      PROVE  /\ tokens'[k] = NoRow <=> tokens[k] = NoRow
             /\ tokens'[k].family = tokens[k].family
             /\ tokens'[k].expires = tokens[k].expires
             /\ tokens[k].revoked # Never => tokens'[k] = tokens[k]
             /\ k \notin which => tokens'[k] = tokens[k]
  <2>1. CASE k \in which /\ StillNull(tokens[k])
    BY <2>1, <1>1, <1>2, RowFacts DEF StillNull
  <2>2. CASE ~(k \in which /\ StillNull(tokens[k]))
    BY <2>2, <1>2
  <2>3. QED
    BY <2>1, <2>2
<1>5. QED
  BY <1>3, <1>4

(* A purge blanks rows that have expired, and changes nothing else. *)
LEMMA PurgeOnlyRemovesExpired ==
  ASSUME TypeOK, PurgeExpiredFamilies(now)
  PROVE  /\ tokens' \in [Token -> Row \cup {NoRow}]
         /\ \A k \in Token :
               \/ tokens'[k] = tokens[k]
               \/ tokens'[k] = NoRow /\ tokens[k].expires <= now
  BY DEF TypeOK, PurgeExpiredFamilies, ExpiredFamily

(* An insert fills the next blank row with a token that is live. *)
LEMMA CreateAddsOne ==
  ASSUME TypeOK, UnmintedAreBlank, NEW family \in Token, Create(family)
  PROVE  /\ tokens' \in [Token -> Row \cup {NoRow}]
         /\ minted' = minted + 1 /\ minted' \in Token
         /\ tokens[minted'] = NoRow
         /\ tokens'[minted'].family = family
         /\ tokens'[minted'] # NoRow
         /\ IsLive(tokens'[minted'], now)
         /\ \A k \in Token : k # minted' => tokens'[k] = tokens[k]
<1> DEFINE r == [family |-> family, expires |-> now + Lifetime, revoked |-> Never]
<1>1. minted' = minted + 1 /\ minted' \in Token
  BY RefreshAssumption DEF Create, TypeOK, Token
<1>2. r \in Row /\ r # NoRow /\ IsLive(r, now)
  BY RefreshAssumption DEF TypeOK, Row, NoRow, IsLive, Time, Token
<1>3. tokens' = [tokens EXCEPT ![minted'] = r]
  BY <1>1 DEF Create
<1>4. tokens[minted'] = NoRow
  BY <1>1 DEF UnmintedAreBlank, TypeOK
<1> HIDE DEF r
<1>5. tokens' \in [Token -> Row \cup {NoRow}] /\ tokens'[minted'] = r
  BY <1>1, <1>2, <1>3 DEF TypeOK
<1>6. \A k \in Token : k # minted' => tokens'[k] = tokens[k]
  BY <1>1, <1>3 DEF TypeOK
<1>7. r.family = family
  BY DEF r
<1>8. QED
  BY <1>1, <1>2, <1>4, <1>5, <1>6, <1>7
-----------------------------------------------------------------------------
(* Every step keeps the table and the requests well formed, and the        *)
(* families that are over.                                                 *)

WellFormed ==
    /\ tokens \in [Token -> Row \cup {NoRow}]
    /\ minted \in 0..MaxTokens
    /\ now \in Time
    /\ pc \in [Requests ->
          {"idle", "check", "rotate", "mint", "purge", "reuse"}]
    /\ presented \in [Requests -> 0..MaxTokens]
    /\ row \in [Requests -> Row \cup {NoRow}]
    /\ at \in [Requests -> Time]
    /\ ended \in SUBSET Token
    /\ UnmintedAreBlank
    /\ RequestsHoldTheirRows

LEMMA InitEstablishes == Init => IInv
<1> SUFFICES ASSUME Init PROVE IInv
  OBVIOUS
<1>1. TypeOK
  BY RefreshAssumption DEF Init, TypeOK, Time
<1>2. QED
  BY <1>1 DEF Init, IInv, UnmintedAreBlank, RequestsHoldTheirRows,
              DeadFamiliesAreOver

(* Of each row the table keeps what it is, or less. *)
TableShrinks ==
    /\ tokens' \in [Token -> Row \cup {NoRow}]
    /\ \A k \in Token :
          \/ tokens'[k] = NoRow
          \/ /\ tokens'[k].family = tokens[k].family
             /\ tokens'[k].expires = tokens[k].expires
             /\ tokens[k].revoked # Never => tokens'[k] = tokens[k]
             /\ tokens[k] # NoRow

LEMMA RevocationShrinks ==
  ASSUME TypeOK, NEW which, NEW time \in Time, RevokeThose(which, time)
  PROVE  TableShrinks
  BY RevocationOnlyStamps DEF TableShrinks

LEMMA PurgeShrinks ==
  ASSUME TypeOK, PurgeExpiredFamilies(now) \/ UNCHANGED tokens
  PROVE  TableShrinks
<1>1. CASE PurgeExpiredFamilies(now)
  BY <1>1, PurgeOnlyRemovesExpired DEF TableShrinks
<1>2. CASE UNCHANGED tokens
  BY <1>2 DEF TableShrinks, TypeOK
<1>3. QED
  BY <1>1, <1>2

(* No family comes to life as the table shrinks and time goes by. *)
LEMMA ShrinkingRevivesNobody ==
  ASSUME TypeOK, NEW f \in Token, ~HasLiveToken(f), TableShrinks,
         now' \in Time, now' >= now
  PROVE  ~HasLiveToken(f)'
<1> SUFFICES ASSUME NEW k \in Token, tokens'[k].family = f, IsLive(tokens'[k], now')
             PROVE  FALSE
  BY DEF HasLiveToken, FamilyHasLiveToken, IsLive
<1>1. tokens'[k] # NoRow
  BY RowFacts DEF Token
<1>2. tokens[k].family = f /\ IsLive(tokens[k], now')
  BY <1>1 DEF IsLive, TableShrinks
<1>3. tokens[k].expires \in Nat /\ now \in Nat /\ now' \in Nat
  BY RowFacts DEF TypeOK, Time
<1>4. IsLive(tokens[k], now)
  BY <1>2, <1>3 DEF IsLive
<1>5. QED
  BY <1>2, <1>4 DEF HasLiveToken, FamilyHasLiveToken

(* An insert makes its own family live, and no other. *)
LEMMA CreateRevivesNobodyElse ==
  ASSUME TypeOK, UnmintedAreBlank, NEW family \in Token, Create(family), now' = now,
         NEW f \in Token, f # family, ~HasLiveToken(f)
  PROVE  ~HasLiveToken(f)'
<1> SUFFICES ASSUME NEW k \in Token, tokens'[k].family = f, IsLive(tokens'[k], now)
             PROVE  FALSE
  BY DEF HasLiveToken, FamilyHasLiveToken, IsLive
<1>1. tokens'[k] = tokens[k]
  BY CreateAddsOne
<1>2. QED
  BY <1>1 DEF HasLiveToken, FamilyHasLiveToken

(* What the requests hold outlasts a shrinking table. *)
LEMMA ShrinkingKeepsWhatIsHeld ==
  ASSUME IInv, TableShrinks, minted' = minted
  PROVE  /\ UnmintedAreBlank'
         /\ \A t \in Requests :
               Holds(t) /\ presented'[t] = presented[t] /\ row'[t] = row[t]
               => Holds(t)'
<1>1. UnmintedAreBlank'
  BY DEF IInv, UnmintedAreBlank, TableShrinks
<1>2. ASSUME NEW t \in Requests, Holds(t),
             presented'[t] = presented[t], row'[t] = row[t]
      PROVE  Holds(t)'
  <2>1. presented[t] \in Token
    BY <1>2, RefreshAssumption DEF Holds, IInv, TypeOK, Token
  <2>2. QED
    BY <1>2, <2>1 DEF Holds, TableShrinks
<1>3. QED
  BY <1>1, <1>2

(* What is left to show of a step of one request that mints nothing. *)
LEMMA OneRequestMoves ==
  ASSUME IInv, NEW t \in Requests, TableShrinks, minted' = minted, now' = now,
         ended' \in SUBSET Token,
         NEW label \in {"idle", "check", "rotate", "mint", "purge", "reuse"},
         pc' = [pc EXCEPT ![t] = label],
         NEW k \in 0..MaxTokens, presented' = [presented EXCEPT ![t] = k],
         NEW r \in Row \cup {NoRow}, row' = [row EXCEPT ![t] = r],
         NEW time \in Time, at' = [at EXCEPT ![t] = time],
         IF label = "idle" THEN r = NoRow ELSE Holds(t)',
         \A f \in dead : r.family = f => Spent(t)'
  PROVE  WellFormed' /\ \A f \in dead : Over(f)'
<1>1. /\ pc'[t] = label /\ row'[t] = r
      /\ \A u \in Requests \ {t} :
            pc'[u] = pc[u] /\ presented'[u] = presented[u] /\ row'[u] = row[u]
  BY DEF IInv, TypeOK
<1>2. RequestsHoldTheirRows'
  <2> SUFFICES ASSUME NEW u \in Requests
               PROVE  IF pc'[u] = "idle" THEN row'[u] = NoRow ELSE Holds(u)'
    BY DEF RequestsHoldTheirRows
  <2>1. CASE u = t
    BY <1>1, <2>1
  <2>2. CASE u # t
    BY <1>1, <2>2, ShrinkingKeepsWhatIsHeld DEF IInv, RequestsHoldTheirRows
  <2>3. QED
    BY <2>1, <2>2
<1>3. WellFormed'
  BY <1>2, ShrinkingKeepsWhatIsHeld DEF IInv, TypeOK, WellFormed, TableShrinks
<1>4. ASSUME NEW f \in dead PROVE Over(f)'
  <2>1. f \in Token /\ Over(f) /\ now' \in Time /\ now' >= now
    BY DEF IInv, TypeOK, DeadFamiliesAreOver, Time
  <2>2. ~HasLiveToken(f)'
    BY <2>1, ShrinkingRevivesNobody DEF Over, IInv
  <2>3. ASSUME NEW u \in Requests, row'[u].family = f PROVE Spent(u)'
    <3>1. CASE u = t
      BY <1>1, <1>4, <2>3, <3>1
    <3>2. CASE u # t
      BY <1>1, <2>1, <2>3, <3>2 DEF Over, Spent
    <3>3. QED
      BY <3>1, <3>2
  <2>4. QED
    BY <2>1, <2>2, <2>3 DEF Over
<1>5. QED
  BY <1>3, <1>4

(* A request that is answered holds nothing. *)
LEMMA ReplyMoves ==
  ASSUME IInv, NEW t \in Requests, Reply(t), TableShrinks, minted' = minted,
         now' = now, ended' \in SUBSET Token
  PROVE  WellFormed' /\ \A f \in dead : Over(f)'
<1>1. pc' = [pc EXCEPT ![t] = "idle"]
  BY DEF Reply, Goto
<1>2. 0 \in 0..MaxTokens /\ 0 \in Time /\ NoRow \in Row \cup {NoRow}
  BY RefreshAssumption DEF Time
<1>3. \A f \in dead : NoRow.family # f
  BY RowFacts DEF IInv, TypeOK, Token
<1>4. QED
  BY <1>1, <1>2, <1>3, OneRequestMoves DEF Reply

LEMMA NothingShrinks == ASSUME TypeOK, UNCHANGED tokens PROVE TableShrinks
  BY PurgeShrinks

LEMMA TickKeeps ==
  ASSUME IInv, Tick
  PROVE  WellFormed' /\ \A f \in dead : Over(f)'
<1> USE DEF Tick, IInv, request
<1>1. now \in Nat /\ now' \in Time /\ now' >= now
  BY RefreshAssumption DEF TypeOK, Time
<1>2. WellFormed'
  BY <1>1 DEF TypeOK, WellFormed, UnmintedAreBlank, RequestsHoldTheirRows, Holds
<1>3. ASSUME NEW f \in dead PROVE Over(f)'
  <2>1. f \in Token /\ Over(f)
    BY DEF TypeOK, DeadFamiliesAreOver
  <2>2. ~HasLiveToken(f)'
    BY <1>1, <2>1, NothingShrinks, ShrinkingRevivesNobody DEF Over
  <2>3. ASSUME NEW t \in Requests, row'[t].family = f PROVE Spent(t)'
    <3>1. row[t].expires \in Nat
      BY RowFacts DEF TypeOK
    <3>2. QED
      BY <1>1, <2>1, <2>3, <3>1 DEF Over, Spent
  <2>4. QED
    BY <2>1, <2>2, <2>3 DEF Over
<1>4. QED
  BY <1>2, <1>3

LEMMA LoginKeeps ==
  ASSUME IInv, Login
  PROVE  WellFormed' /\ \A f \in dead : Over(f)'
<1> USE DEF Login, IInv, request
<1>0. minted + 1 \in Token
  BY RefreshAssumption DEF Create, TypeOK, Token
<1>1. /\ tokens' \in [Token -> Row \cup {NoRow}]
      /\ minted' = minted + 1 /\ minted' \in Token
      /\ tokens[minted'] = NoRow
      /\ tokens'[minted'].family = minted + 1
      /\ \A k \in Token : k # minted' => tokens'[k] = tokens[k]
  BY <1>0, CreateAddsOne
<1>2. UnmintedAreBlank'
  BY <1>1 DEF UnmintedAreBlank, TypeOK, Token
<1>3. RequestsHoldTheirRows'
  <2> SUFFICES ASSUME NEW t \in Requests, pc[t] # "idle", Holds(t) PROVE Holds(t)'
    BY DEF RequestsHoldTheirRows
  <2>1. presented[t] \in Token /\ presented[t] # minted'
    BY <1>1 DEF Holds, TypeOK, Token
  <2>2. QED
    BY <1>1, <2>1 DEF Holds, TypeOK
<1>4. WellFormed'
  BY <1>1, <1>2, <1>3 DEF WellFormed, TypeOK, Token
<1>5. ASSUME NEW f \in dead PROVE Over(f)'
  <2>1. f \in Token /\ Over(f) /\ f # minted + 1
    BY DEF TypeOK, DeadFamiliesAreOver, Over
  <2>2. ~HasLiveToken(f)'
    BY <1>1, <2>1, CreateRevivesNobodyElse DEF Over
  <2>3. QED
    BY <1>1, <2>1, <2>2 DEF Over, Spent, TypeOK
<1>6. QED
  BY <1>4, <1>5

LEMMA LogoutKeeps ==
  ASSUME IInv, NEW k \in 1..minted, Logout(k)
  PROVE  WellFormed' /\ \A f \in dead : Over(f)'
<1> USE DEF Logout, IInv, request
<1>1. TableShrinks
  BY RevocationShrinks DEF Revoke, TypeOK
<1>2. k \in Token /\ tokens[k].family \in Token
  BY RowFacts, RefreshAssumption DEF TypeOK, Token
<1>3. RequestsHoldTheirRows'
  BY <1>1, ShrinkingKeepsWhatIsHeld DEF RequestsHoldTheirRows
<1>4. WellFormed'
  BY <1>1, <1>2, <1>3, ShrinkingKeepsWhatIsHeld DEF WellFormed, TypeOK, TableShrinks
<1>5. ASSUME NEW f \in dead PROVE Over(f)'
  <2>1. f \in Token /\ Over(f) /\ now' \in Time /\ now' >= now
    BY DEF TypeOK, DeadFamiliesAreOver, Time
  <2>2. ~HasLiveToken(f)'
    BY <1>1, <2>1, ShrinkingRevivesNobody DEF Over
  <2>3. QED
    BY <2>1, <2>2 DEF Over, Spent
<1>6. QED
  BY <1>4, <1>5

(* The row that a request finds of a dead family is revoked or expired. *)
LEMMA FindByHashKeeps ==
  ASSUME IInv, NEW t \in Requests, FindByHash(t)
  PROVE  WellFormed' /\ \A f \in dead : Over(f)'
<1>1. PICK k \in 1..minted :
          /\ tokens[k] # NoRow
          /\ presented' = [presented EXCEPT ![t] = k]
          /\ row' = [row EXCEPT ![t] = tokens[k]]
          /\ pc' = [pc EXCEPT ![t] = "check"]
          /\ UNCHANGED <<tokens, minted, now, at, ended>>
  BY DEF FindByHash, Goto
<1>2. k \in Token /\ k \in 0..MaxTokens /\ tokens[k] \in Row
  BY <1>1, RefreshAssumption DEF IInv, TypeOK, Token
<1>3. row'[t] = tokens[k] /\ presented'[t] = k /\ pc'[t] = "check"
  BY <1>1 DEF IInv, TypeOK
<1>4. Holds(t)'
  BY <1>1, <1>2, <1>3 DEF Holds
<1>5. ASSUME NEW f \in dead, tokens[k].family = f PROVE Spent(t)'
  <2>1. ~IsLive(tokens[k], now)
    BY <1>2, <1>5 DEF IInv, DeadFamiliesAreOver, Over, HasLiveToken, FamilyHasLiveToken
  <2>2. tokens[k].expires \in Nat /\ now \in Nat
    BY <1>2, RowFacts DEF IInv, TypeOK, Time
  <2>3. QED
    BY <1>1, <1>3, <2>1, <2>2 DEF Spent, IsLive
<1>6. at' = [at EXCEPT ![t] = at[t]] /\ at[t] \in Time
  BY <1>1 DEF IInv, TypeOK
<1>7. QED
  BY <1>1, <1>2, <1>4, <1>5, <1>6, NothingShrinks, OneRequestMoves DEF IInv, TypeOK

(* No row of a dead family is rotated or replayed. *)
LEMMA DecideKeeps ==
  ASSUME IInv, NEW t \in Requests, Decide(t)
  PROVE  WellFormed' /\ \A f \in dead : Over(f)'
<1> DEFINE decision == DecideRefresh(row[t], FamilyHasLiveToken(row[t].family, now), now)
<1>1. pc[t] = "check" /\ UNCHANGED <<tokens, minted, now, ended>>
  BY DEF Decide
<1>2. TableShrinks /\ ended' \in SUBSET Token
  BY <1>1, NothingShrinks DEF IInv, TypeOK
<1>3. CASE decision = "invalid"
  BY <1>1, <1>2, <1>3, ReplyMoves DEF Decide
<1>4. CASE decision # "invalid"
  <2>1. /\ pc' = [pc EXCEPT ![t] = NextStatement(decision)]
        /\ at' = [at EXCEPT ![t] = now]
        /\ presented' = presented /\ row' = row
    BY <1>4 DEF Decide, Goto
  <2>2. NextStatement(decision) \in {"mint", "reuse", "rotate"}
    BY <1>4 DEF NextStatement, DecideRefresh
  <2>3. Holds(t)'
    BY <1>1, <1>2, <2>1, ShrinkingKeepsWhatIsHeld DEF IInv, RequestsHoldTheirRows
  <2>4. ASSUME NEW f \in dead, row[t].family = f PROVE Spent(t)'
    <3>1. ~FamilyHasLiveToken(row[t].family, now) /\ Spent(t)
      BY <2>4 DEF IInv, DeadFamiliesAreOver, Over, HasLiveToken
    <3>2. NextStatement(decision) = "reuse"
      BY <1>1, <1>4, <3>1 DEF Spent, DecideRefresh, NextStatement
    <3>3. QED
      BY <2>1, <3>2 DEF Spent, IInv, TypeOK
  <2>5. /\ presented' = [presented EXCEPT ![t] = presented[t]]
        /\ row' = [row EXCEPT ![t] = row[t]]
        /\ presented[t] \in 0..MaxTokens /\ row[t] \in Row \cup {NoRow}
        /\ now \in Time
    BY <2>1 DEF IInv, TypeOK
  <2> HIDE DEF decision
  <2>6. QED
    BY <1>1, <1>2, <2>1, <2>2, <2>3, <2>4, <2>5, OneRequestMoves
<1>5. QED
  BY <1>3, <1>4

LEMMA ReuseKeeps ==
  ASSUME IInv, NEW t \in Requests, Reuse(t)
  PROVE  WellFormed' /\ \A f \in dead : Over(f)'
<1>1. row[t].family \in Token
  BY RowFacts DEF Reuse, IInv, RequestsHoldTheirRows, Holds
<1>2. ended' \in SUBSET Token
  BY <1>1 DEF Reuse, IInv, TypeOK
<1>3. TableShrinks
  BY RevocationShrinks DEF Reuse, RevokeFamily, IInv, TypeOK
<1>4. QED
  BY <1>2, <1>3, ReplyMoves DEF Reuse

LEMMA RotateKeeps ==
  ASSUME IInv, NEW t \in Requests, Rotate(t)
  PROVE  WellFormed' /\ \A f \in dead : Over(f)'
<1>1. /\ pc[t] = "rotate"
      /\ pc' = [pc EXCEPT ![t] = "mint"] /\ at' = [at EXCEPT ![t] = 0]
      /\ UNCHANGED <<minted, now, presented, row, ended>>
  BY DEF Rotate, Goto
<1>2. TableShrinks
  BY RevocationShrinks DEF Rotate, Revoke, IInv, TypeOK
<1>3. Holds(t)'
  BY <1>1, <1>2, ShrinkingKeepsWhatIsHeld DEF IInv, RequestsHoldTheirRows
<1>4. \A f \in dead : row[t].family # f
  BY <1>1 DEF IInv, DeadFamiliesAreOver, Over, Spent
<1>5. /\ presented' = [presented EXCEPT ![t] = presented[t]]
      /\ row' = [row EXCEPT ![t] = row[t]]
      /\ presented[t] \in 0..MaxTokens /\ row[t] \in Row \cup {NoRow}
      /\ 0 \in Time /\ ended' \in SUBSET Token
  BY <1>1, RefreshAssumption DEF IInv, TypeOK, Time
<1>6. QED
  BY <1>1, <1>2, <1>3, <1>4, <1>5, OneRequestMoves

LEMMA ContinueFamilyKeeps ==
  ASSUME IInv, NEW t \in Requests, ContinueFamily(t)
  PROVE  WellFormed' /\ \A f \in dead : Over(f)'
<1> DEFINE family == row[t].family
<1>1. /\ pc[t] = "mint" /\ Create(family)
      /\ pc' = [pc EXCEPT ![t] = "purge"]
      /\ UNCHANGED <<now, presented, row, at, ended>>
  BY DEF ContinueFamily, Goto
<1>2. family \in Token
  BY <1>1, RowFacts DEF IInv, RequestsHoldTheirRows, Holds
<1>3. \A f \in dead : family # f
  BY <1>1 DEF IInv, DeadFamiliesAreOver, Over, Spent
<1> HIDE DEF family
<1>4. /\ tokens' \in [Token -> Row \cup {NoRow}]
      /\ minted' = minted + 1 /\ minted' \in Token
      /\ tokens[minted'] = NoRow
      /\ \A k \in Token : k # minted' => tokens'[k] = tokens[k]
  BY <1>1, <1>2, CreateAddsOne DEF IInv
<1>5. UnmintedAreBlank'
  BY <1>4 DEF IInv, UnmintedAreBlank, TypeOK, Token
<1>6. RequestsHoldTheirRows'
  <2>1. ASSUME NEW u \in Requests, Holds(u) PROVE Holds(u)'
    <3>1. presented[u] \in Token /\ presented[u] # minted'
      BY <1>4, <2>1, RefreshAssumption DEF Holds, IInv, TypeOK, Token
    <3>2. QED
      BY <1>1, <1>4, <2>1, <3>1 DEF Holds, IInv, TypeOK
  <2>2. QED
    BY <1>1, <2>1 DEF IInv, TypeOK, RequestsHoldTheirRows
<1>7. WellFormed'
  BY <1>1, <1>4, <1>5, <1>6 DEF IInv, WellFormed, TypeOK, Token
<1>8. ASSUME NEW f \in dead PROVE Over(f)'
  <2>1. f \in Token /\ Over(f) /\ f # family
    BY <1>3 DEF IInv, TypeOK, DeadFamiliesAreOver
  <2>2. ~HasLiveToken(f)'
    BY <1>1, <1>2, <2>1, CreateRevivesNobodyElse DEF Over, IInv
  <2>3. f \in 1..minted'
    BY <1>4, <2>1 DEF Over, IInv, TypeOK
  <2>4. QED
    BY <1>1, <2>1, <2>2, <2>3 DEF Over, Spent, IInv, TypeOK
<1>9. QED
  BY <1>7, <1>8

LEMMA PurgeKeeps ==
  ASSUME IInv, NEW t \in Requests, Purge(t)
  PROVE  WellFormed' /\ \A f \in dead : Over(f)'
  BY PurgeShrinks, ReplyMoves DEF Purge, IInv, TypeOK

LEMMA FailKeeps ==
  ASSUME IInv, NEW t \in Requests, Fail(t)
  PROVE  WellFormed' /\ \A f \in dead : Over(f)'
<1>1. row[t].family \in Token
  BY RowFacts DEF Fail, IInv, RequestsHoldTheirRows, Holds
<1>2. ended' \in SUBSET Token
  BY <1>1 DEF Fail, IInv, TypeOK
<1>3. QED
  BY <1>2, NothingShrinks, ReplyMoves DEF Fail, IInv

LEMMA StepKeeps ==
  ASSUME IInv, Step
  PROVE  WellFormed' /\ \A f \in dead : Over(f)'
  BY TickKeeps, LoginKeeps, LogoutKeeps, FindByHashKeeps, DecideKeeps, ReuseKeeps,
     RotateKeeps, ContinueFamilyKeeps, PurgeKeeps, FailKeeps DEF Step

(* A family that dies in a step has, in the state the step leads to, no    *)
(* request that holds a row of it but those that only purge.               *)
LEMMA NextKeeps == IInv /\ [Next]_vars => IInv'
<1> SUFFICES ASSUME IInv, [Next]_vars PROVE IInv'
  OBVIOUS
<1>1. CASE Next
  <2>1. /\ WellFormed' /\ \A f \in dead : Over(f)'
        /\ dead' = dead \cup {f \in 1..minted : Dead(f)}'
    BY <1>1, StepKeeps DEF Next
  <2>2. ASSUME NEW f \in dead' PROVE Over(f)' /\ f \in Token
    <3>1. CASE f \in dead
      BY <2>1, <3>1 DEF IInv, TypeOK
    <3>2. CASE f \notin dead
      <4>1. f \in 1..minted' /\ Dead(f)'
        BY <2>1, <2>2, <3>2
      <4>2. f \in Token
        BY <2>1, <4>1, RefreshAssumption DEF WellFormed, Token
      <4>3. QED
        BY <4>1, <4>2 DEF Dead, InFlight, Over, Spent
    <3>3. QED
      BY <3>1, <3>2
  <2>3. QED
    BY <2>1, <2>2 DEF IInv, TypeOK, WellFormed, DeadFamiliesAreOver
<1>2. CASE UNCHANGED vars
  BY <1>2 DEF vars, request, IInv, TypeOK, UnmintedAreBlank, RequestsHoldTheirRows,
              Holds, DeadFamiliesAreOver, Over, Spent, HasLiveToken,
              FamilyHasLiveToken, IsLive
<1>3. QED
  BY <1>1, <1>2
-----------------------------------------------------------------------------
(* The theorems *)

(* The invariant above holds in every state of the auth service.           *)
THEOREM Inductive == Spec => []IInv
<1>1. Init => IInv
  BY InitEstablishes
<1>2. IInv /\ [Next]_vars => IInv'
  BY NextKeeps
<1>3. QED
  BY <1>1, <1>2, PTL DEF Spec

(* The table and the locals of the requests keep their types: every token  *)
(* row belongs to a family, and every stamp is a time that the clock has   *)
(* shown (refresh_token_repository.go, refresh.go).                        *)
THEOREM TypeCorrect == Spec => []TypeOK
<1>1. IInv => TypeOK
  BY DEF IInv
<1>2. QED
  BY <1>1, Inductive, PTL

(* Once a family has had neither a live token nor a refresh under way, no  *)
(* sequence of logins, refreshes, replays, logouts and purges gives it a   *)
(* live token again (token.go:28-47).                                      *)
THEOREM EndedSessionsStayEnded == Spec => []DeadFamiliesStayDead
<1>1. IInv => DeadFamiliesStayDead
  BY DEF IInv, DeadFamiliesAreOver, Over, DeadFamiliesStayDead
<1>2. QED
  BY <1>1, Inductive, PTL

(* A step adds a token, or takes something away from the table. *)
LEMMA StepShrinksOrCreates ==
  ASSUME IInv, Step
  PROVE  TableShrinks \/ \E family \in Token : Create(family)
<1>1. ASSUME Tick PROVE TableShrinks
  BY <1>1, NothingShrinks DEF Tick, IInv
<1>2. ASSUME Login PROVE \E family \in Token : Create(family)
  <2>1. minted + 1 \in Token
    BY <1>2, RefreshAssumption DEF Login, Create, IInv, TypeOK, Token
  <2>2. QED
    BY <1>2, <2>1 DEF Login
<1>3. ASSUME NEW k \in 1..minted, Logout(k) PROVE TableShrinks
  BY <1>3, RevocationShrinks DEF Logout, Revoke, IInv, TypeOK
<1>4. ASSUME NEW t \in Requests,
             FindByHash(t) \/ Decide(t) \/ Reuse(t) \/ Rotate(t) \/ Purge(t) \/ Fail(t)
      PROVE  TableShrinks
  <2>1. CASE FindByHash(t) \/ Decide(t) \/ Fail(t)
    BY <2>1, NothingShrinks DEF FindByHash, Decide, Fail, IInv
  <2>2. CASE Reuse(t) \/ Rotate(t)
    BY <2>2, RevocationShrinks DEF Reuse, Rotate, RevokeFamily, Revoke, IInv, TypeOK
  <2>3. CASE Purge(t)
    BY <2>3, PurgeShrinks DEF Purge, IInv
  <2>4. QED
    BY <1>4, <2>1, <2>2, <2>3
<1>5. ASSUME NEW t \in Requests, ContinueFamily(t)
      PROVE  \E family \in Token : Create(family)
  BY <1>5, RowFacts DEF ContinueFamily, IInv, RequestsHoldTheirRows, Holds
<1>6. QED
  BY <1>1, <1>2, <1>3, <1>4, <1>5 DEF Step

(* A revocation is never undone nor dated anew, by however many requests   *)
(* that rotate, replay, judge stolen, log out and purge in any order       *)
(* (refresh_token_repository.go:62-79).                                    *)
THEOREM RevocationIsFinal == Spec => RevokedOnce
<1> DEFINE Final == \A k \in Token :
                tokens[k].revoked # Never =>
                   tokens'[k] = NoRow \/ tokens'[k].revoked = tokens[k].revoked
<1>1. ASSUME IInv, Step PROVE Final
  <2>1. CASE TableShrinks
    BY <2>1 DEF TableShrinks
  <2>2. CASE \E family \in Token : Create(family)
    BY <1>1, <2>2, CreateAddsOne, RowFacts DEF IInv
  <2>3. QED
    BY <1>1, <2>1, <2>2, StepShrinksOrCreates
<1>2. IInv /\ [Next]_vars => [Final]_vars
  BY <1>1 DEF Next
<1> HIDE DEF Final
<1>3. Spec => [][Final]_vars
  BY <1>2, Inductive, PTL DEF Spec
<1>4. QED
  BY <1>3 DEF RevokedOnce, Final
-----------------------------------------------------------------------------
(* Sessions end for a reason *)

MintUnderWay(f) == \E t \in Requests : row[t].family = f /\ pc[t] = "mint"
SomeTokenRunsOut(f) ==
    \E k \in 1..minted :
        /\ tokens[k].family = f /\ tokens[k].revoked = Never
        /\ tokens[k].expires <= now'

(* A family stays open if a live token of it is still what it was. *)
LEMMA KeptTokensKeepItOpen ==
  ASSUME NEW f \in Token, now' = now, HasLiveToken(f),
         \A k \in Token :
            tokens[k].family = f /\ IsLive(tokens[k], now) => tokens'[k] = tokens[k]
  PROVE  HasLiveToken(f)'
  BY DEF HasLiveToken, FamilyHasLiveToken, IsLive

LEMMA TickEndsForAReason ==
  ASSUME IInv, NEW f \in 1..minted, IsOpen(f), ~IsOpen(f)', Tick
  PROVE  SomeTokenRunsOut(f)
<1> USE DEF Tick, request
<1>1. ~MintUnderWay(f)
  BY DEF IsOpen, MintUnderWay
<1>2. PICK k \in Token : tokens[k].family = f /\ IsLive(tokens[k], now)
  BY <1>1 DEF IsOpen, HasLiveToken, FamilyHasLiveToken, MintUnderWay
<1>3. ~IsLive(tokens[k], now')
  BY <1>2 DEF IsOpen, HasLiveToken, FamilyHasLiveToken, IsLive
<1>4. tokens[k].expires \in Nat /\ now' \in Nat
  BY RowFacts DEF IInv, TypeOK, Time
<1>5. k \in 1..minted
  <2>1. tokens[k] # NoRow
    BY <1>2, RowFacts
  <2>2. QED
    BY <2>1, RefreshAssumption DEF IInv, UnmintedAreBlank, TypeOK, Token
<1>6. QED
  BY <1>2, <1>3, <1>4, <1>5 DEF IsLive, SomeTokenRunsOut

(* An insert adds a live token, and leaves the others and, but for the     *)
(* request that makes it, the requests.                                    *)
LEMMA CreateEndsNothing ==
  ASSUME IInv, NEW f \in 1..minted, IsOpen(f),
         Login \/ \E t \in Requests : ContinueFamily(t)
  PROVE  IsOpen(f)'
<1>0. f \in Token /\ f # 0 /\ now' = now
  BY RefreshAssumption DEF IInv, TypeOK, Token, Login, ContinueFamily
<1>1. PICK family \in Token :
          /\ Create(family)
          /\ MintUnderWay(f) /\ family # f => MintUnderWay(f)'
  <2>1. CASE Login
    <3>1. minted + 1 \in Token
      BY <2>1, RefreshAssumption DEF Login, Create, IInv, TypeOK, Token
    <3>2. QED
      BY <2>1, <3>1 DEF Login, request, MintUnderWay
  <2>2. ASSUME NEW t \in Requests, ContinueFamily(t)
        PROVE  /\ row[t].family \in Token /\ Create(row[t].family)
               /\ MintUnderWay(f) /\ row[t].family # f => MintUnderWay(f)'
    <3>1. row[t].family \in Token /\ Create(row[t].family)
      BY <2>2, RowFacts DEF ContinueFamily, IInv, RequestsHoldTheirRows, Holds
    <3>2. ASSUME NEW u \in Requests, row[u].family = f, pc[u] = "mint",
                 row[t].family # f
          PROVE  MintUnderWay(f)'
      BY <2>2, <3>2 DEF ContinueFamily, Goto, MintUnderWay, IInv, TypeOK
    <3>3. QED
      BY <3>1, <3>2 DEF MintUnderWay
  <2>3. QED
    BY <2>1, <2>2
<1>2. /\ minted' \in Token /\ tokens[minted'] = NoRow
      /\ tokens'[minted'].family = family /\ IsLive(tokens'[minted'], now)
      /\ \A k \in Token : k # minted' => tokens'[k] = tokens[k]
  BY <1>1, CreateAddsOne DEF IInv
<1>3. CASE family = f
  BY <1>0, <1>2, <1>3 DEF IsOpen, HasLiveToken, FamilyHasLiveToken, IsLive
<1>4. CASE family # f /\ MintUnderWay(f)
  BY <1>1, <1>4 DEF IsOpen, MintUnderWay
<1>5. CASE HasLiveToken(f)
  <2>1. HasLiveToken(f)'
    BY <1>0, <1>2, <1>5, KeptTokensKeepItOpen, RowFacts
  <2>2. QED
    BY <2>1 DEF IsOpen
<1>6. QED
  BY <1>3, <1>4, <1>5 DEF IsOpen, MintUnderWay

(* The mint of one request is under way whatever the others do. *)
LEMMA OthersMintOn ==
  ASSUME IInv, NEW f \in Token, MintUnderWay(f), NEW t \in Requests,
         pc[t] # "mint" \/ row[t].family # f,
         \A u \in Requests \ {t} : pc'[u] = pc[u] /\ row'[u] = row[u]
  PROVE  MintUnderWay(f)'
  BY DEF MintUnderWay

LEMMA ReplyLeavesOthers ==
  ASSUME IInv, NEW t \in Requests, Reply(t)
  PROVE  \A u \in Requests \ {t} : pc'[u] = pc[u] /\ row'[u] = row[u]
  BY DEF Reply, Goto, IInv, TypeOK

LEMMA LogoutEndsForAReason ==
  ASSUME IInv, NEW f \in 1..minted, IsOpen(f), NEW k \in 1..minted, Logout(k)
  PROVE  IsOpen(f)' \/ f \in ended'
<1>1. f \in Token /\ k \in Token /\ now' = now
  BY RefreshAssumption DEF IInv, TypeOK, Token, Logout
<1>2. CASE MintUnderWay(f)
  BY <1>2 DEF MintUnderWay, IsOpen, Logout, request
<1>3. CASE HasLiveToken(f) /\ tokens[k].family # f
  <2>1. \A j \in Token : j # k => tokens'[j] = tokens[j]
    BY RevocationOnlyStamps DEF Logout, Revoke, IInv, TypeOK
  <2>2. HasLiveToken(f)'
    BY <1>1, <1>3, <2>1, KeptTokensKeepItOpen
  <2>3. QED
    BY <2>2 DEF IsOpen
<1>4. CASE tokens[k].family = f
  BY <1>4 DEF Logout
<1>5. QED
  BY <1>2, <1>3, <1>4 DEF IsOpen, MintUnderWay

LEMMA ReuseEndsForAReason ==
  ASSUME IInv, NEW f \in 1..minted, IsOpen(f), NEW t \in Requests, Reuse(t)
  PROVE  IsOpen(f)' \/ f \in ended'
<1>1. f \in Token /\ now' = now /\ pc[t] = "reuse" /\ Reply(t)
  BY RefreshAssumption DEF IInv, TypeOK, Token, Reuse
<1>2. CASE MintUnderWay(f)
  <2>1. MintUnderWay(f)'
    BY <1>1, <1>2, OthersMintOn, ReplyLeavesOthers
  <2>2. QED
    BY <2>1 DEF MintUnderWay, IsOpen
<1>3. CASE HasLiveToken(f) /\ row[t].family # f
  <2>1. \A j \in Token : tokens[j].family = f => tokens'[j] = tokens[j]
    BY <1>3, RevocationOnlyStamps DEF Reuse, RevokeFamily, IInv, TypeOK
  <2>2. HasLiveToken(f)'
    BY <1>1, <1>3, <2>1, KeptTokensKeepItOpen
  <2>3. QED
    BY <2>2 DEF IsOpen
<1>4. CASE row[t].family = f
  BY <1>4 DEF Reuse
<1>5. QED
  BY <1>2, <1>3, <1>4 DEF IsOpen, MintUnderWay

(* The token that a rotation revokes is of the family that it then mints   *)
(* into.                                                                   *)
LEMMA RotateEndsNothing ==
  ASSUME IInv, NEW f \in 1..minted, IsOpen(f), NEW t \in Requests, Rotate(t)
  PROVE  IsOpen(f)'
<1>1. f \in Token /\ now' = now /\ pc[t] = "rotate"
  BY RefreshAssumption DEF IInv, TypeOK, Token, Rotate
<1>2. /\ pc'[t] = "mint" /\ row' = row
      /\ \A u \in Requests \ {t} : pc'[u] = pc[u] /\ row'[u] = row[u]
  BY DEF Rotate, Goto, IInv, TypeOK
<1>3. CASE MintUnderWay(f)
  <2>1. MintUnderWay(f)'
    BY <1>1, <1>2, <1>3, OthersMintOn
  <2>2. QED
    BY <2>1 DEF MintUnderWay, IsOpen
<1>4. CASE row[t].family = f
  BY <1>2, <1>4 DEF IsOpen
<1>5. CASE HasLiveToken(f) /\ row[t].family # f
  <2>1. presented[t] \in Token /\ tokens[presented[t]].family # f
    BY <1>1, <1>5, RowFacts, RefreshAssumption
       DEF IInv, TypeOK, RequestsHoldTheirRows, Holds, Token
  <2>2. \A j \in Token : j # presented[t] => tokens'[j] = tokens[j]
    BY RevocationOnlyStamps DEF Rotate, Revoke, IInv, TypeOK
  <2>3. HasLiveToken(f)'
    BY <1>1, <1>5, <2>1, <2>2, KeptTokensKeepItOpen
  <2>4. QED
    BY <2>3 DEF IsOpen
<1>6. QED
  BY <1>3, <1>4, <1>5 DEF IsOpen, MintUnderWay

(* A purge leaves alone what has not expired, hence what is live. *)
LEMMA PurgeEndsNothing ==
  ASSUME IInv, NEW f \in 1..minted, IsOpen(f), NEW t \in Requests, Purge(t)
  PROVE  IsOpen(f)'
<1>1. f \in Token /\ now' = now /\ pc[t] = "purge" /\ Reply(t)
  BY RefreshAssumption DEF IInv, TypeOK, Token, Purge
<1>2. CASE MintUnderWay(f)
  <2>1. MintUnderWay(f)'
    BY <1>1, <1>2, OthersMintOn, ReplyLeavesOthers
  <2>2. QED
    BY <2>1 DEF MintUnderWay, IsOpen
<1>3. CASE HasLiveToken(f)
  <2>1. \A k \in Token : tokens'[k] = tokens[k] \/ tokens[k].expires <= now
    BY PurgeOnlyRemovesExpired DEF Purge, IInv
  <2>2. \A k \in Token : IsLive(tokens[k], now) => ~(tokens[k].expires <= now)
    BY RowFacts DEF IsLive, IInv, TypeOK, Time
  <2>3. HasLiveToken(f)'
    BY <1>1, <1>3, <2>1, <2>2, KeptTokensKeepItOpen
  <2>4. QED
    BY <2>3 DEF IsOpen
<1>4. QED
  BY <1>2, <1>3 DEF IsOpen, MintUnderWay

LEMMA FailEndsForAReason ==
  ASSUME IInv, NEW f \in 1..minted, IsOpen(f), NEW t \in Requests, Fail(t)
  PROVE  IsOpen(f)' \/ f \in ended'
<1>1. f \in Token /\ UNCHANGED <<tokens, now>> /\ Reply(t)
  BY RefreshAssumption DEF IInv, TypeOK, Token, Fail
<1>2. CASE HasLiveToken(f)
  BY <1>1, <1>2 DEF IsOpen, HasLiveToken, FamilyHasLiveToken, IsLive
<1>3. CASE MintUnderWay(f) /\ (pc[t] # "mint" \/ row[t].family # f)
  <2>1. MintUnderWay(f)'
    BY <1>1, <1>3, OthersMintOn, ReplyLeavesOthers
  <2>2. QED
    BY <2>1 DEF MintUnderWay, IsOpen
<1>4. CASE pc[t] = "mint" /\ row[t].family = f
  BY <1>4 DEF Fail
<1>5. QED
  BY <1>2, <1>3, <1>4 DEF IsOpen, MintUnderWay

(* Looking a token up and judging it end nothing by themselves. *)
LEMMA ReadingEndsNothing ==
  ASSUME IInv, NEW f \in 1..minted, IsOpen(f), NEW t \in Requests,
         FindByHash(t) \/ Decide(t)
  PROVE  IsOpen(f)'
<1>1. f \in Token /\ UNCHANGED <<tokens, now>> /\ pc[t] # "mint"
  BY RefreshAssumption DEF IInv, TypeOK, Token, FindByHash, Decide
<1>2. \A u \in Requests \ {t} : pc'[u] = pc[u] /\ row'[u] = row[u]
  <2>1. CASE FindByHash(t)
    BY <2>1 DEF FindByHash, Goto, IInv, TypeOK
  <2>2. CASE Decide(t)
    BY <2>2, ReplyLeavesOthers DEF Decide, Goto, IInv, TypeOK
  <2>3. QED
    BY <2>1, <2>2
<1>3. CASE HasLiveToken(f)
  BY <1>1, <1>3 DEF IsOpen, HasLiveToken, FamilyHasLiveToken, IsLive
<1>4. CASE MintUnderWay(f)
  <2>1. MintUnderWay(f)'
    BY <1>1, <1>2, <1>4, OthersMintOn
  <2>2. QED
    BY <2>1 DEF MintUnderWay, IsOpen
<1>5. QED
  BY <1>3, <1>4 DEF IsOpen, MintUnderWay

(* A session that is open stays so until it is logged out, judged stolen,  *)
(* loses a refresh half way, or its unrevoked token runs out: rotations,   *)
(* replays and purges, of this or of other sessions, do not close it       *)
(* (refresh.go:37-65).                                                     *)
THEOREM SessionsAreNotLost == Spec => SessionsEndForAReason
<1> DEFINE ForAReason ==
        \A f \in 1..minted :
            IsOpen(f) /\ ~IsOpen(f)' =>
               \/ f \in ended'
               \/ \E k \in 1..minted :
                     /\ tokens[k].family = f /\ tokens[k].revoked = Never
                     /\ tokens[k].expires <= now'
<1>1. ASSUME IInv, Step, NEW f \in 1..minted, IsOpen(f), ~IsOpen(f)'
      PROVE  f \in ended' \/ SomeTokenRunsOut(f)
  <2>1. CASE Tick
    BY <1>1, <2>1, TickEndsForAReason
  <2>2. CASE Login \/ \E t \in Requests : ContinueFamily(t)
    BY <1>1, <2>2, CreateEndsNothing
  <2>3. CASE \E k \in 1..minted : Logout(k)
    BY <1>1, <2>3, LogoutEndsForAReason
  <2>4. ASSUME NEW t \in Requests,
               FindByHash(t) \/ Decide(t) \/ Reuse(t) \/ Rotate(t) \/ Purge(t) \/ Fail(t)
        PROVE  IsOpen(f)' \/ f \in ended'
    BY <1>1, <2>4, ReadingEndsNothing, ReuseEndsForAReason, RotateEndsNothing,
       PurgeEndsNothing, FailEndsForAReason
  <2>5. QED
    BY <1>1, <2>1, <2>2, <2>3, <2>4 DEF Step
<1>2. IInv /\ [Next]_vars => [ForAReason]_vars
  BY <1>1 DEF Next, SomeTokenRunsOut
<1> HIDE DEF ForAReason
<1>3. Spec => [][ForAReason]_vars
  BY <1>2, Inductive, PTL DEF Spec
<1>4. QED
  BY <1>3 DEF SessionsEndForAReason, ForAReason
=============================================================================
