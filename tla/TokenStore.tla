----------------------------- MODULE TokenStore -----------------------------
(***************************************************************************)
(* The OAuth server of the connector: internal/connector/auth.go over the  *)
(* tables of internal/connector/store.go and the grant rules of the        *)
(* go-oauth2 library (external), from an issued authorization code to the  *)
(* end of its token family.                                                *)
(*                                                                         *)
(* Handlers run under one mutex.  A token request is also one SQL          *)
(* transaction, so it is one step here; what may be separated from it is   *)
(* its answer.  A revocation is not a transaction: its statements are      *)
(* steps of their own, between which the process or the request may stop.  *)
(*                                                                         *)
(* A pair is an access token with its refresh token, which are minted      *)
(* together and stored under two rows with the same data.  A family is     *)
(* named by the code it began with.                                        *)
(***************************************************************************)
EXTENDS Naturals, FiniteSets

CONSTANTS
  Clients, Codes, Pairs, Requests,
  None,            \* no client, no pair, no code
  CodeLife, AccessLife, RefreshLife,   \* lifetimes, in ticks of the clock
  Horizon,         \* bound: ticks of the clock that are looked at
  MaxFaults        \* bound: pairs that a failed SQL statement has touched

ASSUME NoneIsNothing == None \notin Clients \cup Codes \cup Pairs
ASSUME Lifetimes == /\ CodeLife \in Nat /\ AccessLife \in Nat
                    /\ RefreshLife \in Nat /\ Horizon \in Nat
ASSUME FaultsAssumption == MaxFaults \in Nat

VARIABLES
  code,      \* code[k]: the data of the code row, kept after its deletion
  codeRows,  \* the code rows that exist
  pair,      \* pair[p]: the data of the rows of p
  access, refresh,  \* the access and refresh rows that exist
  spent,     \* spent_refresh
  now,
  req,       \* requests whose handler, or whose answer, is under way
  received,  \* pairs whose answer reached the client that asked
  spoiled,   \* history: codes presented with a wrong PKCE verifier
  replayed,  \* history: families of spent tokens that were presented
  disturbed, \* history: families with a lost answer, a replay or a revocation
  botched    \* history: pairs with a failed statement in a revocation

rows == <<code, codeRows, pair, access, refresh, spent>>
history == <<spoiled, replayed, disturbed, botched>>
vars == <<rows, now, req, received, history>>

Families == Codes
CodeRow == [client : Clients \cup {None}, at : 0..Horizon]
PairRow == [client : Clients \cup {None}, family : Families \cup {None},
            from : Pairs \cup {None}, born : 0..Horizon, at : 0..Horizon,
            answered : BOOLEAN]
NoCode == [client |-> None, at |-> 0]
NoPair == [client |-> None, family |-> None, from |-> None, born |-> 0, at |-> 0,
           answered |-> FALSE]

Request == [kind : {"idle", "answer", "call", "revoke", "revoked"}, pair : Pairs \cup {None},
            step : 0..2]
Idle == [kind |-> "idle", pair |-> None, step |-> 0]

Issued(k) == code[k].client # None
Minted(p) == pair[p].client # None
FamilyOf(p) == pair[p].family
MembersOf(f) == {p \in Pairs : FamilyOf(p) = f}

\* Time.Before is strict: a token still counts at the last instant of its life.
CodeAlive(k) == now <= code[k].at + CodeLife
RefreshAlive(p) == now <= pair[p].born + RefreshLife
AccessAlive(p) == RefreshAlive(p) /\ now <= pair[p].at + AccessLife

FreshCode == CHOOSE k \in Codes : ~Issued(k)
FreshPair == CHOOSE p \in Pairs : ~Minted(p)
FreeSlot == CHOOSE r \in Requests : req[r] = Idle

\* The mutex is held across the statements of a revocation.
Unlocked == \A r \in Requests : req[r].kind # "revoke"

TokenInit ==
  /\ code = [k \in Codes |-> NoCode] /\ codeRows = {}
  /\ pair = [p \in Pairs |-> NoPair]
  /\ access = {} /\ refresh = {} /\ spent = {}
  /\ now = 0
  /\ req = [r \in Requests |-> Idle]
  /\ received = {}
  /\ spoiled = {} /\ replayed = {} /\ disturbed = {} /\ botched = {}

-----------------------------------------------------------------------------
\* The end of an allowed authorize request.
IssueCode(c) ==
  /\ Unlocked
  /\ \E k \in Codes : ~Issued(k)
  /\ code' = [code EXCEPT ![FreshCode] = [client |-> c, at |-> now]]
  /\ codeRows' = codeRows \cup {FreshCode}
  /\ UNCHANGED <<pair, access, refresh, spent, now, req, received, history>>

\* A pair under a fresh name, in a family, after a predecessor.  A refreshed pair
\* keeps the creation time of its family's refresh token.
MintPair(c, f, old, answered) ==
  [client |-> c, family |-> f, from |-> old,
   born |-> IF old = None THEN now ELSE pair[old].born,
   at |-> now, answered |-> answered]

Answer(p) ==
  /\ \E r \in Requests : req[r] = Idle
  /\ req' = [req EXCEPT ![FreeSlot] = [Idle EXCEPT !.kind = "answer", !.pair = p]]

MayMint == Unlocked /\ \E p \in Pairs : ~Minted(p)

\* Whether a statement about p may fail: about an orphan, a pair that is written in part, or
\* about one that is being revoked.
Orphans == {p \in Pairs : Minted(p) /\ ~pair[p].answered}
MayFail(p) == p \in botched \/ Cardinality(Orphans \cup botched) < MaxFaults

\* An unknown, expired or foreign code is refused and stays as it is.
Redeemable(c, k) == k \in codeRows /\ code[k].client = c /\ CodeAlive(k)

ExchangeCode(c, k) ==
  /\ MayMint /\ Redeemable(c, k)
  /\ codeRows' = codeRows \ {k}
  /\ pair' = [pair EXCEPT ![FreshPair] = MintPair(c, k, None, TRUE)]
  /\ access' = access \cup {FreshPair}
  /\ refresh' = refresh \cup {FreshPair}
  /\ Answer(FreshPair)
  /\ UNCHANGED <<code, spent, now, received, history>>

\* Wrong: a rejected exchange is rolled back, as any other error is.
RollBackPKCE(c, k) ==
  /\ Unlocked /\ Redeemable(c, k)
  /\ spoiled' = spoiled \cup {k}
  /\ UNCHANGED <<rows, now, req, received, replayed, disturbed, botched>>

\* The code is deleted before its verifier is looked at, and the protocol's
\* rejection is committed.
FailPKCE(c, k) ==
  /\ Unlocked /\ Redeemable(c, k)
  /\ codeRows' = codeRows \ {k}
  /\ spoiled' = spoiled \cup {k}
  /\ UNCHANGED <<code, pair, access, refresh, spent, now, req, received,
                 replayed, disturbed, botched>>

\* A statement that fails while a pair is written is a protocol error too, and
\* what was written before it is committed: some of the rows of a pair that
\* nobody is told of.  The code is gone.
FailExchange(c, k) ==
  /\ MayMint /\ MayFail(FreshPair) /\ Redeemable(c, k)
  /\ codeRows' = codeRows \ {k}
  /\ pair' = [pair EXCEPT ![FreshPair] = MintPair(c, k, None, FALSE)]
  /\ \/ access' = access \cup {FreshPair} /\ UNCHANGED refresh
     \/ refresh' = refresh \cup {FreshPair} /\ UNCHANGED access
  /\ UNCHANGED <<code, spent, now, req, received, history>>

-----------------------------------------------------------------------------
\* Wrong: only the client is looked at, not the lifetime.
RefreshableForEver(c, p) == p \in refresh /\ pair[p].client = c

\* A refresh token that is stored, presented by its client within its lifetime.
Refreshable(c, p) == p \in refresh /\ pair[p].client = c /\ RefreshAlive(p)

\* INSERT OR IGNORE INTO spent_refresh.
Mark(p) == spent \cup {p}

\* The marks after RemoveByRefresh has deleted the row: a token that could not be read first
\* is deleted all the same, without a mark.
Marks(p) == {Mark(p)} \cup IF MayFail(p) THEN {spent} ELSE {}

\* Wrong: the old refresh token survives its exchange (IsRemoveRefreshing unset).
RefreshKeepingOld(c, p) ==
  /\ MayMint /\ p \in received /\ Refreshable(c, p)
  /\ pair' = [pair EXCEPT ![FreshPair] = MintPair(c, FamilyOf(p), p, TRUE)]
  /\ access' = (access \cup {FreshPair}) \ {p}
  /\ refresh' = refresh \cup {FreshPair}
  /\ Answer(FreshPair)
  /\ UNCHANGED <<code, codeRows, spent, now, received, history>>

\* Rotation: the new rows, then the old access row, then the old refresh row with
\* its mark in spent_refresh.
RefreshPair(c, p) ==
  /\ MayMint /\ p \in received /\ Refreshable(c, p)
  /\ pair' = [pair EXCEPT ![FreshPair] = MintPair(c, FamilyOf(p), p, TRUE)]
  /\ access' = (access \cup {FreshPair}) \ {p}
  /\ refresh' = (refresh \cup {FreshPair}) \ {p}
  /\ spent' \in Marks(p)
  /\ Answer(FreshPair)
  /\ UNCHANGED <<code, codeRows, now, received, history>>

\* A statement of the rotation fails, and those before it are committed.
FailRotation(c, p) ==
  /\ MayMint /\ MayFail(FreshPair) /\ p \in received /\ Refreshable(c, p)
  /\ pair' = [pair EXCEPT ![FreshPair] = MintPair(c, FamilyOf(p), p, FALSE)]
  /\ \E new \in (SUBSET {"access", "refresh"}) \ {{}},
        removed, marked \in BOOLEAN :
       /\ removed => new = {"access", "refresh"}
       /\ marked => removed
       /\ access' = (IF "access" \in new THEN access \cup {FreshPair} ELSE access)
                       \ (IF removed THEN {p} ELSE {})
       /\ refresh' = IF "refresh" \in new THEN refresh \cup {FreshPair} ELSE refresh
       /\ spent' = IF marked THEN Mark(p) ELSE spent
  /\ UNCHANGED <<code, codeRows, now, req, received, history>>

\* Wrong: only the refresh rows of the family.
ForgetRefreshRows(f) ==
  /\ refresh' = refresh \ MembersOf(f)
  /\ UNCHANGED <<codeRows, access>>

\* Every row of a family, of whichever kind.
ForgetFamily(f) ==
  /\ codeRows' = codeRows \ {f}
  /\ access' = access \ MembersOf(f)
  /\ refresh' = refresh \ MembersOf(f)

\* Wrong: the mark is looked up by its hash alone.
SpentByAnyone(c, p) == p \in spent

SpentBy(c, p) == p \in spent /\ pair[p].client = c

\* A refresh token that is not stored but was spent by this client: the whole
\* family goes, and the answer is an error.
ReplaySpent(c, p) ==
  /\ Unlocked /\ p \in received /\ p \notin refresh /\ SpentBy(c, p)
  /\ ForgetFamily(FamilyOf(p))
  /\ replayed' = replayed \cup {FamilyOf(p)}
  /\ disturbed' = IF pair[p].client = c THEN disturbed \cup {FamilyOf(p)} ELSE disturbed
  /\ UNCHANGED <<code, pair, spent, now, req, received, spoiled, botched>>

-----------------------------------------------------------------------------
\* A revocation names a pair by either of its tokens; the row it finds holds both.
Names(p, by) == p \in (IF by = "access" THEN access ELSE refresh)

BeginRevoke(r, p, by) ==
  /\ Unlocked /\ req[r] = Idle /\ p \in received /\ Names(p, by)
  /\ req' = [req EXCEPT ![r] = [kind |-> "revoke", pair |-> p, step |-> 1]]
  /\ disturbed' = disturbed \cup {FamilyOf(p)}
  /\ UNCHANGED <<rows, now, received, spoiled, replayed, botched>>

\* A token that is not found, or whose lookup fails, is answered as revoked.
RevokeUnknown(r, p, by) ==
  /\ Unlocked /\ req[r] = Idle /\ p \in received
  /\ Names(p, by) => MayFail(p)
  /\ req' = [req EXCEPT ![r] = [Idle EXCEPT !.kind = "revoked", !.pair = p]]
  /\ UNCHANGED <<rows, now, received, history>>

\* Wrong: the refresh row is removed first.
RefreshFirst == <<"refresh", "access">>

RemovalOrder == <<"access", "refresh">>

\* RemoveByAccess, RemoveByRefresh: the latter marks the token as spent before it
\* deletes its row, and keeps the row when the mark fails.  Errors are ignored, and
\* the answer after the second statement is 200.
RevokeStatement(r) ==
  LET p == req[r].pair
      row == RemovalOrder[req[r].step]
  IN
  /\ req[r].kind = "revoke"
  /\ req' = [req EXCEPT ![r] = IF @.step = 1 THEN [@ EXCEPT !.step = 2]
                              ELSE [Idle EXCEPT !.kind = "revoked", !.pair = p]]
  /\ \/ /\ access' = IF row = "access" THEN access \ {p} ELSE access
        /\ refresh' = IF row = "refresh" THEN refresh \ {p} ELSE refresh
        /\ spent' \in IF row = "refresh" /\ p \in refresh THEN Marks(p) ELSE {spent}
        /\ UNCHANGED botched
     \/ /\ MayFail(p)
        /\ botched' = botched \cup {p}
        /\ spent' \in {spent} \cup (IF row = "refresh" THEN {Mark(p)} ELSE {})
        /\ UNCHANGED <<access, refresh>>
  /\ UNCHANGED <<code, codeRows, pair, now, received, spoiled, replayed, disturbed>>

-----------------------------------------------------------------------------
\* protect: the check is made under the mutex, the call runs outside of it.
Admit(r, p) ==
  /\ Unlocked /\ req[r] = Idle
  /\ p \in received /\ p \in access /\ AccessAlive(p)
  /\ req' = [req EXCEPT ![r] = [Idle EXCEPT !.kind = "call", !.pair = p]]
  /\ UNCHANGED <<rows, now, received, history>>

\* A call returns, or a client reads that its token is revoked.
EndRequest(r) ==
  /\ req[r].kind \in {"call", "revoked"}
  /\ req' = [req EXCEPT ![r] = Idle]
  /\ UNCHANGED <<rows, now, received, history>>

\* The answer with a new pair reaches its client.
Deliver(r) ==
  /\ req[r].kind = "answer"
  /\ received' = received \cup {req[r].pair}
  /\ req' = [req EXCEPT ![r] = Idle]
  /\ UNCHANGED <<rows, now, history>>

\* Requests end without an answer: one client goes away, or the process stops with
\* all of them and is started again on the same tables.
CutShort(cut) ==
  /\ req' = [r \in Requests |-> IF r \in cut THEN Idle ELSE req[r]]
  /\ disturbed' = disturbed \cup
       {FamilyOf(req[r].pair) : r \in {q \in cut : req[q].kind = "answer"}}
  /\ UNCHANGED <<rows, now, received, spoiled, replayed, botched>>

Disconnect(r) == req[r] # Idle /\ CutShort({r})

Restart == CutShort({r \in Requests : req[r] # Idle})

Tick ==
  /\ now < Horizon
  /\ now' = now + 1
  /\ UNCHANGED <<rows, req, received, history>>

TokenNext ==
  \/ \E c \in Clients :
       \/ IssueCode(c)
       \/ \E k \in Codes : ExchangeCode(c, k) \/ FailPKCE(c, k) \/ FailExchange(c, k)
       \/ \E p \in Pairs : RefreshPair(c, p) \/ FailRotation(c, p) \/ ReplaySpent(c, p)
  \/ \E p \in Pairs, by \in {"access", "refresh"} :
       \E r \in Requests : BeginRevoke(r, p, by) \/ RevokeUnknown(r, p, by)
  \/ \E r \in Requests :
       \/ RevokeStatement(r) \/ EndRequest(r) \/ Deliver(r) \/ Disconnect(r)
       \/ \E p \in Pairs : Admit(r, p)
  \/ Restart
  \/ Tick

TokenSpec == TokenInit /\ [][TokenNext]_vars

-----------------------------------------------------------------------------
\* The types, and that rows are rows of something: a spent or stored token was minted, a
\* stored code was issued, a request is about a minted pair.
TokenTypeOK ==
  /\ code \in [Codes -> CodeRow] /\ codeRows \subseteq {k \in Codes : Issued(k)}
  /\ pair \in [Pairs -> PairRow]
  /\ \A rowSet \in {access, refresh, spent, received, botched} :
       rowSet \subseteq {p \in Pairs : Minted(p)}
  /\ now \in 0..Horizon
  /\ req \in [Requests -> Request]
  /\ \A r \in Requests : req[r] # Idle => req[r].pair \in Pairs /\ Minted(req[r].pair)
  /\ spoiled \subseteq Codes /\ replayed \subseteq Families /\ disturbed \subseteq Families

Answered(p) == pair[p].answered

\* "Rotating refresh tokens": of the pairs of one family that anyone was ever told of,
\* one at most can be exchanged, whatever statements failed and answers got lost.
OneLivePairPerFamily ==
  \A p, q \in refresh :
    Answered(p) /\ Answered(q) /\ FamilyOf(p) = FamilyOf(q) => p = q

\* An access token never outlives the refresh token it came with: not when a revocation
\* stops between its two statements, nor when a rotation is cut; unless a
\* statement of a revocation failed, which the code ignores.
AccessFollowsGrant ==
  \A p \in access : Answered(p) => p \in refresh \/ p \in botched

\* A spent refresh token that comes back ends the family for good: no row of it is left or
\* ever written again, also for requests that were under way.
ReplayedFamilyIsGone ==
  \A f \in replayed : f \notin codeRows /\ MembersOf(f) \cap (access \cup refresh) = {}

\* A client whose answers all arrived, that never presented a spent token and never
\* revoked, still holds a refresh token that is stored: whatever other clients
\* present, however statements fail and processes stop.
UndisturbedGrantLives ==
  \A f \in Families \ disturbed :
    (\E p \in MembersOf(f) : Answered(p))
      => \E p \in MembersOf(f) \cap refresh :
           p \in received \/ \E r \in Requests : req[r].kind = "answer" /\ req[r].pair = p

\* "Short-lived access tokens": a call is admitted only with the newest pair of its family,
\* within the lifetime of that access token and of the consent the family began with, never
\* in a family that a replay has ended, and never in one whose code was once presented
\* with a wrong verifier ("failed PKCE consumes its authorization code", auth.go:271).
Opened(f) == CHOOSE t \in 0..Horizon :
               \E p \in MembersOf(f) : pair[p].from = None /\ pair[p].at = t
AdmittedIsEntitled ==
  [][\A r \in Requests :
       LET p == req'[r].pair IN
       req[r] = Idle /\ req'[r].kind = "call"
         => /\ FamilyOf(p) \notin replayed
            /\ FamilyOf(p) \notin spoiled
            /\ now <= pair[p].at + AccessLife
            /\ now <= Opened(FamilyOf(p)) + RefreshLife
            /\ ~\E q \in Pairs : pair[q].from = p /\ Answered(q)]_vars

\* What the test of revocation expects (auth_test.go:113-117): once a client's
\* revocation of a pair was answered, neither token of the pair is good for anything.
AnsweredRevocationHolds ==
  \A r \in Requests : req[r].kind = "revoked" => req[r].pair \notin access \cup refresh

-----------------------------------------------------------------------------
\* The families of the abstract specification.
Carriers(f) == {p \in refresh : FamilyOf(p) = f /\ Answered(p) /\ RefreshAlive(p)}
CarrierOf(f) == IF Carriers(f) = {} THEN None ELSE CHOOSE p \in Carriers(f) : TRUE
PhaseOf(f) ==
  IF ~Issued(f) THEN "none"
  ELSE IF f \in codeRows /\ CodeAlive(f) THEN "offered"
  ELSE IF Carriers(f) # {} THEN "live" ELSE "over"

Family == INSTANCE TokenFamily WITH
  NoPair <- None,
  phase <- [f \in Families |-> PhaseOf(f)],
  current <- [f \in Families |-> CarrierOf(f)],
  used <- {p \in Pairs : Answered(p)}

\* The server keeps the promise of TokenFamily: a family is opened once, carried by one
\* pair at a time, each pair once, and is never live again once it was over.
ImplementsTokenFamily == Family!FamilySpec
=============================================================================
