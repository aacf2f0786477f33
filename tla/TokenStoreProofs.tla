-------------------------- MODULE TokenStoreProofs --------------------------
(***************************************************************************)
(* What the OAuth server keeps, for any number of clients, codes, token    *)
(* pairs and requests, any lifetimes and any number of faults; and that it *)
(* implements TokenFamily.                                                 *)
(***************************************************************************)
EXTENDS TokenStore, TLAPS

USE DEF Families

-----------------------------------------------------------------------------
\* The inductive invariant.

\* A pair that was minted belongs to a client and to the family of an issued code, and one
\* that was not is empty.
PairsFit ==
  \A p \in Pairs :
    IF Minted(p) THEN /\ FamilyOf(p) \in Families /\ Issued(FamilyOf(p))
                      /\ pair[p].from # None => Minted(pair[p].from)
    ELSE pair[p] = NoPair

\* A code is good for one pair: none was minted while its row is there.
CodesAreUnused == \A k \in codeRows : MembersOf(k) = {}

\* So a family has one pair that began it, when every pair of it was born.
Root(p) == Minted(p) /\ pair[p].from = None
OneRootPerFamily ==
  \A p, q \in Pairs : Root(p) /\ Root(q) /\ FamilyOf(p) = FamilyOf(q) => p = q
BornWithTheRoot ==
  \A p \in Pairs : Minted(p) =>
    \E q \in Pairs : Root(q) /\ FamilyOf(q) = FamilyOf(p) /\ pair[q].at = pair[p].born

\* A code that was presented with a wrong verifier is gone, and nothing came of it.
SpoiledAreGone ==
  \A k \in spoiled : Issued(k) /\ k \notin codeRows /\ MembersOf(k) = {}

KinshipFits ==
  /\ PairsFit /\ CodesAreUnused /\ OneRootPerFamily /\ BornWithTheRoot /\ SpoiledAreGone
  /\ \A f \in replayed : Issued(f)

\* Only pairs that are answered reach anyone.
ReceivedWereAnswered ==
  /\ \A p \in received : Answered(p)
  /\ \A r \in Requests : req[r].kind \in {"answer", "revoke"} => Answered(req[r].pair)

\* A revocation under way has disturbed its family, and has removed its access row before
\* it comes to the refresh row, unless that failed.
RevocationsFit ==
  \A r \in Requests : req[r].kind = "revoke" =>
    /\ FamilyOf(req[r].pair) \in disturbed
    /\ req[r].step \in {1, 2}
    /\ req[r].step = 2 => req[r].pair \notin access \/ req[r].pair \in botched

\* A pair that was exchanged for another has no access row any more.
ExchangedHasNoAccess ==
  \A p, q \in Pairs : Answered(q) /\ pair[q].from = p => p \notin access

TokenInv ==
  /\ TokenTypeOK /\ KinshipFits
  /\ ReceivedWereAnswered /\ RevocationsFit /\ ExchangedHasNoAccess
  /\ OneLivePairPerFamily /\ AccessFollowsGrant /\ ReplayedFamilyIsGone
  /\ UndisturbedGrantLives

-----------------------------------------------------------------------------
\* What the names that are picked are.
LEMMA FreshPairIsFresh ==
  ASSUME \E p \in Pairs : ~Minted(p)
  PROVE  FreshPair \in Pairs /\ ~Minted(FreshPair)
  BY DEF FreshPair

LEMMA FreshCodeIsFresh ==
  ASSUME \E k \in Codes : ~Issued(k)
  PROVE  FreshCode \in Codes /\ ~Issued(FreshCode)
  BY DEF FreshCode

LEMMA FreeSlotIsFree ==
  ASSUME \E r \in Requests : req[r] = Idle
  PROVE  FreeSlot \in Requests /\ req[FreeSlot] = Idle
  BY DEF FreeSlot

\* The types, of an idle request and of what is written into a slot.
Slot(kind, p) == [Idle EXCEPT !.kind = kind, !.pair = p]

LEMMA RequestRows ==
  /\ Idle \in Request /\ Idle.kind = "idle"
  /\ \A kind \in {"answer", "call", "revoked"}, p \in Pairs :
       /\ Slot(kind, p) \in Request
       /\ Slot(kind, p).kind = kind /\ Slot(kind, p).pair = p
  /\ \A p \in Pairs, step \in {1, 2} :
       [kind |-> "revoke", pair |-> p, step |-> step] \in Request
<1>1. Idle \in Request /\ Idle.kind = "idle"
  BY DEF Idle, Request
<1>2. ASSUME NEW kind \in {"answer", "call", "revoked"}, NEW p \in Pairs
      PROVE  /\ Slot(kind, p) \in Request
             /\ Slot(kind, p).kind = kind /\ Slot(kind, p).pair = p
  <2> DEFINE one == [Idle EXCEPT !.kind = kind]
  <2>1. one \in Request /\ one.kind = kind
    BY <1>1 DEF Request
  <2>2. Slot(kind, p) = [one EXCEPT !.pair = p]
    BY DEF Slot
  <2> HIDE DEF one
  <2>3. /\ [one EXCEPT !.pair = p] \in Request /\ [one EXCEPT !.pair = p].kind = kind
        /\ [one EXCEPT !.pair = p].pair = p
    BY <2>1 DEF Request
  <2> QED
    BY <2>2, <2>3
<1>3. \A p \in Pairs, step \in {1, 2} :
        [kind |-> "revoke", pair |-> p, step |-> step] \in Request
  BY DEF Request
<1> QED
  BY <1>1, <1>2, <1>3

\* At first there is nothing.
LEMMA TokenInvInitially == TokenInit => TokenInv
<1> SUFFICES ASSUME TokenInit PROVE TokenInv
  OBVIOUS
<1>1. /\ NoCode \in CodeRow /\ NoPair \in PairRow /\ NoPair.client = None
      /\ NoPair.family = None /\ NoPair.answered = FALSE
  BY Lifetimes DEF NoCode, NoPair, CodeRow, PairRow
<1>2. \A p \in Pairs : pair[p] = NoPair /\ ~Minted(p) /\ ~Answered(p)
  BY <1>1 DEF TokenInit, Minted, Answered
<1>3. \A r \in Requests : req[r] = Idle
  BY DEF TokenInit
<1>4. TokenTypeOK
  <2>1. code \in [Codes -> CodeRow] /\ pair \in [Pairs -> PairRow] /\ now \in 0..Horizon
    BY <1>1, Lifetimes DEF TokenInit
  <2>2. req \in [Requests -> Request]
    BY RequestRows DEF TokenInit
  <2>3. \A rowSet \in {access, refresh, spent, received, botched} : rowSet = {}
    BY DEF TokenInit
  <2>4. codeRows = {} /\ spoiled = {} /\ replayed = {} /\ disturbed = {}
    BY DEF TokenInit
  <2> QED
    BY <1>3, <2>1, <2>2, <2>3, <2>4 DEF TokenTypeOK
<1>5. KinshipFits
  BY <1>2 DEF TokenInit, KinshipFits, PairsFit, CodesAreUnused, OneRootPerFamily, Root,
              BornWithTheRoot, SpoiledAreGone
<1>6. ReceivedWereAnswered /\ RevocationsFit
  BY <1>3, RequestRows DEF TokenInit, ReceivedWereAnswered, RevocationsFit
<1>7. /\ ExchangedHasNoAccess /\ OneLivePairPerFamily /\ AccessFollowsGrant
      /\ ReplayedFamilyIsGone /\ UndisturbedGrantLives
  BY <1>2 DEF TokenInit, ExchangedHasNoAccess, OneLivePairPerFamily, AccessFollowsGrant,
              ReplayedFamilyIsGone, UndisturbedGrantLives, MembersOf
<1> QED
  BY <1>4, <1>5, <1>6, <1>7 DEF TokenInv

-----------------------------------------------------------------------------
\* The families: steps that mint nothing, and those that do.

\* Codes only disappear, and those presented with a wrong verifier with them.
LEMMA KinshipKept ==
  ASSUME TokenTypeOK, KinshipFits, UNCHANGED <<code, pair>>,
         codeRows' \subseteq codeRows,
         \A k \in spoiled' : k \in spoiled \/ (k \in codeRows /\ k \notin codeRows'),
         \A f \in replayed' : f \in replayed \/ \E p \in Pairs : Minted(p) /\ f = FamilyOf(p)
  PROVE  KinshipFits'
<1> USE DEF KinshipFits
<1>1. \A p \in Pairs : /\ Minted(p)' = Minted(p) /\ FamilyOf(p)' = FamilyOf(p)
                       /\ Root(p)' = Root(p)
  BY DEF Minted, FamilyOf, Root
<1>2. \A k \in Codes : Issued(k)' = Issued(k) /\ MembersOf(k)' = MembersOf(k)
  BY <1>1 DEF Issued, MembersOf
<1>3. PairsFit' /\ OneRootPerFamily' /\ BornWithTheRoot'
  BY DEF PairsFit, OneRootPerFamily, BornWithTheRoot, Minted, FamilyOf, Root, Issued
<1>4. CodesAreUnused'
  BY <1>2 DEF CodesAreUnused, TokenTypeOK
<1>5. SpoiledAreGone'
  BY <1>2 DEF SpoiledAreGone, CodesAreUnused, TokenTypeOK
<1>6. \A f \in replayed' : Issued(f)'
  BY <1>2 DEF PairsFit, TokenTypeOK
<1> QED
  BY <1>3, <1>4, <1>5, <1>6

\* A new pair, and everybody else as before.
Mints(n, c, f, old, answered) ==
  /\ n \in Pairs /\ ~Minted(n)
  /\ c \in Clients /\ f \in Codes /\ old \in Pairs \cup {None}
  /\ pair' = [pair EXCEPT ![n] = MintPair(c, f, old, answered)]

LEMMA MintFacts ==
  ASSUME TokenTypeOK, PairsFit, NEW n, NEW c, NEW f, NEW old, NEW answered \in BOOLEAN,
         Mints(n, c, f, old, answered)
  PROVE  /\ pair' \in [Pairs -> PairRow]
         /\ \A p \in Pairs \ {n} : pair'[p] = pair[p]
         /\ pair'[n].client = c /\ pair'[n].family = f /\ pair'[n].from = old
         /\ pair'[n].answered = answered /\ pair'[n].at = now
         /\ pair'[n].born = IF old = None THEN now ELSE pair[old].born
         /\ \A p \in Pairs : Minted(p)' <=> Minted(p) \/ p = n
         /\ \A g \in Codes : MembersOf(g)' = IF g = f THEN MembersOf(g) \cup {n} ELSE MembersOf(g)
         /\ \A g \in Codes : n \notin MembersOf(g)
         /\ n \notin access \cup refresh \cup spent \cup received \cup botched
         /\ \A p \in Pairs : pair[p].from # n
<1> DEFINE row == MintPair(c, f, old, answered)
<1>1. row \in PairRow
  <2>1. /\ c \in Clients /\ f \in Codes /\ old \in Pairs \cup {None} /\ now \in 0..Horizon
        /\ old \in Pairs => pair[old].born \in 0..Horizon
    BY DEF Mints, PairRow, TokenTypeOK
  <2> QED
    BY <2>1 DEF MintPair, PairRow
<1>2. /\ row.client = c /\ row.family = f /\ row.from = old
      /\ row.answered = answered /\ row.at = now
      /\ row.born = IF old = None THEN now ELSE pair[old].born
  BY DEF MintPair
<1> HIDE DEF row
<1>3. n \in Pairs /\ pair' = [pair EXCEPT ![n] = row] /\ pair \in [Pairs -> PairRow]
  BY DEF Mints, row, TokenTypeOK
<1>4. /\ pair' \in [Pairs -> PairRow] /\ pair'[n] = row
      /\ \A p \in Pairs \ {n} : pair'[p] = pair[p]
  BY <1>1, <1>3
<1>5. \A p \in Pairs : Minted(p)' <=> Minted(p) \/ p = n
  BY <1>2, <1>3, <1>4, NoneIsNothing DEF Minted, Mints
<1>6. pair[n].family = None
  <2>1. pair[n] = NoPair
    BY DEF Mints, PairsFit
  <2> QED
    BY <2>1 DEF NoPair
<1>7. \A g \in Codes : n \notin MembersOf(g)
  BY <1>6, NoneIsNothing DEF MembersOf, FamilyOf
<1>8. \A g \in Codes : MembersOf(g)' = IF g = f THEN MembersOf(g) \cup {n} ELSE MembersOf(g)
  BY <1>2, <1>3, <1>4, <1>7 DEF MembersOf, FamilyOf
<1>9. n \notin access \cup refresh \cup spent \cup received \cup botched
  BY DEF Mints, TokenTypeOK
<1>10. \A p \in Pairs : pair[p].from # n
  BY NoneIsNothing DEF Mints, PairsFit, NoPair, TokenTypeOK
<1> QED
  BY <1>2, <1>4, <1>5, <1>7, <1>8, <1>9, <1>10

\* A pair that begins a family uses its code up; any other is born into the family of the
\* pair it was exchanged for.
LEMMA KinshipMinted ==
  ASSUME TokenTypeOK, KinshipFits, NEW n, NEW c, NEW f, NEW old, NEW answered \in BOOLEAN,
         Mints(n, c, f, old, answered),
         \/ old = None /\ f \in codeRows /\ codeRows' = codeRows \ {f}
         \/ old \in Pairs /\ Minted(old) /\ FamilyOf(old) = f /\ UNCHANGED codeRows,
         UNCHANGED <<code, spoiled, replayed>>
  PROVE  KinshipFits'
<1> USE DEF KinshipFits
<1>1. /\ n \in Pairs /\ ~Minted(n) /\ c # None /\ f \in Codes
      /\ pair' \in [Pairs -> PairRow] /\ pair'[n] \in PairRow
      /\ \A p \in Pairs \ {n} : pair'[p] = pair[p]
      /\ pair'[n].client = c /\ pair'[n].family = f /\ pair'[n].from = old
      /\ pair'[n].at = now /\ pair'[n].born = IF old = None THEN now ELSE pair[old].born
      /\ \A p \in Pairs : Minted(p)' <=> Minted(p) \/ p = n
      /\ \A g \in Codes : MembersOf(g)' = IF g = f THEN MembersOf(g) \cup {n} ELSE MembersOf(g)
  <2>1. n \in Pairs /\ ~Minted(n) /\ c # None /\ f \in Codes
    BY NoneIsNothing DEF Mints
  <2> QED
    BY <2>1, MintFacts
<1>2. Issued(f) /\ \A k \in Codes : Issued(k)' = Issued(k)
  BY DEF Issued, TokenTypeOK, PairsFit
<1>3. f \notin codeRows' /\ (old \in Pairs => f \notin codeRows)
  BY <1>1, NoneIsNothing DEF CodesAreUnused, MembersOf
<1>4. PairsFit'
  <2> SUFFICES ASSUME NEW p \in Pairs
               PROVE  (IF Minted(p) THEN /\ FamilyOf(p) \in Families /\ Issued(FamilyOf(p))
                                         /\ pair[p].from # None => Minted(pair[p].from)
                       ELSE pair[p] = NoPair)'
    BY DEF PairsFit
  <2>1. CASE p = n
    <3>1. old # None => Minted(old)'
      BY <1>1
    <3> QED
      BY <1>1, <1>2, <2>1, <3>1 DEF FamilyOf, Issued, Minted
  <2>2. CASE p # n
    <3>1. pair[p].from # None => pair[p].from \in Pairs
      BY <1>1 DEF TokenTypeOK, PairRow
    <3>2. Minted(p) => (pair[p].from # None => Minted(pair[p].from)')
      BY <1>1, <3>1 DEF PairsFit
    <3>3. pair'[p] = pair[p] /\ (Minted(p)' <=> Minted(p))
      BY <1>1, <2>2
    <3> QED
      BY <1>2, <3>2, <3>3 DEF PairsFit, FamilyOf, Minted, Issued
  <2> QED
    BY <2>1, <2>2
<1>5. CodesAreUnused'
  BY <1>1, <1>3 DEF CodesAreUnused, TokenTypeOK
<1>6. SpoiledAreGone' /\ \A g \in replayed' : Issued(g)'
  <2>1. f \notin spoiled
    BY DEF SpoiledAreGone, MembersOf
  <2>2. \A k \in spoiled : k \in Codes /\ MembersOf(k)' = MembersOf(k)
    BY <1>1, <2>1 DEF TokenTypeOK
  <2>3. SpoiledAreGone'
    BY <1>2, <2>2 DEF SpoiledAreGone
  <2> QED
    BY <1>2, <2>3 DEF TokenTypeOK
<1>7. \A p \in Pairs : Root(p)' <=> Root(p) \/ (p = n /\ old = None)
  BY <1>1 DEF Root, Minted
<1>8. OneRootPerFamily'
  BY <1>1, <1>3, <1>7, NoneIsNothing
     DEF OneRootPerFamily, Root, CodesAreUnused, MembersOf, FamilyOf
<1>9. BornWithTheRoot'
  <2> SUFFICES ASSUME NEW p \in Pairs, Minted(p)'
               PROVE  \E q \in Pairs : /\ Root(q)' /\ FamilyOf(q)' = FamilyOf(p)'
                                       /\ pair'[q].at = pair'[p].born
    BY DEF BornWithTheRoot
  <2>1. CASE p = n /\ old = None
    BY <1>1, <1>7, <2>1 DEF FamilyOf
  <2>2. CASE p = n /\ old \in Pairs /\ Minted(old) /\ FamilyOf(old) = f
    <3>1. PICK q \in Pairs : Root(q) /\ FamilyOf(q) = f /\ pair[q].at = pair[old].born
      BY <2>2 DEF BornWithTheRoot
    <3>2. q # n /\ old # None
      BY <1>1, <3>1, <2>2, NoneIsNothing DEF Root
    <3> QED
      BY <1>1, <1>7, <2>2, <3>1, <3>2 DEF FamilyOf
  <2>3. CASE p # n
    <3>1. Minted(p)
      BY <1>1, <2>3
    <3>2. PICK q \in Pairs : Root(q) /\ FamilyOf(q) = FamilyOf(p) /\ pair[q].at = pair[p].born
      BY <3>1 DEF BornWithTheRoot
    <3>3. q # n
      BY <1>1, <3>2 DEF Root
    <3> QED
      BY <1>1, <1>7, <2>3, <3>2, <3>3 DEF FamilyOf
  <2> QED
    BY <2>1, <2>2, <2>3
<1> QED
  BY <1>4, <1>5, <1>6, <1>8, <1>9

-----------------------------------------------------------------------------
\* Steps that mint nothing.

\* An undisturbed family keeps its grant, as long as an answer that ends has arrived.
LEMMA GrantStays ==
  ASSUME TokenTypeOK, PairsFit, UndisturbedGrantLives, UNCHANGED pair,
         disturbed \subseteq disturbed', received \subseteq received',
         \A p \in refresh : p \in refresh' \/ FamilyOf(p) \in disturbed',
         \A r \in Requests : req[r].kind = "answer" =>
           \/ req'[r] = req[r]
           \/ req[r].pair \in received' \/ FamilyOf(req[r].pair) \in disturbed'
  PROVE  UndisturbedGrantLives'
<1> SUFFICES ASSUME NEW f \in Families, f \notin disturbed',
                    NEW q \in Pairs, FamilyOf(q) = f, Answered(q)
             PROVE  \E p \in Pairs :
                      /\ FamilyOf(p) = f /\ p \in refresh'
                      /\ \/ p \in received'
                         \/ \E r \in Requests : req'[r].kind = "answer" /\ req'[r].pair = p
  BY DEF UndisturbedGrantLives, MembersOf, FamilyOf, Answered
<1>1. PICK p \in Pairs : /\ FamilyOf(p) = f /\ p \in refresh
                         /\ \/ p \in received
                            \/ \E r \in Requests : req[r].kind = "answer" /\ req[r].pair = p
  BY DEF UndisturbedGrantLives, MembersOf
<1>2. p \in refresh'
  BY <1>1
<1>3. CASE p \in received
  BY <1>1, <1>2, <1>3
<1>4. CASE \E r \in Requests : req[r].kind = "answer" /\ req[r].pair = p
  <2>1. PICK r \in Requests : req[r].kind = "answer" /\ req[r].pair = p
    BY <1>4
  <2> QED
    BY <1>1, <1>2, <2>1
<1> QED
  BY <1>1, <1>3, <1>4

\* A step that leaves the rows alone.
LEMMA RowsKept ==
  ASSUME TokenInv, UNCHANGED <<rows, spoiled, replayed, botched>>,
         TokenTypeOK', ReceivedWereAnswered', RevocationsFit', UndisturbedGrantLives'
  PROVE  TokenInv'
<1> USE DEF TokenInv, rows
<1>1. KinshipFits'
  BY KinshipKept
<1>2. ExchangedHasNoAccess' /\ OneLivePairPerFamily' /\ AccessFollowsGrant'
  BY DEF ExchangedHasNoAccess, OneLivePairPerFamily, AccessFollowsGrant, Answered, FamilyOf
<1>3. ReplayedFamilyIsGone'
  BY DEF ReplayedFamilyIsGone, MembersOf, FamilyOf
<1> QED
  BY <1>1, <1>2, <1>3

\* One request changes, and is about a minted pair unless it ends.
LEMMA RequestStep ==
  ASSUME TokenInv, NEW r \in Requests, NEW row \in Request, req' = [req EXCEPT ![r] = row],
         row = Idle \/ (row.pair \in Pairs /\ Minted(row.pair)),
         row.kind \in {"answer", "revoke"} => Answered(row.pair),
         row.kind = "revoke" => FamilyOf(row.pair) \in disturbed' /\ row.step = 1,
         req[r].kind = "answer" =>
           req[r].pair \in received' \/ FamilyOf(req[r].pair) \in disturbed',
         UNCHANGED <<rows, now, spoiled, replayed, botched>>,
         disturbed \subseteq disturbed', disturbed' \subseteq Families,
         \A p \in received' : p \in received \/ (p \in Pairs /\ Minted(p) /\ Answered(p)),
         received \subseteq received'
  PROVE  TokenInv'
<1> USE DEF TokenInv, KinshipFits, rows
<1>1. req' \in [Requests -> Request] /\ \A q \in Requests : req'[q] = IF q = r THEN row ELSE req[q]
  BY DEF TokenTypeOK
<1>2. \A p \in Pairs : Minted(p)' = Minted(p) /\ Answered(p)' = Answered(p)
  BY DEF Minted, Answered
<1>3. received' \subseteq {p \in Pairs : Minted(p)}
  BY DEF TokenTypeOK
<1>4. TokenTypeOK'
  <2>1. \A rowSet \in {access, refresh, spent, received, botched}' :
          rowSet \subseteq {p \in Pairs : Minted(p)'}
    BY <1>2, <1>3 DEF TokenTypeOK
  <2>2. (\A q \in Requests : req[q] # Idle => req[q].pair \in Pairs /\ Minted(req[q].pair))'
    BY <1>1, <1>2 DEF TokenTypeOK
  <2> QED
    BY <1>1, <2>1, <2>2 DEF TokenTypeOK, Issued, Minted
<1>5. ReceivedWereAnswered'
  BY <1>1 DEF ReceivedWereAnswered, Answered
<1>6. RevocationsFit'
  BY <1>1 DEF RevocationsFit, FamilyOf
<1>7. UndisturbedGrantLives'
  BY <1>1, GrantStays
<1> QED
  BY <1>4, <1>5, <1>6, <1>7, RowsKept

\* A request begins or ends: a call, the answer of one, or a revocation.
LEMMA BeginRevokeStep ==
  ASSUME TokenInv, NEW r \in Requests, NEW p \in Pairs, NEW by \in {"access", "refresh"},
         BeginRevoke(r, p, by)
  PROVE  TokenInv'
<1> USE DEF TokenInv, KinshipFits, BeginRevoke
<1> DEFINE row == [kind |-> "revoke", pair |-> p, step |-> 1]
<1>1. row \in Request /\ row.kind = "revoke" /\ row.pair = p /\ row.step = 1
  BY RequestRows
<1>2. Minted(p) /\ Answered(p) /\ FamilyOf(p) \in Families
  BY DEF TokenTypeOK, ReceivedWereAnswered, PairsFit
<1>3. req[r].kind # "answer"
  BY RequestRows
<1> HIDE DEF row
<1>4. /\ req' = [req EXCEPT ![r] = row] /\ disturbed' = disturbed \cup {FamilyOf(p)}
      /\ UNCHANGED <<rows, now, received, spoiled, replayed, botched>>
  BY DEF row
<1>5. disturbed' \subseteq Families
  BY <1>2, <1>4 DEF TokenTypeOK
<1> QED
  BY <1>1, <1>2, <1>3, <1>4, <1>5, RequestStep

LEMMA OpenRequestStep ==
  ASSUME TokenInv, NEW r \in Requests, NEW p \in Pairs,
         \/ \E by \in {"access", "refresh"} : RevokeUnknown(r, p, by)
         \/ Admit(r, p)
  PROVE  TokenInv'
<1> USE DEF TokenInv, history
<1>1. PICK kind \in {"call", "revoked"} :
        req' = [req EXCEPT ![r] = Slot(kind, p)]
  BY DEF RevokeUnknown, Admit, Slot
<1> DEFINE row == Slot(kind, p)
<1>2. row \in Request /\ row.kind = kind /\ row.pair = p
  BY RequestRows
<1>3. /\ Minted(p) /\ req[r].kind # "answer"
      /\ UNCHANGED <<rows, now, received, spoiled, replayed, disturbed, botched>>
  BY RequestRows DEF RevokeUnknown, Admit, TokenTypeOK
<1>4. req' = [req EXCEPT ![r] = row]
  BY <1>1
<1> HIDE DEF row
<1> QED
  BY <1>2, <1>3, <1>4, RequestStep DEF TokenTypeOK

LEMMA CloseRequestStep ==
  ASSUME TokenInv, NEW r \in Requests, EndRequest(r) \/ Deliver(r)
  PROVE  TokenInv'
<1> USE DEF TokenInv, history
<1>1. /\ req' = [req EXCEPT ![r] = Idle] /\ received \subseteq received'
      /\ UNCHANGED <<rows, now, spoiled, replayed, disturbed, botched>>
  BY DEF EndRequest, Deliver
<1>2. req[r].kind = "answer" => req[r].pair \in received'
  BY DEF EndRequest, Deliver
<1>3. req[r].kind # "idle" => req[r] # Idle
  BY RequestRows
<1>4. \A p \in received' : p \in received \/ (p \in Pairs /\ Minted(p) /\ Answered(p))
  BY <1>3 DEF EndRequest, Deliver, TokenTypeOK, ReceivedWereAnswered
<1> QED
  BY <1>1, <1>2, <1>4, RequestRows, RequestStep DEF TokenTypeOK

\* An answer that is cut short disturbs its family.
LEMMA CutShortStep ==
  ASSUME TokenInv, NEW cut \in SUBSET Requests, CutShort(cut)
  PROVE  TokenInv'
<1> USE DEF TokenInv, KinshipFits, CutShort, rows
<1>1. /\ req' \in [Requests -> Request]
      /\ \A r \in Requests : req'[r] = IF r \in cut THEN Idle ELSE req[r]
  BY RequestRows DEF TokenTypeOK
<1>2. \A r \in Requests : req[r].kind = "answer" =>
        req'[r] = req[r] \/ FamilyOf(req[r].pair) \in disturbed'
  BY <1>1
<1>3. disturbed \subseteq disturbed' /\ disturbed' \subseteq Families
  <2>1. ASSUME NEW r \in Requests, req[r].kind = "answer"
        PROVE  FamilyOf(req[r].pair) \in Families
    BY <2>1, RequestRows DEF TokenTypeOK, PairsFit
  <2>2. disturbed' =
          disturbed \cup {FamilyOf(req[r].pair) : r \in {q \in cut : req[q].kind = "answer"}}
    OBVIOUS
  <2>3. cut \subseteq Requests
    OBVIOUS
  <2> QED
    BY <2>1, <2>2, <2>3 DEF TokenTypeOK
<1>4. TokenTypeOK'
  <2>1. \A rowSet \in {access, refresh, spent, received, botched}' :
          rowSet \subseteq {p \in Pairs : Minted(p)'}
    BY DEF TokenTypeOK, Minted
  <2>2. (\A q \in Requests : req[q] # Idle => req[q].pair \in Pairs /\ Minted(req[q].pair))'
    BY <1>1 DEF TokenTypeOK, Minted
  <2> QED
    BY <1>1, <1>3, <2>1, <2>2 DEF TokenTypeOK, Issued, Minted
<1>5. ReceivedWereAnswered' /\ RevocationsFit'
  BY <1>1, <1>3, RequestRows DEF ReceivedWereAnswered, RevocationsFit, Answered, FamilyOf
<1>6. UndisturbedGrantLives'
  BY <1>2, <1>3, GrantStays
<1> QED
  BY <1>4, <1>5, <1>6, RowsKept

LEMMA TickStep ==
  ASSUME TokenInv, Tick
  PROVE  TokenInv'
<1> USE DEF TokenInv, KinshipFits, Tick, rows, history
<1>1. TokenTypeOK'
  BY Lifetimes DEF TokenTypeOK, Issued, Minted
<1>2. ReceivedWereAnswered' /\ RevocationsFit'
  BY DEF ReceivedWereAnswered, RevocationsFit, Answered, FamilyOf
<1>3. UndisturbedGrantLives'
  BY GrantStays
<1> QED
  BY <1>1, <1>2, <1>3, RowsKept

\* A deletion marks the token it deletes, or none.
LEMMA MarksAre ==
  ASSUME NEW p
  PROVE  Marks(p) \subseteq {spent, spent \cup {p}}
BY DEF Marks, Mark

\* A statement of a revocation: of a family that is disturbed already; the refresh row is
\* removed after the access row, or after the failure to remove that.
LEMMA RevokeStatementStep ==
  ASSUME TokenInv, NEW r \in Requests, RevokeStatement(r)
  PROVE  TokenInv'
<1> USE DEF TokenInv
<1> DEFINE p == req[r].pair
           row == IF req[r].step = 1 THEN [req[r] EXCEPT !.step = 2] ELSE Slot("revoked", p)
<1>1. /\ req[r] \in Request /\ req[r].kind = "revoke" /\ p \in Pairs /\ Minted(p)
      /\ Answered(p) /\ FamilyOf(p) \in disturbed
      /\ req[r].step \in {1, 2} /\ (req[r].step = 2 => p \notin access \/ p \in botched)
  BY RequestRows DEF RevokeStatement, TokenTypeOK, ReceivedWereAnswered, RevocationsFit
<1>2. UNCHANGED <<code, codeRows, pair, now, received, spoiled, replayed, disturbed>>
  BY DEF RevokeStatement
<1>3. /\ access' = access \/ (access' = access \ {p} /\ req[r].step = 1)
      /\ refresh' = refresh \/ (refresh' = refresh \ {p} /\ req[r].step = 2)
      /\ spent' = spent \/ spent' = spent \cup {p}
      /\ botched' = botched \/ botched' = botched \cup {p}
      /\ req[r].step = 1 => p \notin access' \/ p \in botched'
  BY <1>1, MarksAre DEF RevokeStatement, RemovalOrder, Mark
<1>4. /\ row \in Request /\ row.pair = p
      /\ row.kind = "revoked" \/ (row.kind = "revoke" /\ row.step = 2 /\ req[r].step = 1)
  BY <1>1, RequestRows DEF Request
<1>5. req' = [req EXCEPT ![r] = row]
  BY <1>1 DEF RevokeStatement, Slot, TokenTypeOK
<1> HIDE DEF row
<1>6. req' \in [Requests -> Request] /\ \A q \in Requests : req'[q] = IF q = r THEN row ELSE req[q]
  BY <1>4, <1>5 DEF TokenTypeOK
<1>7. TokenTypeOK'
  <2>1. \A rowSet \in {access, refresh, spent, received, botched}' :
          rowSet \subseteq {q \in Pairs : Minted(q)'}
    BY <1>1, <1>2, <1>3 DEF TokenTypeOK, Minted
  <2>2. (\A q \in Requests : req[q] # Idle => req[q].pair \in Pairs /\ Minted(req[q].pair))'
    BY <1>1, <1>2, <1>4, <1>6 DEF TokenTypeOK, Minted
  <2> QED
    BY <1>2, <1>6, <2>1, <2>2 DEF TokenTypeOK, Issued, Minted
<1>8. KinshipFits'
  BY <1>2, KinshipKept
<1>9. ReceivedWereAnswered'
  BY <1>1, <1>2, <1>4, <1>6 DEF ReceivedWereAnswered, Answered
<1>10. RevocationsFit'
  BY <1>1, <1>2, <1>3, <1>4, <1>6 DEF RevocationsFit, FamilyOf
<1>11. ExchangedHasNoAccess' /\ OneLivePairPerFamily'
  BY <1>2, <1>3 DEF ExchangedHasNoAccess, OneLivePairPerFamily, Answered, FamilyOf
<1>12. AccessFollowsGrant'
  BY <1>1, <1>2, <1>3 DEF AccessFollowsGrant, Answered
<1>13. ReplayedFamilyIsGone'
  BY <1>2, <1>3 DEF ReplayedFamilyIsGone, MembersOf, FamilyOf
<1>14. UndisturbedGrantLives'
  BY <1>1, <1>2, <1>3, <1>6, GrantStays DEF KinshipFits
<1> QED
  BY <1>7, <1>8, <1>9, <1>10, <1>11, <1>12, <1>13, <1>14

\* A replay: every row of the family goes, and the family was disturbed by it.
LEMMA ReplayStep ==
  ASSUME TokenInv, NEW c \in Clients, NEW p \in Pairs, ReplaySpent(c, p)
  PROVE  TokenInv'
<1> USE DEF TokenInv
<1> DEFINE f == FamilyOf(p)
<1>1. Minted(p) /\ f \in Families /\ disturbed' = disturbed \cup {f}
  BY DEF ReplaySpent, SpentBy, TokenTypeOK, KinshipFits, PairsFit
<1>2. /\ codeRows' = codeRows \ {f} /\ access' = access \ MembersOf(f)
      /\ refresh' = refresh \ MembersOf(f) /\ replayed' = replayed \cup {f}
      /\ UNCHANGED <<code, pair, spent, now, req, received, spoiled, botched>>
  BY DEF ReplaySpent, ForgetFamily
<1>3. TokenTypeOK'
  <2>1. \A rowSet \in {access, refresh, spent, received, botched}' :
          rowSet \subseteq {q \in Pairs : Minted(q)'}
    BY <1>2 DEF TokenTypeOK, Minted
  <2>2. (\A q \in Requests : req[q] # Idle => req[q].pair \in Pairs /\ Minted(req[q].pair))'
    BY <1>2 DEF TokenTypeOK, Minted
  <2> QED
    BY <1>1, <1>2, <2>1, <2>2 DEF TokenTypeOK, Issued
<1>4. KinshipFits'
  BY <1>1, <1>2, KinshipKept
<1>5. ReceivedWereAnswered' /\ RevocationsFit'
  BY <1>1, <1>2 DEF ReceivedWereAnswered, RevocationsFit, Answered, FamilyOf
<1>6. ExchangedHasNoAccess' /\ OneLivePairPerFamily'
  BY <1>2 DEF ExchangedHasNoAccess, OneLivePairPerFamily, Answered, FamilyOf
<1>7. AccessFollowsGrant'
  BY <1>2 DEF AccessFollowsGrant, Answered
<1>8. ReplayedFamilyIsGone'
  BY <1>2 DEF ReplayedFamilyIsGone, MembersOf, FamilyOf
<1>9. UndisturbedGrantLives'
  BY <1>1, <1>2, GrantStays DEF KinshipFits, MembersOf
<1> QED
  BY <1>3, <1>4, <1>5, <1>6, <1>7, <1>8, <1>9

\* A new code: of a family that has no member, and in which nothing was replayed.
LEMMA IssueCodeStep ==
  ASSUME TokenInv, NEW c \in Clients, IssueCode(c)
  PROVE  TokenInv'
<1> USE DEF TokenInv, KinshipFits, history
<1> DEFINE k == FreshCode
           row == [client |-> c, at |-> now]
<1>1. k \in Codes /\ ~Issued(k)
  BY FreshCodeIsFresh DEF IssueCode
<1>2. row \in CodeRow /\ row.client = c /\ c # None
  BY NoneIsNothing DEF CodeRow, TokenTypeOK
<1>3. /\ code' = [code EXCEPT ![k] = row] /\ codeRows' = codeRows \cup {k}
      /\ UNCHANGED <<pair, access, refresh, spent, now, req, received,
                     spoiled, replayed, disturbed, botched>>
  BY DEF IssueCode
<1> HIDE DEF k, row
<1>4. code' \in [Codes -> CodeRow] /\ \A j \in Codes : Issued(j)' <=> Issued(j) \/ j = k
  BY <1>1, <1>2, <1>3 DEF TokenTypeOK, Issued
<1>5. MembersOf(k) = {} /\ k \notin spoiled /\ k \notin replayed
  <2>1. ASSUME NEW p \in Pairs, FamilyOf(p) = k PROVE FALSE
    <3>1. ~Minted(p)
      BY <1>1, <2>1 DEF PairsFit
    <3>2. FamilyOf(p) = None
      BY <3>1 DEF PairsFit, NoPair, FamilyOf
    <3> QED
      BY <1>1, <2>1, <3>2, NoneIsNothing
  <2> QED
    BY <1>1, <2>1 DEF MembersOf, SpoiledAreGone
<1>6. TokenTypeOK'
  <2>1. \A rowSet \in {access, refresh, spent, received, botched}' :
          rowSet \subseteq {q \in Pairs : Minted(q)'}
    BY <1>3 DEF TokenTypeOK, Minted
  <2>2. (\A q \in Requests : req[q] # Idle => req[q].pair \in Pairs /\ Minted(req[q].pair))'
    BY <1>3 DEF TokenTypeOK, Minted
  <2>3. codeRows' \subseteq {j \in Codes : Issued(j)'}
    BY <1>1, <1>3, <1>4 DEF TokenTypeOK
  <2> QED
    BY <1>3, <1>4, <2>1, <2>2, <2>3 DEF TokenTypeOK
<1>7. PairsFit' /\ OneRootPerFamily' /\ BornWithTheRoot'
  <2>1. \A p \in Pairs : Minted(p)' = Minted(p) /\ FamilyOf(p)' = FamilyOf(p) /\ Root(p)' = Root(p)
    BY <1>3 DEF Minted, FamilyOf, Root
  <2>2. OneRootPerFamily' /\ BornWithTheRoot'
    BY <1>3 DEF OneRootPerFamily, BornWithTheRoot, Root, Minted, FamilyOf
  <2>3. \A p \in Pairs : Minted(p) => Issued(FamilyOf(p))'
    BY <1>3, <1>4 DEF PairsFit, FamilyOf, Issued
  <2>4. PairsFit'
    BY <1>3, <2>1, <2>3 DEF PairsFit, Minted, FamilyOf, Issued
  <2> QED
    BY <2>2, <2>4
<1>8. CodesAreUnused' /\ SpoiledAreGone' /\ \A f \in replayed' : Issued(f)'
  <2>1. \A f \in Codes : MembersOf(f)' = MembersOf(f)
    BY <1>3 DEF MembersOf, FamilyOf
  <2>2. \A j \in codeRows' : MembersOf(j)' = {}
    BY <1>1, <1>3, <1>5, <2>1 DEF CodesAreUnused, TokenTypeOK
  <2>3. \A j \in spoiled' : Issued(j)' /\ j \notin codeRows' /\ MembersOf(j)' = {}
    BY <1>3, <1>4, <1>5, <2>1 DEF SpoiledAreGone, TokenTypeOK
  <2>4. \A f \in replayed' : Issued(f)'
    BY <1>3, <1>4 DEF TokenTypeOK
  <2> QED
    BY <2>2, <2>3, <2>4 DEF CodesAreUnused, SpoiledAreGone
<1>9. ReceivedWereAnswered' /\ RevocationsFit' /\ ExchangedHasNoAccess'
  BY <1>3 DEF ReceivedWereAnswered, RevocationsFit, ExchangedHasNoAccess, Answered, FamilyOf
<1>10. OneLivePairPerFamily' /\ AccessFollowsGrant'
  BY <1>3 DEF OneLivePairPerFamily, AccessFollowsGrant, Answered, FamilyOf
<1>11. ReplayedFamilyIsGone'
  BY <1>3, <1>5 DEF ReplayedFamilyIsGone, MembersOf, FamilyOf
<1>12. UndisturbedGrantLives'
  BY <1>3, GrantStays
<1> QED
  BY <1>6, <1>7, <1>8, <1>9, <1>10, <1>11, <1>12

\* A code that is presented with a wrong verifier is consumed, and named as such.
LEMMA FailPKCEStep ==
  ASSUME TokenInv, NEW c \in Clients, NEW k \in Codes, FailPKCE(c, k)
  PROVE  TokenInv'
<1> USE DEF TokenInv
<1>1. /\ k \in codeRows /\ codeRows' = codeRows \ {k} /\ spoiled' = spoiled \cup {k}
      /\ UNCHANGED <<code, pair, access, refresh, spent, now, req, received,
                     replayed, disturbed, botched>>
  BY DEF FailPKCE, Redeemable
<1>2. TokenTypeOK'
  <2>1. \A rowSet \in {access, refresh, spent, received, botched}' :
          rowSet \subseteq {q \in Pairs : Minted(q)'}
    BY <1>1 DEF TokenTypeOK, Minted
  <2>2. (\A q \in Requests : req[q] # Idle => req[q].pair \in Pairs /\ Minted(req[q].pair))'
    BY <1>1 DEF TokenTypeOK, Minted
  <2> QED
    BY <1>1, <2>1, <2>2 DEF TokenTypeOK, Issued
<1>3. KinshipFits'
  BY <1>1, KinshipKept
<1>4. ReceivedWereAnswered' /\ RevocationsFit' /\ ExchangedHasNoAccess'
  BY <1>1 DEF ReceivedWereAnswered, RevocationsFit, ExchangedHasNoAccess, Answered, FamilyOf
<1>5. OneLivePairPerFamily' /\ AccessFollowsGrant'
  BY <1>1 DEF OneLivePairPerFamily, AccessFollowsGrant, Answered, FamilyOf
<1>6. ReplayedFamilyIsGone'
  BY <1>1 DEF ReplayedFamilyIsGone, MembersOf, FamilyOf
<1>7. UndisturbedGrantLives'
  BY <1>1, GrantStays DEF KinshipFits
<1> QED
  BY <1>2, <1>3, <1>4, <1>5, <1>6, <1>7

-----------------------------------------------------------------------------
\* Steps that mint a pair: out of a code that this uses up, or after a stored pair that
\* its client holds.
Succeeds(old, f) ==
  \/ old = None /\ f \in codeRows /\ codeRows' = codeRows \ {f}
  \/ /\ old \in refresh /\ old \in received /\ FamilyOf(old) = f
     /\ UNCHANGED codeRows

\* The types, and the kinship.
LEMMA MintKeepsTypes ==
  ASSUME TokenInv, NEW n, NEW c, NEW f, NEW old, NEW answered \in BOOLEAN,
         Mints(n, c, f, old, answered), Succeeds(old, f),
         access' \subseteq access \cup {n}, refresh' \subseteq refresh \cup {n},
         spent' \subseteq spent \cup refresh,
         UNCHANGED <<code, now, received, history>>,
         \/ UNCHANGED req
         \/ \E r \in Requests : req' = [req EXCEPT ![r] = Slot("answer", n)]
  PROVE  TokenTypeOK' /\ KinshipFits'
<1> USE DEF TokenInv, history
<1>1. /\ n \in Pairs /\ pair' \in [Pairs -> PairRow]
      /\ \A p \in Pairs : Minted(p)' <=> Minted(p) \/ p = n
  BY MintFacts DEF Mints, KinshipFits
<1>2. codeRows' \subseteq codeRows
  BY DEF Succeeds
<1>3. \A rowSet \in {access, refresh, spent, received, botched}' :
        rowSet \subseteq {q \in Pairs : Minted(q)'}
  BY <1>1 DEF TokenTypeOK
<1>4. /\ req' \in [Requests -> Request]
      /\ \A q \in Requests : req'[q] = req[q] \/ req'[q].pair = n
  BY <1>1, RequestRows DEF TokenTypeOK
<1>5. (\A q \in Requests : req[q] # Idle => req[q].pair \in Pairs /\ Minted(req[q].pair))'
  BY <1>1, <1>4 DEF TokenTypeOK
<1>6. TokenTypeOK'
  BY <1>1, <1>2, <1>3, <1>4, <1>5 DEF TokenTypeOK, Issued
<1>7. old \in refresh => old \in Pairs /\ Minted(old)
  BY DEF TokenTypeOK
<1>8. KinshipFits'
  BY <1>7, KinshipMinted DEF Succeeds
<1> QED
  BY <1>6, <1>8

\* A pair that nobody is told of, some of whose rows are there; and the access row, or even
\* the mark, of the pair that it would have followed.
LEMMA OrphanStep ==
  ASSUME TokenInv, NEW n, NEW c, NEW f, NEW old,
         Mints(n, c, f, old, FALSE), Succeeds(old, f),
         access' \subseteq access \cup {n},
         refresh \subseteq refresh', refresh' \subseteq refresh \cup {n},
         spent' \subseteq spent \cup refresh,
         UNCHANGED <<code, now, req, received, history>>
  PROVE  TokenInv'
<1> USE DEF TokenInv, history
<1>1. TokenTypeOK' /\ KinshipFits'
  BY MintKeepsTypes
<1>2. /\ n \in Pairs /\ f \in Codes /\ ~Minted(n)
      /\ \A p \in Pairs \ {n} : pair'[p] = pair[p]
      /\ pair'[n].family = f /\ pair'[n].answered = FALSE
      /\ \A g \in Codes : MembersOf(g)' = IF g = f THEN MembersOf(g) \cup {n} ELSE MembersOf(g)
      /\ n \notin access \cup refresh \cup spent \cup received \cup botched
      /\ \A p \in Pairs : pair[p].from # n
  <2>1. n \in Pairs /\ f \in Codes /\ ~Minted(n)
    BY DEF Mints
  <2>2. PICK answered \in BOOLEAN : answered = FALSE /\ Mints(n, c, f, old, answered)
    BY Zenon
  <2>3. TokenTypeOK /\ PairsFit
    BY DEF KinshipFits
  <2> QED
    BY <2>1, <2>2, <2>3, MintFacts
<1>3. \A p \in Pairs : Answered(p)' => p # n /\ Answered(p)
  BY <1>2 DEF Answered
<1>4. \A p \in Pairs : Minted(p) =>
        p # n /\ Answered(p)' = Answered(p) /\ FamilyOf(p)' = FamilyOf(p)
  BY <1>2 DEF Answered, FamilyOf
<1>5. /\ \A p \in access \cup refresh \cup received : p \in Pairs /\ Minted(p)
      /\ \A r \in Requests : req[r] # Idle => req[r].pair \in Pairs /\ Minted(req[r].pair)
  BY DEF TokenTypeOK
<1>6. \A r \in Requests : req[r].kind # "idle" => req[r] # Idle
  BY RequestRows
<1>7. ReceivedWereAnswered'
  BY <1>4, <1>5, <1>6 DEF ReceivedWereAnswered
<1>8. RevocationsFit'
  <2> SUFFICES ASSUME NEW r \in Requests, req[r].kind = "revoke"
               PROVE  /\ FamilyOf(req[r].pair)' \in disturbed
                      /\ req[r].step \in {1, 2}
                      /\ req[r].step = 2 => req[r].pair \notin access' \/ req[r].pair \in botched
    BY DEF RevocationsFit, FamilyOf
  <2>1. req[r].pair \in Pairs /\ Minted(req[r].pair)
    BY <1>5, <1>6
  <2> QED
    BY <1>4, <2>1 DEF RevocationsFit
<1>9. ExchangedHasNoAccess'
  BY <1>2, <1>3 DEF ExchangedHasNoAccess
<1>10. OneLivePairPerFamily'
  BY <1>2, <1>3, <1>4, <1>5 DEF OneLivePairPerFamily
<1>11. AccessFollowsGrant'
  BY <1>2, <1>3, <1>5 DEF AccessFollowsGrant
<1>12. f \notin replayed
  BY <1>5 DEF Succeeds, ReplayedFamilyIsGone, MembersOf
<1>13. ReplayedFamilyIsGone'
  <2> SUFFICES ASSUME NEW g \in replayed
               PROVE  g \notin codeRows' /\ MembersOf(g)' \cap (access' \cup refresh') = {}
    BY DEF ReplayedFamilyIsGone
  <2>1. g \in Codes /\ g # f /\ MembersOf(g)' = MembersOf(g) /\ n \notin MembersOf(g)
    BY <1>2, <1>12, MintFacts DEF TokenTypeOK, KinshipFits
  <2> QED
    BY <2>1 DEF ReplayedFamilyIsGone, Succeeds
<1>14. UndisturbedGrantLives'
  <2> SUFFICES ASSUME NEW g \in Families, g \notin disturbed,
                      NEW q \in MembersOf(g)', Answered(q)'
               PROVE  \E p \in MembersOf(g)' \cap refresh' :
                        \/ p \in received
                        \/ \E r \in Requests : req[r].kind = "answer" /\ req[r].pair = p
    BY DEF UndisturbedGrantLives
  <2>1. q \in MembersOf(g) /\ Answered(q)
    BY <1>2, <1>3 DEF MembersOf
  <2>2. PICK p \in MembersOf(g) \cap refresh :
          p \in received \/ \E r \in Requests : req[r].kind = "answer" /\ req[r].pair = p
    BY <2>1 DEF UndisturbedGrantLives
  <2>3. p \in MembersOf(g)' \cap refresh'
    BY <1>2, <2>2
  <2> QED
    BY <2>2, <2>3
<1> QED
  BY <1>1, <1>7, <1>8, <1>9, <1>10, <1>11, <1>13, <1>14

\* A pair that is answered takes the place of the one before it, or of the code.
LEMMA SuccessorStep ==
  ASSUME TokenInv, NEW n, NEW c, NEW f, NEW old, NEW answered \in BOOLEAN, answered = TRUE,
         Mints(n, c, f, old, answered), Succeeds(old, f),
         access' = (access \cup {n}) \ {old}, refresh' = (refresh \cup {n}) \ {old},
         spent' \subseteq spent \cup refresh,
         UNCHANGED <<code, now, received, history>>,
         NEW r \in Requests, req[r] = Idle, req' = [req EXCEPT ![r] = Slot("answer", n)]
  PROVE  TokenInv'
<1> USE DEF TokenInv, history
<1>0. spent' \subseteq spent \cup refresh /\ access' \subseteq access \cup {n}
      /\ refresh' \subseteq refresh \cup {n}
  OBVIOUS
<1>1. TokenTypeOK' /\ KinshipFits'
  BY <1>0, MintKeepsTypes
<1>2. /\ n \in Pairs /\ f \in Codes /\ ~Minted(n)
      /\ \A p \in Pairs \ {n} : pair'[p] = pair[p]
      /\ pair'[n].family = f /\ pair'[n].answered = TRUE /\ pair'[n].from = old
      /\ \A g \in Codes : MembersOf(g)' = IF g = f THEN MembersOf(g) \cup {n} ELSE MembersOf(g)
      /\ \A g \in Codes : n \notin MembersOf(g)
      /\ n \notin access \cup refresh \cup spent \cup received \cup botched
      /\ \A p \in Pairs : pair[p].from # n
  <2>1. n \in Pairs /\ f \in Codes /\ ~Minted(n)
    BY DEF Mints
  <2>2. TokenTypeOK /\ PairsFit
    BY DEF KinshipFits
  <2>3. pair'[n].answered = TRUE
    BY <2>2, MintFacts
  <2>4. /\ \A p \in Pairs \ {n} : pair'[p] = pair[p]
        /\ pair'[n].family = f /\ pair'[n].from = old
        /\ \A p \in Pairs : pair[p].from # n
    BY <2>2, MintFacts
  <2>5. /\ \A g \in Codes : n \notin MembersOf(g)
        /\ \A g \in Codes :
             MembersOf(g)' = IF g = f THEN MembersOf(g) \cup {n} ELSE MembersOf(g)
    <3>1. \A g \in Codes : n \notin MembersOf(g)
      BY <2>2, MintFacts
    <3> QED
      BY <2>1, <2>4, <3>1 DEF MembersOf, FamilyOf
  <2>6. n \notin access \cup refresh \cup spent \cup received \cup botched
    BY <2>1, <2>2 DEF TokenTypeOK
  <2> QED
    BY <2>1, <2>3, <2>4, <2>5, <2>6
<1>3. /\ Answered(n)' /\ FamilyOf(n)' = f
      /\ \A p \in Pairs : p # n => Answered(p)' = Answered(p) /\ FamilyOf(p)' = FamilyOf(p)
  BY <1>2 DEF Answered, FamilyOf
<1>4. /\ \A p \in access \cup refresh \cup received : p \in Pairs /\ Minted(p)
      /\ \A q \in Requests : req[q] # Idle => req[q].pair \in Pairs /\ Minted(req[q].pair)
  BY DEF TokenTypeOK
<1>5. /\ \A q \in Requests \ {r} : req'[q] = req[q]
      /\ req'[r].kind = "answer" /\ req'[r].pair = n
      /\ \A q \in Requests : req[q].kind # "idle" => req[q] # Idle
  BY <1>2, RequestRows DEF TokenTypeOK
<1>6. \A q \in Requests : req'[q].kind = "revoke" =>
        /\ req'[q] = req[q] /\ req[q].pair \in Pairs /\ req[q].pair # n
  BY <1>2, <1>4, <1>5
<1>7. ReceivedWereAnswered'
  <2>1. \A p \in received' : Answered(p)'
    BY <1>2, <1>3, <1>4 DEF ReceivedWereAnswered
  <2>2. \A q \in Requests : req'[q].kind = "answer" =>
          req'[q].pair = n \/ (req'[q] = req[q] /\ req[q].pair \in Pairs /\ req[q].pair # n)
    BY <1>2, <1>4, <1>5
  <2>3. (\A q \in Requests : req[q].kind \in {"answer", "revoke"} => Answered(req[q].pair))'
    BY <1>3, <1>6, <2>2 DEF ReceivedWereAnswered
  <2> QED
    BY <2>1, <2>3 DEF ReceivedWereAnswered
<1>8. RevocationsFit'
  BY <1>3, <1>6 DEF RevocationsFit
<1>9. ExchangedHasNoAccess'
  BY <1>2, <1>3 DEF ExchangedHasNoAccess
<1>10. \A p \in refresh : Answered(p) /\ FamilyOf(p) = f => p = old
  BY <1>4 DEF Succeeds, OneLivePairPerFamily, ReceivedWereAnswered, KinshipFits,
              CodesAreUnused, MembersOf
<1>11. OneLivePairPerFamily'
  BY <1>2, <1>3, <1>4, <1>10 DEF OneLivePairPerFamily
<1>12. AccessFollowsGrant'
  BY <1>2, <1>3, <1>4 DEF AccessFollowsGrant
<1>13. f \notin replayed
  BY <1>4 DEF Succeeds, ReplayedFamilyIsGone, MembersOf
<1>14. ReplayedFamilyIsGone'
  <2> SUFFICES ASSUME NEW g \in replayed
               PROVE  g \notin codeRows' /\ MembersOf(g)' \cap (access' \cup refresh') = {}
    BY DEF ReplayedFamilyIsGone
  <2>1. g \in Codes /\ g # f /\ MembersOf(g)' = MembersOf(g) /\ n \notin MembersOf(g)
    BY <1>2, <1>13 DEF TokenTypeOK
  <2> QED
    BY <2>1 DEF ReplayedFamilyIsGone, Succeeds
<1>15. UndisturbedGrantLives'
  <2> SUFFICES ASSUME NEW g \in Families, g \notin disturbed,
                      NEW q \in MembersOf(g)', Answered(q)'
               PROVE  \E p \in MembersOf(g)' \cap refresh' :
                        \/ p \in received
                        \/ \E s \in Requests : req'[s].kind = "answer" /\ req'[s].pair = p
    BY DEF UndisturbedGrantLives
  <2>1. CASE g = f
    <3>1. n \in MembersOf(g)' /\ n # old
      BY <1>2, <1>4, <2>1, NoneIsNothing DEF Succeeds
    <3> QED
      BY <1>5, <3>1
  <2>2. CASE g # f
    <3>1. MembersOf(g)' = MembersOf(g) /\ q \in MembersOf(g) /\ q # n
      BY <1>2, <2>2
    <3>2. Answered(q)
      BY <1>3, <3>1 DEF MembersOf
    <3>3. PICK p \in MembersOf(g) \cap refresh :
            p \in received \/ \E s \in Requests : req[s].kind = "answer" /\ req[s].pair = p
      BY <3>1, <3>2 DEF UndisturbedGrantLives
    <3>4. p # old
      BY <1>4, <2>2, <3>3, NoneIsNothing DEF Succeeds, MembersOf
    <3>5. p \in MembersOf(g)' \cap refresh'
      BY <3>1, <3>3, <3>4
    <3>6. \A s \in Requests : req[s].kind = "answer" => req'[s] = req[s]
      BY <1>5, RequestRows
    <3> QED
      BY <3>3, <3>5, <3>6
  <2> QED
    BY <2>1, <2>2
<1> QED
  BY <1>1, <1>7, <1>8, <1>9, <1>11, <1>12, <1>14, <1>15

\* The actions that mint.
LEMMA AnswerFacts ==
  ASSUME NEW p, Answer(p)
  PROVE  \E r \in Requests : req[r] = Idle /\ req' = [req EXCEPT ![r] = Slot("answer", p)]
  BY FreeSlotIsFree DEF Answer, Slot

LEMMA ExchangeCodeStep ==
  ASSUME TokenInv, NEW c \in Clients, NEW k \in Codes, ExchangeCode(c, k)
  PROVE  TokenInv'
<1> DEFINE n == FreshPair
<1>1. n \in Pairs /\ ~Minted(n)
  BY FreshPairIsFresh DEF ExchangeCode, MayMint
<1>2. PICK answered \in BOOLEAN :
        answered = TRUE /\ pair' = [pair EXCEPT ![n] = MintPair(c, k, None, answered)]
  BY Zenon DEF ExchangeCode
<1>3. PICK r \in Requests : req[r] = Idle /\ req' = [req EXCEPT ![r] = Slot("answer", n)]
  BY AnswerFacts DEF ExchangeCode
<1>4. None \notin access \cup refresh \cup {n}
  BY <1>1, NoneIsNothing DEF TokenInv, TokenTypeOK
<1>5. /\ k \in codeRows /\ codeRows' = codeRows \ {k}
      /\ access' = access \cup {n} /\ refresh' = refresh \cup {n} /\ spent' = spent
      /\ UNCHANGED <<code, now, received, history>>
  BY DEF ExchangeCode, Redeemable
<1> HIDE DEF n
<1>6. Mints(n, c, k, None, answered) /\ Succeeds(None, k)
  BY <1>1, <1>2, <1>5 DEF Mints, Succeeds
<1>7. access' = (access \cup {n}) \ {None} /\ refresh' = (refresh \cup {n}) \ {None}
  BY <1>4, <1>5
<1> QED
  BY <1>2, <1>3, <1>5, <1>6, <1>7, SuccessorStep

LEMMA RefreshPairStep ==
  ASSUME TokenInv, NEW c \in Clients, NEW p \in Pairs, RefreshPair(c, p)
  PROVE  TokenInv'
<1> DEFINE n == FreshPair
           f == FamilyOf(p)
<1>1. n \in Pairs /\ ~Minted(n)
  BY FreshPairIsFresh DEF RefreshPair, MayMint
<1>2. PICK answered \in BOOLEAN :
        answered = TRUE /\ pair' = [pair EXCEPT ![n] = MintPair(c, f, p, answered)]
  BY Zenon DEF RefreshPair
<1>3. PICK r \in Requests : req[r] = Idle /\ req' = [req EXCEPT ![r] = Slot("answer", n)]
  BY AnswerFacts DEF RefreshPair
<1>4. /\ p \in refresh /\ p \in received /\ UNCHANGED codeRows
      /\ access' = (access \cup {n}) \ {p} /\ refresh' = (refresh \cup {n}) \ {p}
      /\ spent' \in {spent, spent \cup {p}} /\ UNCHANGED <<code, now, received, history>>
  BY MarksAre DEF RefreshPair, Refreshable
<1>5. f \in Codes
  BY <1>4 DEF TokenInv, TokenTypeOK, KinshipFits, PairsFit
<1> HIDE DEF n
<1>6. Mints(n, c, f, p, answered) /\ Succeeds(p, f)
  BY <1>1, <1>2, <1>4, <1>5 DEF Mints, Succeeds
<1> QED
  BY <1>2, <1>3, <1>4, <1>6, SuccessorStep

LEMMA FailExchangeStep ==
  ASSUME TokenInv, NEW c \in Clients, NEW k \in Codes, FailExchange(c, k)
  PROVE  TokenInv'
<1> DEFINE n == FreshPair
<1>1. n \in Pairs /\ ~Minted(n)
  BY FreshPairIsFresh DEF FailExchange, MayMint
<1>2. /\ k \in codeRows /\ codeRows' = codeRows \ {k}
      /\ access' \subseteq access \cup {n} /\ refresh \subseteq refresh'
      /\ refresh' \subseteq refresh \cup {n} /\ spent' \subseteq spent \cup refresh
      /\ UNCHANGED <<code, now, req, received, history>>
  BY DEF FailExchange, Redeemable
<1>3. pair' = [pair EXCEPT ![n] = MintPair(c, k, None, FALSE)]
  BY DEF FailExchange
<1> HIDE DEF n
<1>4. Mints(n, c, k, None, FALSE)
  BY <1>1, <1>3, Zenon DEF Mints
<1>5. Succeeds(None, k)
  BY <1>2 DEF Succeeds
<1> QED
  BY <1>2, <1>4, <1>5, OrphanStep

LEMMA FailRotationStep ==
  ASSUME TokenInv, NEW c \in Clients, NEW p \in Pairs, FailRotation(c, p)
  PROVE  TokenInv'
<1> DEFINE n == FreshPair
           f == FamilyOf(p)
<1>1. n \in Pairs /\ ~Minted(n)
  BY FreshPairIsFresh DEF FailRotation, MayMint
<1>2. /\ p \in refresh /\ p \in received /\ UNCHANGED codeRows
      /\ access' \subseteq access \cup {n} /\ refresh \subseteq refresh'
      /\ refresh' \subseteq refresh \cup {n} /\ spent' \subseteq spent \cup refresh
      /\ UNCHANGED <<code, now, req, received, history>>
  BY DEF FailRotation, Refreshable, Mark
<1>3. pair' = [pair EXCEPT ![n] = MintPair(c, f, p, FALSE)]
  BY DEF FailRotation
<1>4. f \in Codes
  BY <1>2 DEF TokenInv, TokenTypeOK, KinshipFits, PairsFit
<1> HIDE DEF n
<1>5. Mints(n, c, f, p, FALSE)
  <2>1. p \in Pairs \cup {None}
    OBVIOUS
  <2> QED
    BY <1>1, <1>3, <1>4, <2>1, Zenon DEF Mints
<1>6. Succeeds(p, f)
  BY <1>2 DEF Succeeds
<1> QED
  BY <1>2, <1>5, <1>6, OrphanStep

-----------------------------------------------------------------------------
\* The invariant of the OAuth server.
LEMMA TokenStep ==
  ASSUME TokenInv, [TokenNext]_vars
  PROVE  TokenInv'
<1>1. CASE UNCHANGED vars
  <2>1. UNCHANGED <<rows, now, req, received, spoiled, replayed, disturbed, botched>>
    BY <1>1 DEF vars, history
  <2>2. TokenTypeOK' /\ ReceivedWereAnswered' /\ RevocationsFit'
    BY <2>1 DEF rows, TokenInv, TokenTypeOK, Issued, Minted, ReceivedWereAnswered,
                RevocationsFit, Answered, FamilyOf
  <2>3. UndisturbedGrantLives'
    BY <2>1, GrantStays DEF rows, TokenInv, KinshipFits
  <2> QED
    BY <2>1, <2>2, <2>3, RowsKept
<1>2. ASSUME NEW c \in Clients,
             \/ IssueCode(c)
             \/ \E k \in Codes : ExchangeCode(c, k) \/ FailPKCE(c, k) \/ FailExchange(c, k)
             \/ \E p \in Pairs : RefreshPair(c, p) \/ FailRotation(c, p) \/ ReplaySpent(c, p)
      PROVE  TokenInv'
  BY <1>2, IssueCodeStep, ExchangeCodeStep, FailPKCEStep, FailExchangeStep, RefreshPairStep,
     FailRotationStep, ReplayStep
<1>3. ASSUME NEW p \in Pairs, NEW by \in {"access", "refresh"}, NEW r \in Requests,
             BeginRevoke(r, p, by) \/ RevokeUnknown(r, p, by)
      PROVE  TokenInv'
  BY <1>3, BeginRevokeStep, OpenRequestStep
<1>4. ASSUME NEW r \in Requests,
             \/ RevokeStatement(r) \/ EndRequest(r) \/ Deliver(r) \/ Disconnect(r)
             \/ \E p \in Pairs : Admit(r, p)
      PROVE  TokenInv'
  <2>1. CASE RevokeStatement(r) \/ EndRequest(r) \/ Deliver(r)
    BY <2>1, RevokeStatementStep, CloseRequestStep
  <2>2. CASE Disconnect(r)
    BY <2>2, CutShortStep DEF Disconnect
  <2>3. CASE \E p \in Pairs : Admit(r, p)
    BY <2>3, OpenRequestStep
  <2> QED
    BY <1>4, <2>1, <2>2, <2>3
<1>5. CASE Restart
  <2>1. {r \in Requests : req[r] # Idle} \in SUBSET Requests
    OBVIOUS
  <2> QED
    BY <1>5, <2>1, CutShortStep DEF Restart
<1> QED
  BY <1>1, <1>2, <1>3, <1>4, <1>5, TickStep DEF TokenNext

THEOREM TokenInvariant == TokenSpec => []TokenInv
<1>1. TokenInv /\ [TokenNext]_vars => TokenInv'
  BY TokenStep
<1> QED
  BY <1>1, TokenInvInitially, PTL DEF TokenSpec

\* The types of the tables, and that rows are rows of something.
THEOREM TokenTypeCorrect == TokenSpec => []TokenTypeOK
<1>1. TokenInv => TokenTypeOK
  BY DEF TokenInv
<1> QED
  BY <1>1, TokenInvariant, PTL

\* Of the pairs of one family that anyone was told of, one at most can be exchanged,
\* however many requests, failures, restarts and replays there are.
THEOREM TokensRotate == TokenSpec => []OneLivePairPerFamily
<1>1. TokenInv => OneLivePairPerFamily
  BY DEF TokenInv
<1> QED
  BY <1>1, TokenInvariant, PTL

\* No access token outlives the refresh token it came with, unless the statement failed
\* that was to remove it.
THEOREM AccessEndsWithGrant == TokenSpec => []AccessFollowsGrant
<1>1. TokenInv => AccessFollowsGrant
  BY DEF TokenInv
<1> QED
  BY <1>1, TokenInvariant, PTL

\* A family that a spent token was presented of has no row, and never gets one again.
THEOREM ReplayEndsFamily == TokenSpec => []ReplayedFamilyIsGone
<1>1. TokenInv => ReplayedFamilyIsGone
  BY DEF TokenInv
<1> QED
  BY <1>1, TokenInvariant, PTL

\* A client that keeps to the rules keeps its grant, whatever the others do and whatever
\* fails on the server.
THEOREM HonestClientsKeepTheirGrant == TokenSpec => []UndisturbedGrantLives
<1>1. TokenInv => UndisturbedGrantLives
  BY DEF TokenInv
<1> QED
  BY <1>1, TokenInvariant, PTL

-----------------------------------------------------------------------------
\* Who is admitted.

\* A family was opened when its root was minted, and that is when its pairs were born.
LEMMA OpenedIsBirth ==
  ASSUME TokenInv, NEW p \in Pairs, Minted(p)
  PROVE  Opened(FamilyOf(p)) = pair[p].born
<1> DEFINE f == FamilyOf(p)
<1>1. PICK q \in Pairs : Root(q) /\ FamilyOf(q) = f /\ pair[q].at = pair[p].born
  BY DEF TokenInv, KinshipFits, BornWithTheRoot
<1>2. f \in Codes
  BY DEF TokenInv, KinshipFits, PairsFit
<1>3. \A s \in MembersOf(f) : pair[s].from = None => s = q
  <2>1. \A s \in MembersOf(f) : Minted(s)
    BY <1>2, NoneIsNothing DEF TokenInv, KinshipFits, PairsFit, MembersOf, FamilyOf, NoPair
  <2> QED
    BY <1>1, <2>1 DEF TokenInv, KinshipFits, OneRootPerFamily, Root, MembersOf
<1>4. pair[q].at \in 0..Horizon /\ q \in MembersOf(f) /\ pair[q].from = None
  BY <1>1 DEF TokenInv, TokenTypeOK, PairRow, MembersOf, Root
<1>5. \A t \in 0..Horizon :
        (\E s \in MembersOf(f) : pair[s].from = None /\ pair[s].at = t) <=> t = pair[q].at
  BY <1>3, <1>4
<1> QED
  BY <1>1, <1>4, <1>5 DEF Opened

\* A call is admitted with the newest pair of a family that is neither replayed nor
\* spoiled, within the lifetimes of that pair and of its family.
THEOREM AdmissionIsEntitled == TokenSpec => AdmittedIsEntitled
<1> DEFINE Entitled(p) ==
             /\ FamilyOf(p) \notin replayed
             /\ FamilyOf(p) \notin spoiled
             /\ now <= pair[p].at + AccessLife
             /\ now <= Opened(FamilyOf(p)) + RefreshLife
             /\ ~\E q \in Pairs : pair[q].from = p /\ Answered(q)
<1>1. ASSUME TokenInv, NEW r \in Requests, NEW p \in Pairs, Admit(r, p)
      PROVE  Entitled(p)
  <2>1. p \in access /\ p \in received /\ AccessAlive(p) /\ Minted(p)
    BY <1>1 DEF Admit, TokenInv, TokenTypeOK
  <2>2. FamilyOf(p) \notin replayed /\ FamilyOf(p) \notin spoiled
    BY <1>1, <2>1 DEF TokenInv, ReplayedFamilyIsGone, KinshipFits, SpoiledAreGone, MembersOf
  <2>3. now <= pair[p].at + AccessLife /\ now <= Opened(FamilyOf(p)) + RefreshLife
    BY <1>1, <2>1, OpenedIsBirth DEF AccessAlive, RefreshAlive
  <2>4. ~\E q \in Pairs : pair[q].from = p /\ Answered(q)
    BY <1>1, <2>1 DEF TokenInv, ExchangedHasNoAccess
  <2> QED
    BY <2>2, <2>3, <2>4
<1>2. ASSUME TokenInv, [TokenNext]_vars, NEW r \in Requests, req[r] = Idle,
             req'[r].kind = "call"
      PROVE  Entitled(req'[r].pair)
  <2>0. req[r].kind = "idle" /\ req \in [Requests -> Request]
    BY <1>2, RequestRows DEF TokenInv, TokenTypeOK
  <2>1. ASSUME NEW s \in Requests, NEW p \in Pairs, Admit(s, p)
        PROVE  s = r /\ req'[r].pair = p
    <3>1. req' = [req EXCEPT ![s] = Slot("call", p)]
      BY <2>1 DEF Admit, Slot
    <3>2. Slot("call", p).pair = p
      BY RequestRows
    <3> QED
      BY <1>2, <2>0, <3>1, <3>2
  <2>2. ASSUME NEW s \in Requests, NEW row, req' = [req EXCEPT ![s] = row],
               row.kind # "call"
        PROVE  FALSE
    BY <1>2, <2>0, <2>2
  <2>3. ASSUME NEW p \in Pairs, Answer(p) PROVE FALSE
    <3>1. PICK s \in Requests : req' = [req EXCEPT ![s] = Slot("answer", p)]
      BY <2>3, AnswerFacts
    <3>2. Slot("answer", p).kind = "answer"
      BY RequestRows
    <3> QED
      BY <2>2, <3>1, <3>2
  <2>4. ASSUME NEW c \in Clients, NEW k \in Codes, ExchangeCode(c, k) PROVE FALSE
    <3>1. FreshPair \in Pairs /\ Answer(FreshPair)
      BY <2>4, FreshPairIsFresh DEF ExchangeCode, MayMint
    <3> QED
      BY <2>3, <3>1
  <2>5. ASSUME NEW c \in Clients, NEW p \in Pairs, RefreshPair(c, p) PROVE FALSE
    <3>1. FreshPair \in Pairs /\ Answer(FreshPair)
      BY <2>5, FreshPairIsFresh DEF RefreshPair, MayMint
    <3> QED
      BY <2>3, <3>1
  <2>6. UNCHANGED req => FALSE
    BY <1>2, <2>0
  <2>7. ASSUME NEW c \in Clients,
               \/ IssueCode(c)
               \/ \E k \in Codes : ExchangeCode(c, k) \/ FailPKCE(c, k) \/ FailExchange(c, k)
               \/ \E p \in Pairs : RefreshPair(c, p) \/ FailRotation(c, p) \/ ReplaySpent(c, p)
        PROVE  FALSE
    BY <2>4, <2>5, <2>6, <2>7 DEF IssueCode, FailPKCE, FailExchange, FailRotation, ReplaySpent
  <2>8. ASSUME NEW s \in Requests, NEW p \in Pairs, NEW by \in {"access", "refresh"},
               BeginRevoke(s, p, by) \/ RevokeUnknown(s, p, by)
        PROVE  FALSE
    <3>1. CASE BeginRevoke(s, p, by)
      <4>1. PICK row : /\ row = [kind |-> "revoke", pair |-> p, step |-> 1]
                       /\ req' = [req EXCEPT ![s] = row]
        BY <3>1 DEF BeginRevoke
      <4>2. row.kind # "call" /\ req' = [req EXCEPT ![s] = row]
        BY <4>1
      <4> QED
        BY <2>2, <4>2
    <3>2. CASE RevokeUnknown(s, p, by)
      <4>1. req' = [req EXCEPT ![s] = Slot("revoked", p)]
        BY <3>2 DEF RevokeUnknown, Slot
      <4>2. Slot("revoked", p).kind = "revoked"
        BY RequestRows
      <4> QED
        BY <2>2, <4>1, <4>2
    <3> QED
      BY <2>8, <3>1, <3>2
  <2>9. ASSUME NEW s \in Requests, RevokeStatement(s) PROVE FALSE
    <3>1. s # r /\ \E row : req' = [req EXCEPT ![s] = row]
      BY <2>0, <2>9 DEF RevokeStatement
    <3> QED
      BY <1>2, <2>0, <3>1
  <2>10. ASSUME NEW s \in Requests, EndRequest(s) \/ Deliver(s) PROVE FALSE
    <3>1. req' = [req EXCEPT ![s] = Idle]
      BY <2>10 DEF EndRequest, Deliver
    <3> QED
      BY <2>2, <3>1, RequestRows
  <2>11. ASSUME NEW cut \in SUBSET Requests, CutShort(cut) PROVE FALSE
    BY <1>2, <2>0, <2>11, RequestRows DEF CutShort
  <2>12. Restart => FALSE
    BY <2>11 DEF Restart
  <2>13. ASSUME NEW s \in Requests, Disconnect(s) PROVE FALSE
    BY <2>11, <2>13 DEF Disconnect
  <2>14. PICK p \in Pairs : Admit(r, p) /\ req'[r].pair = p
    BY <1>2, <2>1, <2>6, <2>7, <2>8, <2>9, <2>10, <2>12, <2>13 DEF TokenNext, Tick, vars
  <2> QED
    BY <1>1, <1>2, <2>14
<1>3. TokenInv /\ [TokenNext]_vars =>
        [\A r \in Requests :
           LET p == req'[r].pair IN
           req[r] = Idle /\ req'[r].kind = "call"
             => /\ FamilyOf(p) \notin replayed
                /\ FamilyOf(p) \notin spoiled
                /\ now <= pair[p].at + AccessLife
                /\ now <= Opened(FamilyOf(p)) + RefreshLife
                /\ ~\E q \in Pairs : pair[q].from = p /\ Answered(q)]_vars
  BY <1>2
<1> QED
  BY <1>3, TokenInvariant, PTL DEF TokenSpec, AdmittedIsEntitled

-----------------------------------------------------------------------------
\* The implementation of TokenFamily.

\* A family has one carrier, if any, and none while its code can be exchanged.
LEMMA CarriersAreOne ==
  ASSUME TokenInv, NEW f \in Codes
  PROVE  /\ \A p \in Carriers(f) : p \in Pairs /\ Carriers(f) = {p} /\ CarrierOf(f) = p
         /\ Carriers(f) = {} => CarrierOf(f) = None
         /\ f \in codeRows => Carriers(f) = {}
<1>1. \A p \in Carriers(f) : p \in Pairs /\ Carriers(f) = {p}
  BY DEF TokenInv, TokenTypeOK, OneLivePairPerFamily, Carriers
<1>2. \A p \in Carriers(f) : CarrierOf(f) = p
  BY <1>1 DEF CarrierOf
<1>3. f \in codeRows => Carriers(f) = {}
  BY <1>1 DEF TokenInv, KinshipFits, CodesAreUnused, MembersOf, Carriers
<1> QED
  BY <1>1, <1>2, <1>3 DEF CarrierOf

\* Families that end together are a step of the abstract one, or no step at all.
LEMMA EndedTogether ==
  ASSUME \A p \in Pairs : Answered(p)' = Answered(p),
         \A f \in Codes :
           \/ PhaseOf(f)' = PhaseOf(f) /\ CarrierOf(f)' = CarrierOf(f)
           \/ /\ PhaseOf(f) \in {"offered", "live"}
              /\ PhaseOf(f)' = "over" /\ CarrierOf(f)' = None
  PROVE  [Family!FamilyNext]_(Family!familyVars)
<1> DEFINE ended == {f \in Codes : PhaseOf(f) \in {"offered", "live"} /\ PhaseOf(f)' = "over"}
           phase == [f \in Codes |-> PhaseOf(f)]
           current == [f \in Codes |-> CarrierOf(f)]
           used == {p \in Pairs : Answered(p)}
<1>1. used' = used
  OBVIOUS
<1>2. \A f \in Codes : /\ PhaseOf(f)' = IF f \in ended THEN "over" ELSE PhaseOf(f)
                       /\ CarrierOf(f)' = IF f \in ended THEN None ELSE CarrierOf(f)
  OBVIOUS
<1>3. CASE ended = {}
  <2>1. phase' = phase /\ current' = current
    BY <1>2, <1>3
  <2> QED
    BY <1>1, <2>1 DEF Family!familyVars
<1>4. CASE ended # {}
  <2>1. ended \in SUBSET {f \in Codes : phase[f] \in {"offered", "live"}}
    OBVIOUS
  <2>2. /\ phase' = [f \in Codes |-> IF f \in ended THEN "over" ELSE phase[f]]
        /\ current' = [f \in Codes |-> IF f \in ended THEN None ELSE current[f]]
    BY <1>2
  <2> HIDE DEF ended
  <2>3. Family!End
    BY <1>1, <1>4, <2>1, <2>2 DEF Family!End
  <2> QED
    BY <2>3 DEF Family!FamilyNext
<1> QED
  BY <1>3, <1>4

\* A step that lets grants and codes end or expire, and mints nothing anyone is told of.
LEMMA DeclineStep ==
  ASSUME TokenInv, TokenInv', UNCHANGED code, codeRows' \subseteq codeRows,
         \A p \in Pairs : Answered(p)' = Answered(p),
         \A p \in Pairs : Answered(p) => pair'[p] = pair[p],
         \A p \in refresh' : Answered(p)' => p \in refresh,
         now' >= now
  PROVE  [Family!FamilyNext]_(Family!familyVars)
<1>1. now \in Nat /\ now' \in Nat
  BY Lifetimes DEF TokenInv, TokenTypeOK
<1>2. ASSUME NEW p \in Pairs, Answered(p), RefreshAlive(p)'
      PROVE  RefreshAlive(p)
  <2>1. pair[p].born \in Nat /\ pair'[p] = pair[p]
    BY <1>2, Lifetimes DEF TokenInv, TokenTypeOK, PairRow
  <2> QED
    BY <1>1, <1>2, <2>1, Lifetimes DEF RefreshAlive
<1>3. ASSUME NEW f \in Codes
      PROVE  \/ PhaseOf(f)' = PhaseOf(f) /\ CarrierOf(f)' = CarrierOf(f)
             \/ /\ PhaseOf(f) \in {"offered", "live"}
                /\ PhaseOf(f)' = "over" /\ CarrierOf(f)' = None
  <2>1. Carriers(f)' \subseteq Carriers(f)
    <3> SUFFICES ASSUME NEW p \in Carriers(f)' PROVE p \in Carriers(f)
      OBVIOUS
    <3>1. /\ p \in refresh' /\ p \in Pairs /\ FamilyOf(p)' = f
          /\ Answered(p)' /\ RefreshAlive(p)'
      BY DEF Carriers, TokenInv, TokenTypeOK
    <3>2. Answered(p) /\ p \in refresh /\ pair'[p] = pair[p]
      BY <3>1
    <3> QED
      BY <1>2, <3>1, <3>2 DEF Carriers, FamilyOf
  <2>2. Issued(f)' = Issued(f)
    BY DEF Issued
  <2>3. f \in codeRows' /\ CodeAlive(f)' => f \in codeRows /\ CodeAlive(f)
    <3>1. code[f].at \in Nat /\ code' = code
      BY Lifetimes DEF TokenInv, TokenTypeOK, CodeRow
    <3> QED
      BY <1>1, <3>1, Lifetimes DEF CodeAlive
  <2>4. CASE f \in codeRows /\ CodeAlive(f)
    <3>1. Carriers(f) = {} /\ Carriers(f)' = {} /\ CarrierOf(f) = None /\ CarrierOf(f)' = None
      BY <2>1, <2>4, CarriersAreOne DEF CarrierOf
    <3> QED
      BY <2>2, <2>4, <3>1 DEF PhaseOf
  <2>5. CASE ~(f \in codeRows /\ CodeAlive(f)) /\ Carriers(f)' = {}
    <3>1. CarrierOf(f)' = None
      BY <2>5 DEF CarrierOf
    <3>2. CASE Carriers(f) = {}
      BY <2>2, <2>3, <2>5, <3>1, <3>2, CarriersAreOne DEF PhaseOf
    <3>3. CASE Carriers(f) # {}
      <4>1. Issued(f)
        BY <3>3 DEF Carriers, TokenInv, TokenTypeOK, KinshipFits, PairsFit
      <4> QED
        BY <2>2, <2>3, <2>5, <3>1, <3>3, <4>1 DEF PhaseOf
    <3> QED
      BY <3>2, <3>3
  <2>6. CASE ~(f \in codeRows /\ CodeAlive(f)) /\ Carriers(f)' # {}
    <3>1. PICK p \in Carriers(f)' : TRUE
      BY <2>6
    <3>2. Carriers(f) = {p} /\ CarrierOf(f) = p
      BY <2>1, <3>1, CarriersAreOne
    <3>3. Carriers(f)' = {p}
      BY <2>1, <3>1, <3>2
    <3>4. CarrierOf(f)' = p
      BY <3>3 DEF CarrierOf
    <3> QED
      BY <2>2, <2>3, <2>6, <3>2, <3>3, <3>4 DEF PhaseOf
  <2> QED
    BY <2>4, <2>5, <2>6
<1> QED
  BY <1>3, EndedTogether

\* A new code offers its family.
LEMMA OfferStep ==
  ASSUME TokenInv, TokenInv', NEW c \in Clients, IssueCode(c)
  PROVE  Family!FamilyNext
<1> DEFINE phase == [f \in Codes |-> PhaseOf(f)]
           current == [f \in Codes |-> CarrierOf(f)]
           used == {p \in Pairs : Answered(p)}
<1>1. PICK k \in Codes : k = FreshCode /\ ~Issued(k)
  BY FreshCodeIsFresh DEF IssueCode
<1>2. /\ code' = [code EXCEPT ![k] = [client |-> c, at |-> now]]
      /\ codeRows' = codeRows \cup {k} /\ UNCHANGED <<pair, refresh, now>>
  BY <1>1 DEF IssueCode
<1>3. /\ code'[k].client = c /\ code'[k].at = now /\ c # None
      /\ \A f \in Codes \ {k} : code'[f] = code[f]
  BY <1>1, <1>2, NoneIsNothing DEF TokenInv, TokenTypeOK
<1>4. \A f \in Codes : Carriers(f)' = Carriers(f) /\ CarrierOf(f)' = CarrierOf(f)
  BY <1>2 DEF Carriers, CarrierOf, FamilyOf, Answered, RefreshAlive
<1>5. PhaseOf(k) = "none" /\ PhaseOf(k)' = "offered"
  <2>1. Issued(k)' /\ k \in codeRows'
    BY <1>2, <1>3 DEF Issued
  <2>2. CodeAlive(k)'
    BY <1>2, <1>3, Lifetimes DEF CodeAlive, TokenInv, TokenTypeOK
  <2> QED
    BY <1>1, <2>1, <2>2 DEF PhaseOf
<1>6. \A f \in Codes \ {k} : PhaseOf(f)' = PhaseOf(f)
  BY <1>2, <1>3, <1>4 DEF PhaseOf, Issued, CodeAlive
<1>7. phase' = [phase EXCEPT ![k] = "offered"] /\ current' = current /\ used' = used
  BY <1>1, <1>2, <1>4, <1>5, <1>6 DEF Answered
<1>8. phase[k] = "none"
  BY <1>1, <1>5
<1>9. Family!Offer(k)
  BY <1>7, <1>8 DEF Family!Offer
<1> QED
  BY <1>1, <1>9 DEF Family!FamilyNext

\* A pair that is answered carries its family from now on.
LEMMA CarryStep ==
  ASSUME TokenInv, TokenInv', NEW n, NEW c, NEW f, NEW old, NEW answered \in BOOLEAN,
         answered = TRUE, Mints(n, c, f, old, answered), Succeeds(old, f),
         refresh' = (refresh \cup {n}) \ {old}, UNCHANGED <<code, now>>,
         old = None => CodeAlive(f), old # None => RefreshAlive(old)
  PROVE  Family!FamilyNext
<1> DEFINE phase == [g \in Codes |-> PhaseOf(g)]
           current == [g \in Codes |-> CarrierOf(g)]
           used == {p \in Pairs : Answered(p)}
<1>1. n \in Pairs /\ f \in Codes /\ ~Minted(n)
  BY DEF Mints
<1>2. TokenTypeOK /\ PairsFit
  BY DEF TokenInv, KinshipFits
<1>3. /\ \A p \in Pairs \ {n} : pair'[p] = pair[p]
      /\ pair'[n].family = f /\ pair'[n].from = old
      /\ old = None => pair'[n].born = now
      /\ old # None => pair'[n].born = pair[old].born
  <2>1. \A p \in Pairs \ {n} : pair'[p] = pair[p]
    BY <1>2, MintFacts
  <2>2. pair'[n].family = f /\ pair'[n].from = old
    BY <1>2, MintFacts
  <2>3. pair'[n].born = IF old = None THEN now ELSE pair[old].born
    BY <1>1, <1>2 DEF Mints, MintPair, TokenTypeOK
  <2> QED
    BY <2>1, <2>2, <2>3
<1>4. pair'[n].answered = TRUE
  BY <1>2, MintFacts
<1>5. ~Answered(n) /\ Answered(n)' /\ \A p \in Pairs \ {n} : Answered(p)' = Answered(p)
  <2>1. pair[n] = NoPair
    BY <1>1, <1>2 DEF PairsFit
  <2> QED
    BY <1>3, <1>4, <2>1 DEF Answered, NoPair
<1>6. \A p \in refresh : p \in Pairs /\ p # n
  BY <1>1, <1>2 DEF TokenTypeOK
<1>7. RefreshAlive(n)'
  BY <1>2, <1>3, Lifetimes DEF RefreshAlive, TokenTypeOK
<1>8. Carriers(f)' = {n} /\ CarrierOf(f)' = n
  <2>1. n # old
    BY <1>1, <1>6, NoneIsNothing DEF Succeeds
  <2>2. n \in refresh'
    BY <2>1
  <2>3. n \in Carriers(f)'
    BY <1>3, <1>5, <1>7, <2>2 DEF Carriers, FamilyOf
  <2>4. Carriers(f)' = {n}
    BY <2>3 DEF TokenInv, OneLivePairPerFamily, Carriers
  <2> QED
    BY <2>4 DEF CarrierOf
<1>9. \A g \in Codes \ {f} : Carriers(g)' = Carriers(g) /\ CarrierOf(g)' = CarrierOf(g)
  <2> SUFFICES ASSUME NEW g \in Codes, g # f
               PROVE  Carriers(g)' = Carriers(g) /\ CarrierOf(g)' = CarrierOf(g)
    OBVIOUS
  <2>1. \A p \in refresh : p # n => FamilyOf(p)' = FamilyOf(p) /\ RefreshAlive(p)' = RefreshAlive(p)
    BY <1>3, <1>6 DEF FamilyOf, RefreshAlive
  <2>2. \A p \in refresh' : p = n \/ p \in refresh
    OBVIOUS
  <2>3. \A p \in refresh : p = old \/ p \in refresh'
    OBVIOUS
  <2>4. old \in refresh => FamilyOf(old) = f
    BY <1>6, <1>2, NoneIsNothing DEF Succeeds, TokenTypeOK
  <2>5. FamilyOf(n)' = f
    BY <1>3 DEF FamilyOf
  <2>6. Carriers(g)' \subseteq Carriers(g)
    BY <1>5, <1>6, <2>1, <2>2, <2>5 DEF Carriers
  <2>7. Carriers(g) \subseteq Carriers(g)'
    BY <1>5, <1>6, <2>1, <2>3, <2>4 DEF Carriers
  <2>8. Carriers(g)' = Carriers(g)
    BY <2>6, <2>7
  <2>9. CASE Carriers(g) = {}
    BY <2>8, <2>9 DEF CarrierOf
  <2>10. CASE Carriers(g) # {}
    <3>1. PICK p \in Carriers(g) : Carriers(g) = {p} /\ CarrierOf(g) = p
      BY <2>10, CarriersAreOne
    <3>2. CarrierOf(g)' = p
      BY <2>8, <3>1 DEF CarrierOf
    <3> QED
      BY <2>8, <3>1, <3>2
  <2> QED
    BY <2>9, <2>10
<1>10. f \notin codeRows' /\ \A g \in Codes \ {f} : g \in codeRows' <=> g \in codeRows
  <2>1. old \in refresh /\ FamilyOf(old) = f => f \notin codeRows
    BY <1>6 DEF TokenInv, KinshipFits, CodesAreUnused, MembersOf
  <2> QED
    BY <2>1 DEF Succeeds
<1>11. Issued(f) /\ Issued(f)'
  <2>1. Issued(f)
    BY <1>2, <1>6 DEF Succeeds, TokenTypeOK, PairsFit
  <2> QED
    BY <2>1 DEF Issued
<1>12. PhaseOf(f)' = "live"
  BY <1>8, <1>10, <1>11 DEF PhaseOf
<1>13. \A g \in Codes \ {f} : PhaseOf(g)' = PhaseOf(g)
  BY <1>9, <1>10 DEF PhaseOf, Issued, CodeAlive
<1>14. PhaseOf(f) \in {"offered", "live"}
  <2>1. CASE old = None /\ f \in codeRows
    BY <1>11, <2>1 DEF PhaseOf
  <2>2. CASE old \in refresh /\ old \in received /\ FamilyOf(old) = f
    <3>1. old \in Carriers(f)
      <4>1. Answered(old) /\ old # None
        BY <1>6, <2>2, NoneIsNothing DEF TokenInv, ReceivedWereAnswered
      <4> QED
        BY <2>2, <4>1 DEF Carriers
    <3> QED
      BY <1>11, <3>1 DEF PhaseOf
  <2> QED
    BY <2>1, <2>2 DEF Succeeds
<1>15. Family!Carry(f)
  <2>1. used' = used \cup {n} /\ n \in Pairs \ used
    BY <1>1, <1>5
  <2>2. current' = [current EXCEPT ![f] = n]
    BY <1>1, <1>8, <1>9
  <2>3. phase' = [phase EXCEPT ![f] = "live"]
    BY <1>1, <1>12, <1>13
  <2> QED
    BY <2>1, <2>2, <2>3 DEF Family!Carry
<1>16. Family!Open(f) \/ Family!Rotate(f)
  BY <1>1, <1>14, <1>15 DEF Family!Open, Family!Rotate
<1> QED
  BY <1>1, <1>16 DEF Family!FamilyNext

\* An orphan changes nothing in the eyes of the clients.
LEMMA OrphanDeclines ==
  ASSUME TokenInv, TokenInv', NEW n, NEW c, NEW f, NEW old, Mints(n, c, f, old, FALSE),
         UNCHANGED <<code, now>>, codeRows' \subseteq codeRows,
         refresh' \subseteq refresh \cup {n}
  PROVE  [Family!FamilyNext]_(Family!familyVars)
<1>1. PICK answered \in BOOLEAN : answered = FALSE /\ Mints(n, c, f, old, answered)
  BY Zenon
<1>2. TokenTypeOK /\ PairsFit
  BY DEF TokenInv, KinshipFits
<1>3. n \in Pairs /\ ~Minted(n)
  BY <1>1 DEF Mints
<1>4. \A p \in Pairs \ {n} : pair'[p] = pair[p]
  BY <1>1, <1>2, MintFacts
<1>5. pair'[n].answered = FALSE
  BY <1>1, <1>2, MintFacts
<1>6. Answered(n) = FALSE /\ Answered(n)' = FALSE
  <2>1. pair[n] = NoPair
    BY <1>2, <1>3 DEF PairsFit
  <2> QED
    BY <1>5, <2>1 DEF Answered, NoPair
<1>7. \A p \in Pairs : /\ Answered(p)' = Answered(p)
                       /\ Answered(p) => pair'[p] = pair[p]
  BY <1>4, <1>6 DEF Answered
<1>8. \A p \in refresh' : Answered(p)' => p \in refresh
  BY <1>6
<1>9. now' >= now
  BY <1>2, Lifetimes DEF TokenTypeOK
<1> QED
  BY <1>7, <1>8, <1>9, DeclineStep

\* Every step of the server is a step of TokenFamily, or none.
LEMMA FamilyStep ==
  ASSUME TokenInv, TokenInv', [TokenNext]_vars
  PROVE  [Family!FamilyNext]_(Family!familyVars)
<1> DEFINE Mapped == [Family!FamilyNext]_(Family!familyVars)
<1>1. now \in Nat /\ now >= now
  BY Lifetimes DEF TokenInv, TokenTypeOK
<1>2. ASSUME UNCHANGED <<code, pair>>, codeRows' \subseteq codeRows,
             refresh' \subseteq refresh, now' = now \/ now' = now + 1
      PROVE  Mapped
  <2>1. now' >= now
    BY <1>1, <1>2
  <2>2. \A p \in Pairs : Answered(p)' = Answered(p)
    BY <1>2 DEF Answered
  <2>3. /\ \A p \in Pairs : Answered(p) => pair'[p] = pair[p]
        /\ \A p \in refresh' : Answered(p)' => p \in refresh
    BY <1>2
  <2> QED
    BY <1>2, <2>1, <2>2, <2>3, DeclineStep
<1> HIDE DEF Mapped
<1>3. UNCHANGED vars => Mapped
  BY <1>2 DEF vars, rows
<1>4. ASSUME NEW c \in Clients, IssueCode(c) PROVE Mapped
  BY <1>4, OfferStep DEF Mapped
<1>5. ASSUME NEW c \in Clients, NEW k \in Codes, ExchangeCode(c, k) PROVE Mapped
  <2>1. PICK n \in Pairs : n = FreshPair /\ ~Minted(n)
    BY <1>5, FreshPairIsFresh DEF ExchangeCode, MayMint
  <2>2. PICK answered \in BOOLEAN :
          answered = TRUE /\ pair' = [pair EXCEPT ![n] = MintPair(c, k, None, answered)]
    <3>1. pair' = [pair EXCEPT ![n] = MintPair(c, k, None, TRUE)]
      BY <1>5, <2>1 DEF ExchangeCode
    <3> QED
      BY <3>1, Zenon
  <2>3. Mints(n, c, k, None, answered)
    BY <2>1, <2>2 DEF Mints
  <2>4. Succeeds(None, k) /\ CodeAlive(k) /\ UNCHANGED <<code, now>>
    BY <1>5 DEF ExchangeCode, Redeemable, Succeeds
  <2>5. refresh' = (refresh \cup {n}) \ {None}
    BY <1>5, <2>1, NoneIsNothing DEF ExchangeCode, TokenInv, TokenTypeOK
  <2> QED
    BY <2>2, <2>3, <2>4, <2>5, CarryStep DEF Mapped
<1>6. ASSUME NEW c \in Clients, NEW p \in Pairs, RefreshPair(c, p) PROVE Mapped
  <2>1. PICK n \in Pairs : n = FreshPair /\ ~Minted(n)
    BY <1>6, FreshPairIsFresh DEF RefreshPair, MayMint
  <2>2. PICK answered \in BOOLEAN :
          answered = TRUE /\ pair' = [pair EXCEPT ![n] = MintPair(c, FamilyOf(p), p, answered)]
    <3>1. pair' = [pair EXCEPT ![n] = MintPair(c, FamilyOf(p), p, TRUE)]
      BY <1>6, <2>1 DEF RefreshPair
    <3> QED
      BY <3>1, Zenon
  <2>3. /\ p \in refresh /\ p \in received /\ RefreshAlive(p)
        /\ UNCHANGED <<code, codeRows, now>> /\ refresh' = (refresh \cup {n}) \ {p}
    BY <1>6, <2>1 DEF RefreshPair, Refreshable
  <2>4. FamilyOf(p) \in Codes
    BY <2>3 DEF TokenInv, TokenTypeOK, KinshipFits, PairsFit
  <2>5. Mints(n, c, FamilyOf(p), p, answered) /\ Succeeds(p, FamilyOf(p))
    BY <2>1, <2>2, <2>3, <2>4 DEF Mints, Succeeds
  <2>6. p # None
    BY NoneIsNothing
  <2> QED
    BY <2>2, <2>3, <2>5, <2>6, CarryStep DEF Mapped
<1>7. ASSUME NEW c \in Clients, NEW k \in Codes, FailExchange(c, k) PROVE Mapped
  <2>1. PICK n \in Pairs : n = FreshPair /\ ~Minted(n)
    BY <1>7, FreshPairIsFresh DEF FailExchange, MayMint
  <2>2. pair' = [pair EXCEPT ![n] = MintPair(c, k, None, FALSE)]
    BY <1>7, <2>1 DEF FailExchange
  <2>3. Mints(n, c, k, None, FALSE)
    BY <2>1, <2>2, Zenon DEF Mints
  <2>4. /\ UNCHANGED <<code, now>> /\ codeRows' \subseteq codeRows
        /\ refresh' \subseteq refresh \cup {n}
    BY <1>7, <2>1 DEF FailExchange
  <2> QED
    BY <2>3, <2>4, OrphanDeclines DEF Mapped
<1>8. ASSUME NEW c \in Clients, NEW p \in Pairs, FailRotation(c, p) PROVE Mapped
  <2>1. PICK n \in Pairs : n = FreshPair /\ ~Minted(n)
    BY <1>8, FreshPairIsFresh DEF FailRotation, MayMint
  <2>2. pair' = [pair EXCEPT ![n] = MintPair(c, FamilyOf(p), p, FALSE)]
    BY <1>8, <2>1 DEF FailRotation
  <2>3. FamilyOf(p) \in Codes /\ p \in Pairs \cup {None}
    BY <1>8 DEF FailRotation, Refreshable, TokenInv, TokenTypeOK, KinshipFits, PairsFit
  <2>4. Mints(n, c, FamilyOf(p), p, FALSE)
    BY <2>1, <2>2, <2>3, Zenon DEF Mints
  <2>5. /\ UNCHANGED <<code, now, codeRows>>
        /\ refresh' \subseteq refresh \cup {n}
    BY <1>8, <2>1 DEF FailRotation
  <2> QED
    BY <2>4, <2>5, OrphanDeclines DEF Mapped
<1>9. ASSUME NEW c \in Clients,
             \/ \E k \in Codes : FailPKCE(c, k)
             \/ \E p \in Pairs : ReplaySpent(c, p)
      PROVE  Mapped
  BY <1>2, <1>9 DEF FailPKCE, ReplaySpent, ForgetFamily
<1>10. ASSUME NEW r \in Requests, RevokeStatement(r) PROVE Mapped
  <2>1. /\ UNCHANGED <<code, codeRows, pair, now>> /\ refresh' \subseteq refresh
    BY <1>10 DEF RevokeStatement
  <2> QED
    BY <1>2, <2>1
<1>11. ASSUME NEW p \in Pairs, NEW by \in {"access", "refresh"}, NEW r \in Requests,
              BeginRevoke(r, p, by) \/ RevokeUnknown(r, p, by)
       PROVE  Mapped
  BY <1>2, <1>11 DEF BeginRevoke, RevokeUnknown, rows
<1>12. ASSUME NEW r \in Requests,
              EndRequest(r) \/ Deliver(r) \/ Disconnect(r) \/ \E p \in Pairs : Admit(r, p)
       PROVE  Mapped
  BY <1>2, <1>12 DEF EndRequest, Deliver, Disconnect, CutShort, Admit, rows
<1>13. Restart \/ Tick => Mapped
  BY <1>2 DEF Restart, CutShort, Tick, rows
<1>14. Mapped
  BY <1>3, <1>4, <1>5, <1>6, <1>7, <1>8, <1>9, <1>10, <1>11, <1>12, <1>13 DEF TokenNext
<1> QED
  BY <1>14 DEF Mapped

\* The OAuth server keeps the promise of TokenFamily: a family is opened once, carried by
\* one pair at a time, each pair once, and is over for good when it is over.
THEOREM ServerImplementsFamilies == TokenSpec => ImplementsTokenFamily
<1>1. TokenInit => Family!FamilyInit
  <2> SUFFICES ASSUME TokenInit PROVE Family!FamilyInit
    OBVIOUS
  <2>1. \A f \in Codes : ~Issued(f) /\ Carriers(f) = {}
    BY DEF TokenInit, Issued, NoCode, Carriers
  <2>2. \A f \in Codes : PhaseOf(f) = "none" /\ CarrierOf(f) = None
    BY <2>1 DEF PhaseOf, CarrierOf
  <2>3. {p \in Pairs : Answered(p)} = {}
    BY DEF TokenInit, Answered, NoPair
  <2> QED
    BY <2>2, <2>3 DEF Family!FamilyInit
<1>2. TokenInv /\ TokenInv' /\ [TokenNext]_vars => [Family!FamilyNext]_(Family!familyVars)
  BY FamilyStep
<1> QED
  BY <1>1, <1>2, TokenInvariant, PTL DEF TokenSpec, ImplementsTokenFamily, Family!FamilySpec
===============================================================================
