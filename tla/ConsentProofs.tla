--------------------------- MODULE ConsentProofs ----------------------------
(***************************************************************************)
(* What the consent page keeps, for any number of clients, pages and       *)
(* submissions: the limit of registrations, and decisions that are final.  *)
(***************************************************************************)
EXTENDS Consent, FiniteSetTheorems, TLAPS

\* A submission, as ConsentTypeOK types it.
PostRow == [at : {"idle", "sent", "allowed", "answered"},
            page : Pages \cup {None}, cookie : Pages \cup {None},
            allow : BOOLEAN, late : BOOLEAN]

\* The cookie is never that of a page whose decision was answered.
JarIsUndecided == jar \notin decided

\* A form is of a page that was shown; sent after its decision was answered, it came with
\* another cookie, and is refused.
LateFormsDiffer ==
  /\ \A s \in Posts : post[s].at # "idle" => post[s].page \in Pages /\ page[post[s].page] # None
  /\ \A s \in Posts : post[s].at = "sent" /\ post[s].late => post[s].cookie # post[s].page

ConsentInv ==
  /\ ConsentTypeOK
  /\ decided \subseteq Pages
  /\ JarIsUndecided /\ LateFormsDiffer /\ DecisionIsFinal

-----------------------------------------------------------------------------
\* At first there is no page, and nothing was sent.
LEMMA ConsentInvInitially == ConsentInit => ConsentInv
<1> SUFFICES ASSUME ConsentInit PROVE ConsentInv
  OBVIOUS
<1>1. NoPost \in PostRow /\ \A s \in Posts : post[s] = NoPost /\ post[s].at = "idle"
  BY DEF ConsentInit, NoPost, PostRow
<1>2. post \in [Posts -> PostRow]
  BY <1>1 DEF ConsentInit
<1>3. IsFiniteSet(clients) /\ Cardinality(clients) <= MaxClients
  BY FS_EmptySet, LimitAssumption DEF ConsentInit
<1>4. ConsentTypeOK
  BY <1>2, <1>3, NoneIsNoId DEF ConsentInit, ConsentTypeOK, PostRow
<1> QED
  BY <1>1, <1>4, NoneIsNoId DEF ConsentInit, ConsentInv, JarIsUndecided, LateFormsDiffer,
                                DecisionIsFinal

\* Registration counts what is there before it adds.
LEMMA RegisterStep ==
  ASSUME ConsentInv, NEW c \in Clients, Register(c)
  PROVE  ConsentInv'
<1> USE DEF ConsentInv, Register
<1>1. IsFiniteSet(clients') /\ Cardinality(clients') <= MaxClients
  <2>1. IsFiniteSet(clients) /\ Cardinality(clients) \in Nat
    BY FS_CardinalityType DEF ConsentTypeOK
  <2>2. IsFiniteSet(clients') /\ Cardinality(clients') = Cardinality(clients) + 1
    BY <2>1, FS_AddElement
  <2> QED
    BY <2>1, <2>2, LimitAssumption
<1>2. ConsentTypeOK'
  BY <1>1 DEF ConsentTypeOK
<1> QED
  BY <1>2 DEF JarIsUndecided, LateFormsDiffer, DecisionIsFinal

\* A page is shown once, so its csrf value was never that of a decision.
LEMMA ShowPageStep ==
  ASSUME ConsentInv, NEW g \in Pages, NEW c \in Clients, ShowPage(g, c)
  PROVE  ConsentInv'
<1> USE DEF ConsentInv, ShowPage, MayAsk
<1>1. c # None /\ g \notin decided
  BY NoneIsNoId DEF ConsentTypeOK
<1>2. ConsentTypeOK'
  BY <1>1 DEF ConsentTypeOK
<1> QED
  BY <1>1, <1>2 DEF JarIsUndecided, LateFormsDiffer, DecisionIsFinal, ConsentTypeOK

\* What a step of one submission does to the others: nothing.
LEMMA PostStep ==
  ASSUME ConsentInv, NEW s \in Posts, NEW row \in PostRow, post' = [post EXCEPT ![s] = row],
         UNCHANGED <<clients, page, jar, owner, codes, decided>>,
         row.at # "idle" => row.page \in Pages /\ page[row.page] # None,
         row.at = "sent" /\ row.late => row.cookie # row.page,
         row.at \in {"allowed", "answered"} => ~row.late
  PROVE  ConsentInv'
<1> USE DEF ConsentInv
<1>1. post' \in [Posts -> PostRow]
  BY DEF ConsentTypeOK, PostRow
<1>2. ConsentTypeOK'
  BY <1>1 DEF ConsentTypeOK, PostRow
<1>3. \A t \in Posts : post'[t] = IF t = s THEN row ELSE post[t]
  BY DEF ConsentTypeOK
<1> QED
  BY <1>2, <1>3 DEF JarIsUndecided, LateFormsDiffer, DecisionIsFinal

\* The form carries the cookie that the browser has as it is sent.
LEMMA SubmitStep ==
  ASSUME ConsentInv, NEW s \in Posts, NEW g \in Pages, NEW allow \in BOOLEAN,
         Submit(s, g, allow)
  PROVE  ConsentInv'
<1> DEFINE row == [at |-> "sent", page |-> g, cookie |-> jar, allow |-> allow,
                   late |-> g \in decided]
<1>1. row \in PostRow
  BY DEF PostRow, ConsentInv, ConsentTypeOK
<1>2. row.late => row.cookie # row.page
  BY DEF ConsentInv, JarIsUndecided
<1> QED
  BY <1>1, <1>2, PostStep DEF Submit

\* The decision compares the cookie with the form.
LEMMA DecideStep ==
  ASSUME ConsentInv, NEW s \in Posts, Decide(s)
  PROVE  ConsentInv'
<1>1. /\ post[s] \in PostRow /\ post[s].at = "sent" /\ NoPost \in PostRow
      /\ post[s].page \in Pages /\ page[post[s].page] # None
  BY DEF ConsentInv, ConsentTypeOK, LateFormsDiffer, Decide, PostRow, NoPost
<1>2. CASE post' = [post EXCEPT ![s] = NoPost]
  BY <1>1, <1>2, PostStep DEF Decide, NoPost
<1>3. CASE /\ post[s].cookie = post[s].page
           /\ post' = [post EXCEPT ![s].at = IF post[s].allow THEN "allowed" ELSE "answered"]
  <2> DEFINE row == [post[s] EXCEPT !.at = IF post[s].allow THEN "allowed" ELSE "answered"]
  <2>1. /\ row \in PostRow /\ row.at \in {"allowed", "answered"}
        /\ row.page = post[s].page /\ row.late = post[s].late
    BY <1>1 DEF PostRow
  <2>2. post' = [post EXCEPT ![s] = row]
    BY <1>1, <1>3 DEF ConsentInv, ConsentTypeOK
  <2>3. ~row.late
    BY <1>1, <1>3, <2>1 DEF ConsentInv, LateFormsDiffer
  <2> HIDE DEF row
  <2> QED
    BY <1>1, <2>1, <2>2, <2>3, PostStep DEF Decide
<1> QED
  BY <1>2, <1>3 DEF Decide

\* A code is issued for an accepted form.
LEMMA IssueStep ==
  ASSUME ConsentInv, NEW s \in Posts, Issue(s)
  PROVE  ConsentInv'
<1> USE DEF ConsentInv
<1>1. /\ post[s] \in PostRow /\ post[s].at = "allowed" /\ ~post[s].late
      /\ post[s].page \in Pages /\ page[post[s].page] # None
  BY DEF ConsentTypeOK, LateFormsDiffer, DecisionIsFinal, Issue, PostRow
<1> DEFINE row == [post[s] EXCEPT !.at = "answered"]
<1>2. /\ row \in PostRow /\ row.at = "answered"
      /\ row.page = post[s].page /\ row.late = post[s].late
  BY <1>1 DEF PostRow
<1>3. post' = [post EXCEPT ![s] = row]
  BY <1>1 DEF ConsentTypeOK, Issue
<1> HIDE DEF row
<1>4. post' \in [Posts -> PostRow] /\ \A t \in Posts : post'[t] = IF t = s THEN row ELSE post[t]
  BY <1>2, <1>3 DEF ConsentTypeOK, PostRow
<1>5. /\ codes' \in [Pages -> Nat]
      /\ \A g \in Pages : codes'[g] > 0 => codes[g] > 0 \/ g = post[s].page
      /\ UNCHANGED <<clients, page, jar, owner, decided>>
  BY <1>1 DEF ConsentTypeOK, Issue
<1>6. ConsentTypeOK'
  BY <1>1, <1>4, <1>5 DEF ConsentTypeOK, PostRow
<1> QED
  BY <1>1, <1>2, <1>4, <1>5, <1>6 DEF JarIsUndecided, LateFormsDiffer, DecisionIsFinal

\* The answer takes the cookie with it, so that no page that is decided has one.
LEMMA AnswerStep ==
  ASSUME ConsentInv, NEW s \in Posts, AnswerDecision(s)
  PROVE  ConsentInv'
<1> USE DEF ConsentInv
<1>1. /\ post[s].at = "answered" /\ NoPost \in PostRow
      /\ post[s].page \in Pages /\ page[post[s].page] # None
  BY DEF LateFormsDiffer, AnswerDecision, PostRow, NoPost
<1>2. /\ post' = [post EXCEPT ![s] = NoPost] /\ jar' = None
      /\ decided' = decided \cup {post[s].page}
      /\ UNCHANGED <<clients, page, owner, codes>>
  BY DEF AnswerDecision, CookieAfter
<1>3. post' \in [Posts -> PostRow] /\ \A t \in Posts : post'[t] = IF t = s THEN NoPost ELSE post[t]
  BY <1>1, <1>2 DEF ConsentTypeOK, PostRow
<1>4. ConsentTypeOK'
  BY <1>1, <1>2, <1>3, NoneIsNoId DEF ConsentTypeOK, PostRow
<1>5. decided' \subseteq Pages /\ JarIsUndecided'
  BY <1>1, <1>2, NoneIsNoId DEF JarIsUndecided
<1> QED
  BY <1>2, <1>3, <1>4, <1>5 DEF LateFormsDiffer, DecisionIsFinal, NoPost

\* The invariant of the consent page.
THEOREM ConsentInvariant == ConsentSpec => []ConsentInv
<1>1. ConsentInv /\ [ConsentNext]_vars => ConsentInv'
  <2> SUFFICES ASSUME ConsentInv, [ConsentNext]_vars PROVE ConsentInv'
    OBVIOUS
  <2>1. CASE UNCHANGED vars
    BY <2>1 DEF vars, ConsentInv, ConsentTypeOK, JarIsUndecided, LateFormsDiffer,
                DecisionIsFinal
  <2>2. CASE Session
    BY <2>2 DEF Session, ConsentInv, ConsentTypeOK, JarIsUndecided, LateFormsDiffer,
                DecisionIsFinal
  <2>3. ASSUME NEW s \in Posts, LosePost(s)
        PROVE  ConsentInv'
    <3>1. NoPost \in PostRow
      BY DEF NoPost, PostRow
    <3> QED
      BY <2>3, <3>1, PostStep DEF LosePost, NoPost
  <2> QED
    BY <2>1, <2>2, <2>3, RegisterStep, ShowPageStep, SubmitStep, DecideStep, IssueStep,
       AnswerStep DEF ConsentNext
<1> QED
  BY <1>1, ConsentInvInitially, PTL DEF ConsentSpec

\* The types of the state, for every number of clients and pages; and no more clients are
\* registered than the limit, whatever is registered when.
THEOREM ConsentTypeCorrect == ConsentSpec => []ConsentTypeOK
<1>1. ConsentInv => ConsentTypeOK
  BY DEF ConsentInv
<1> QED
  BY <1>1, ConsentInvariant, PTL

\* A decision cannot be made again with the form of a page that was answered: the cookie
\* went with the answer, and no other page has its value.
THEOREM DecisionsAreFinal == ConsentSpec => []DecisionIsFinal
<1>1. ConsentInv => DecisionIsFinal
  BY DEF ConsentInv
<1> QED
  BY <1>1, ConsentInvariant, PTL
===============================================================================
