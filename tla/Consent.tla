------------------------------- MODULE Consent -------------------------------
(***************************************************************************)
(* Registration and the consent page: register, authorize and              *)
(* ownerLoggedIn of internal/connector/auth.go with addClient and GetByID  *)
(* of store.go, and the owner's browser (external), which keeps one        *)
(* consent cookie and may submit any page it still shows, also twice and   *)
(* after its decision.                                                     *)
(*                                                                         *)
(* What happens to an issued code is TokenStore; its IssueCode is the      *)
(* database's side of Issue here.                                          *)
(***************************************************************************)
EXTENDS Naturals, FiniteSets

CONSTANTS
  Clients, Pages, Posts,
  None,        \* no client, no page
  MaxClients   \* the limit of addClient, 128 in the code

ASSUME NoneIsNoId == None \notin Clients \cup Pages
ASSUME LimitAssumption == MaxClients \in Nat

VARIABLES
  clients,   \* the clients table
  page,      \* page[g]: the client that page g asks about; g is also its csrf value
  jar,       \* the browser's bridge_csrf cookie
  owner,     \* whether the browser has the owner's Open WebUI session
  post,      \* submissions under way
  codes,     \* how many codes were issued for each page
  decided    \* pages whose decision the browser has seen answered

vars == <<clients, page, jar, owner, post, codes, decided>>

NoPost == [at |-> "idle", page |-> None, cookie |-> None, allow |-> FALSE, late |-> FALSE]

ConsentInit ==
  /\ clients = {}
  /\ page = [g \in Pages |-> None]
  /\ jar = None
  /\ owner \in BOOLEAN
  /\ post = [s \in Posts |-> NoPost]
  /\ codes = [g \in Pages |-> 0]
  /\ decided = {}

-----------------------------------------------------------------------------
\* addClient counts and inserts under the mutex; a full table answers 429.
Register(c) ==
  /\ c \notin clients
  /\ Cardinality(clients) < MaxClients
  /\ clients' = clients \cup {c}
  /\ UNCHANGED <<page, jar, owner, post, codes, decided>>

\* The owner logs in to Open WebUI or out of it.
Session ==
  /\ owner' = ~owner
  /\ UNCHANGED <<clients, page, jar, post, codes, decided>>

\* What authorize checks of both methods: a registered client, and the owner's
\* session, asked of Open WebUI.
MayAsk(c) == c \in clients /\ owner

\* GET: a new csrf value, in the page and in the cookie.
ShowPage(g, c) ==
  /\ page[g] = None
  /\ MayAsk(c)
  /\ page' = [page EXCEPT ![g] = c]
  /\ jar' = g
  /\ UNCHANGED <<clients, owner, post, codes, decided>>

\* The browser submits a page it shows with the cookie it has at that moment.
Submit(s, g, allow) ==
  /\ post[s] = NoPost /\ page[g] # None
  /\ post' = [post EXCEPT ![s] = [at |-> "sent", page |-> g, cookie |-> jar,
                                  allow |-> allow, late |-> g \in decided]]
  /\ UNCHANGED <<clients, page, jar, owner, codes, decided>>

\* POST: the same checks, then the cookie against the form.  A denial is answered, an
\* accepted form goes on to its code.
Decide(s) ==
  /\ post[s].at = "sent"
  /\ IF MayAsk(page[post[s].page]) /\ post[s].cookie = post[s].page
     THEN post' = [post EXCEPT ![s].at = IF post[s].allow THEN "allowed" ELSE "answered"]
     ELSE post' = [post EXCEPT ![s] = NoPost]
  /\ UNCHANGED <<clients, page, jar, owner, codes, decided>>

Issue(s) ==
  /\ post[s].at = "allowed"
  /\ codes' = [codes EXCEPT ![post[s].page] = @ + 1]
  /\ post' = [post EXCEPT ![s].at = "answered"]
  /\ UNCHANGED <<clients, page, jar, owner, decided>>

\* Wrong: the answer leaves the cookie alone.
CookieLeft(g) == jar

\* The answer of a decision clears the cookie, whichever page it belongs to by now.
CookieAfter(g) == None

AnswerDecision(s) ==
  /\ post[s].at = "answered"
  /\ jar' = CookieAfter(post[s].page)
  /\ decided' = decided \cup {post[s].page}
  /\ post' = [post EXCEPT ![s] = NoPost]
  /\ UNCHANGED <<clients, page, owner, codes>>

\* The browser goes away, or the process stops, before the answer.
LosePost(s) ==
  /\ post[s] # NoPost
  /\ post' = [post EXCEPT ![s] = NoPost]
  /\ UNCHANGED <<clients, page, jar, owner, codes, decided>>

\* Bound: a page that has as many codes as there can be submissions at once is not
\* submitted again.
Submittable(g) == codes[g] < Cardinality(Posts)

ConsentNext ==
  \/ \E c \in Clients : Register(c) \/ \E g \in Pages : ShowPage(g, c)
  \/ Session
  \/ \E s \in Posts :
       \/ \E g \in Pages, allow \in BOOLEAN : Submittable(g) /\ Submit(s, g, allow)
       \/ Decide(s) \/ Issue(s) \/ AnswerDecision(s) \/ LosePost(s)

ConsentSpec == ConsentInit /\ [][ConsentNext]_vars

-----------------------------------------------------------------------------
\* The types; and whoever a page, a submission or a code is about is registered.
ConsentTypeOK ==
  /\ clients \subseteq Clients
  /\ IsFiniteSet(clients) /\ Cardinality(clients) <= MaxClients
  /\ page \in [Pages -> clients \cup {None}]
  /\ jar \in Pages \cup {None} /\ owner \in BOOLEAN
  /\ post \in [Posts -> [at : {"idle", "sent", "allowed", "answered"},
                          page : Pages \cup {None}, cookie : Pages \cup {None},
                          allow : BOOLEAN, late : BOOLEAN]]
  /\ codes \in [Pages -> Nat]
  /\ \A g \in Pages : (g = jar \/ codes[g] > 0 \/ g \in decided) => page[g] # None

\* A form that is sent after its browser saw the page's decision answered is never
\* accepted: "Consent expired; reload and retry" (auth.go:202).  Denied stays denied, and
\* a used consent cannot be used again, though forms sent twice before may each count.
DecisionIsFinal ==
  \A s \in Posts : post[s].at \in {"allowed", "answered"} => ~post[s].late

=============================================================================
