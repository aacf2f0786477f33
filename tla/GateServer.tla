----------------------------- MODULE GateServer -----------------------------
(***************************************************************************)
(* The serving process: Run of internal/httpserver/server.go, from opening *)
(* the connector to its shutdown, and the tool calls that New of           *)
(* internal/connector/connector.go lets into the service one at a time.    *)
(*                                                                         *)
(* A call inside the service reads the store, exchanges something with     *)
(* Open WebUI and records the outcome; what these steps do is SyncService. *)
(* A statement of the store is a step: closing waits for one in progress.  *)
(***************************************************************************)
EXTENDS Naturals, FiniteSets

CONSTANTS
  None,
  Calls,   \* places for tool calls; a call that is over leaves its place to the next
  Tools    \* subset of {"preview", "apply", "status"}

ASSUME NoneIsNoCall == None \notin Calls

VARIABLES
  run,      \* where Run is
  store,    \* TRUE while the store is open
  tokens,   \* TRUE while the token database is open
  stop,     \* the context of Run is done: a signal arrived
  grace,    \* "unused", "running" or "over": the shutdown timeout
  broken,   \* Serve returned by itself
  call,     \* per call: [tool, at, gone], gone once the client is
  calls,    \* the mutex: the call that holds it, or None
  cut       \* history: the calls that found the store closed

vars == <<run, store, tokens, stop, grace, broken, call, calls, cut>>

ServerInit ==
  /\ run = "open store" /\ store = FALSE /\ tokens = FALSE
  /\ stop = FALSE /\ grace = "unused" /\ broken = FALSE
  /\ call = [c \in Calls |-> [tool |-> None, at |-> "absent", gone |-> FALSE]]
  /\ calls = None /\ cut = {}

At(c, place) == call[c].at = place
Active == {c \in Calls : ~At(c, "absent")}

-----------------------------------------------------------------------------
\* connector.New: each step may fail, and closes what the earlier ones opened.
OpenStore ==
  /\ run = "open store"
  /\ \/ store' = TRUE /\ run' = "verify"
     \/ UNCHANGED store /\ run' = "returned"
  /\ UNCHANGED <<tokens, stop, grace, broken, call, calls, cut>>

VerifyIdentity ==
  /\ run = "verify"
  /\ \/ run' = "open tokens" /\ UNCHANGED store
     \/ run' = "returned" /\ store' = FALSE
  /\ UNCHANGED <<tokens, stop, grace, broken, call, calls, cut>>

OpenTokens ==
  /\ run = "open tokens"
  /\ \/ tokens' = TRUE /\ run' = "listen" /\ UNCHANGED store
     \/ run' = "returned" /\ store' = FALSE /\ UNCHANGED tokens
  /\ UNCHANGED <<stop, grace, broken, call, calls, cut>>

\* From here on the connector is closed by the deferred call of Run.
Listen ==
  /\ run = "listen"
  /\ run' \in {"serving", "close tokens"}
  /\ UNCHANGED <<store, tokens, stop, grace, broken, call, calls, cut>>

Signal ==
  /\ ~stop
  /\ stop' = TRUE
  /\ UNCHANGED <<run, store, tokens, grace, broken, call, calls, cut>>

\* Serve fails by itself, and Run returns at once.
ServeFails ==
  /\ run = "serving"
  /\ broken' = TRUE
  /\ run' = "close tokens"
  /\ UNCHANGED <<store, tokens, stop, grace, call, calls, cut>>

\* Wrong: no time is given to the calls that are inside.
ShutdownAtOnce ==
  /\ run = "serving" /\ stop
  /\ run' = "close tokens"
  /\ UNCHANGED <<store, tokens, stop, grace, broken, call, calls, cut>>

\* Wrong: it goes on to serve until no call is inside.
ShutdownWhenIdle ==
  /\ run = "serving" /\ stop /\ Active = {}
  /\ run' = "shutdown" /\ grace' = "running"
  /\ UNCHANGED <<store, tokens, stop, broken, call, calls, cut>>

\* No call is admitted any more; those inside are given the shutdown timeout.
BeginShutdown ==
  /\ run = "serving" /\ stop
  /\ run' = "shutdown" /\ grace' = "running"
  /\ UNCHANGED <<store, tokens, stop, broken, call, calls, cut>>

GraceEnds ==
  /\ grace = "running"
  /\ grace' = "over"
  /\ UNCHANGED <<run, store, tokens, stop, broken, call, calls, cut>>

\* Shutdown returns when every call is done, or with an error when the time is over;
\* then Close cuts the connections, and the clients of the calls inside are gone.
Shutdown ==
  /\ run = "shutdown"
  /\ Active = {} \/ grace = "over"
  /\ run' = "close tokens"
  /\ call' = [c \in Calls |-> IF c \in Active THEN [call[c] EXCEPT !.gone = TRUE] ELSE call[c]]
  /\ UNCHANGED <<store, tokens, stop, grace, broken, calls, cut>>

\* closeAll: both are closed, whatever the first one returns.
CloseTokens ==
  /\ run = "close tokens"
  /\ tokens' = FALSE /\ run' = "close store"
  /\ UNCHANGED <<store, stop, grace, broken, call, calls, cut>>

CloseStore ==
  /\ run = "close store"
  /\ store' = FALSE /\ run' = "returned"
  /\ UNCHANGED <<tokens, stop, grace, broken, call, calls, cut>>

\* The process ends, and with it what is still running.
Exit ==
  /\ run = "returned"
  /\ run' = "exited"
  /\ call' = [c \in Calls |-> IF c \in Active THEN [call[c] EXCEPT !.at = "absent"] ELSE call[c]]
  /\ calls' = None
  /\ UNCHANGED <<store, tokens, stop, grace, broken, cut>>

-----------------------------------------------------------------------------
\* Only preview_sync does something before it asks for the mutex.
Arrive(c, tool) ==
  /\ run = "serving" /\ At(c, "absent")
  /\ call' = [call EXCEPT ![c] =
       [tool |-> tool, at |-> IF tool = "preview" THEN "fetch" ELSE "wait", gone |-> FALSE]]
  /\ UNCHANGED <<run, store, tokens, stop, grace, broken, calls, cut>>

ClientLeaves(c) ==
  /\ c \in Active /\ ~call[c].gone
  /\ call' = [call EXCEPT ![c].gone = TRUE]
  /\ UNCHANGED <<run, store, tokens, stop, grace, broken, calls, cut>>

Goto(c, place) ==
  /\ call' = [call EXCEPT ![c].at = place]
  /\ UNCHANGED <<run, store, tokens, stop, grace, broken>>

\* Fetching and parsing the share, which a cancelled request ends.
Fetch(c) ==
  /\ At(c, "fetch")
  /\ \E place \in IF call[c].gone THEN {"absent"} ELSE {"wait", "absent"} : Goto(c, place)
  /\ UNCHANGED <<calls, cut>>

\* A call that waits for the mutex waits on when its client has left.
Acquire(c) ==
  /\ At(c, "wait") /\ calls = None
  /\ calls' = c
  /\ Goto(c, "read")
  /\ UNCHANGED cut

\* defer calls.Unlock(): on every way out of the service.
Finish(c) ==
  /\ calls' = None
  /\ Goto(c, "absent")

\* Wrong: the mutex is not given back on the way out that an error takes.
RefusedLocked(c) ==
  /\ Goto(c, "absent") /\ UNCHANGED calls
  /\ cut' = IF store THEN cut ELSE cut \cup {c}

\* The call as a whole ends when the store refuses, because its client is gone or because
\* it was closed.
Refused(c) ==
  /\ Finish(c)
  /\ cut' = IF store THEN cut ELSE cut \cup {c}

ReadStore(c) ==
  /\ At(c, "read")
  /\ IF call[c].gone \/ ~store THEN Refused(c)
     ELSE /\ IF call[c].tool = "status" THEN Finish(c)
             ELSE Goto(c, "exchange") /\ UNCHANGED calls
          /\ UNCHANGED cut

\* Wrong: a call that is slow gives the mutex up and goes on.
ExchangeUnlocked(c) ==
  /\ At(c, "exchange")
  /\ Goto(c, "record")
  /\ calls' = None /\ UNCHANGED cut

\* Requests to Open WebUI have a timeout, and are ended with the client's.
Exchange(c) ==
  /\ At(c, "exchange")
  /\ Goto(c, "record")
  /\ UNCHANGED <<calls, cut>>

Record(c) ==
  /\ At(c, "record")
  /\ IF call[c].gone \/ ~store THEN Refused(c) ELSE Finish(c) /\ UNCHANGED cut

Handle(c) == Fetch(c) \/ ReadStore(c) \/ Exchange(c) \/ Record(c)

RunStep ==
  \/ OpenStore \/ VerifyIdentity \/ OpenTokens \/ Listen
  \/ BeginShutdown \/ Shutdown \/ CloseTokens \/ CloseStore \/ Exit

ServerNext ==
  \/ RunStep \/ Signal \/ ServeFails \/ GraceEnds
  \/ \E c \in Calls, tool \in Tools : Arrive(c, tool)
  \/ \E c \in Calls : ClientLeaves(c) \/ Acquire(c) \/ Handle(c)

\* Run and the handlers are goroutines that take their steps; every exchange has a timeout;
\* the grace period is a timer; and Go's mutex hands itself to whoever waited long.
ServerSpec ==
  /\ ServerInit /\ [][ServerNext]_vars
  /\ WF_vars(RunStep) /\ WF_vars(GraceEnds)
  /\ \A c \in Calls : WF_vars(Handle(c)) /\ SF_vars(Acquire(c))

-----------------------------------------------------------------------------
Inside(c) == call[c].at \in {"read", "exchange", "record"}

\* The service is never entered by two calls, even while it is being shut down around
\* them: what SyncService is checked with when one call is inside at a time.
CallsAreSerial == \A c, d \in Calls : Inside(c) /\ Inside(d) => c = d

\* Only a call that had the whole grace period, or one that Serve's failure surprised, ever
\* finds the store closed under it.
OnlyLateCallsAreCut == cut # {} => grace = "over" \/ broken

\* Once it is told to stop, Run returns, whatever the calls do and wherever it is, and it
\* has closed both databases.
StopEnds == stop ~> (run \in {"returned", "exited"} /\ ~store /\ ~tokens)

\* Every call that was admitted is over some time: none waits for the mutex for ever, and
\* none that left its client behind keeps it.
CallsEnd == \A c \in Calls : (c \in Active) ~> (c \notin Active)
=============================================================================
