-------------------------- MODULE GateServerProofs --------------------------
(***************************************************************************)
(* What the serving process keeps, for any number of calls inside it: the  *)
(* mutex excludes, and only a late call finds the store closed.            *)
(***************************************************************************)
EXTENDS GateServer, TLAPS

\* While Run is at one of these places no call can have been admitted yet.
Starting == run \in {"open store", "verify", "open tokens", "listen"}

\* The places of a call.
Places == {"absent", "fetch", "wait", "read", "exchange", "record"}

CallsTyped ==
  call \in [Calls -> [tool : Tools \cup {None}, at : Places, gone : BOOLEAN]]

\* A call inside the service holds the mutex.
InsideHolds == \A c \in Calls : Inside(c) => calls = c

\* The store is open from its opening until Run comes to close it.
StoreServes == run \in {"open store", "returned", "exited"} \/ store

\* The grace period begins with the shutdown, and once.
GraceInOrder ==
  /\ grace \in {"unused", "running", "over"}
  /\ Starting \/ run = "serving" => grace = "unused"

\* A call that is still there when Run goes on to close is a late one.
StragglersAreLate ==
  Active # {} =>
    /\ ~Starting /\ run # "exited"
    /\ run \in {"serving", "shutdown"} \/ grace = "over" \/ broken

ServerInv ==
  /\ CallsTyped /\ InsideHolds
  /\ StoreServes /\ GraceInOrder /\ StragglersAreLate /\ OnlyLateCallsAreCut

-----------------------------------------------------------------------------
\* At first nothing is open and nobody is there.
LEMMA ServerInvInitially == ServerInit => ServerInv
<1> SUFFICES ASSUME ServerInit PROVE ServerInv
  OBVIOUS
<1>1. CallsTyped /\ \A c \in Calls : call[c].at = "absent"
  BY DEF ServerInit, CallsTyped, Places
<1>2. InsideHolds /\ StragglersAreLate
  BY <1>1 DEF InsideHolds, Inside, StragglersAreLate, Active, At
<1> QED
  BY <1>1, <1>2 DEF ServerInit, ServerInv, StoreServes, GraceInOrder, OnlyLateCallsAreCut

\* The steps of Run before it serves: there is no call yet.
LEMMA StartingStep ==
  ASSUME ServerInv, OpenStore \/ VerifyIdentity \/ OpenTokens \/ Listen
  PROVE  ServerInv'
<1> USE DEF ServerInv, Starting
<1>1. UNCHANGED <<call, calls, grace, broken, cut>> /\ Starting /\ run' # "exited"
  BY DEF OpenStore, VerifyIdentity, OpenTokens, Listen
<1>2. CallsTyped' /\ InsideHolds' /\ OnlyLateCallsAreCut'
  BY <1>1 DEF CallsTyped, InsideHolds, Inside, OnlyLateCallsAreCut
<1>3. StoreServes'
  BY DEF StoreServes, OpenStore, VerifyIdentity, OpenTokens, Listen
<1>4. GraceInOrder'
  BY <1>1 DEF GraceInOrder
<1>5. Active = {}
  BY <1>1 DEF StragglersAreLate
<1>6. StragglersAreLate'
  BY <1>1, <1>5 DEF StragglersAreLate, Active, At
<1> QED
  BY <1>2, <1>3, <1>4, <1>6

\* The steps that stop serving, by a signal, by a failure or as the time is over.
LEMMA StoppingStep ==
  ASSUME ServerInv, Signal \/ ServeFails \/ BeginShutdown \/ GraceEnds
  PROVE  ServerInv'
<1> USE DEF ServerInv
<1>1. UNCHANGED <<store, call, calls, cut>>
  BY DEF Signal, ServeFails, BeginShutdown, GraceEnds
<1>2. CallsTyped' /\ InsideHolds' /\ StoreServes'
  BY <1>1 DEF CallsTyped, InsideHolds, Inside, StoreServes, Signal, ServeFails, BeginShutdown,
              GraceEnds
<1>3. GraceInOrder'
  BY DEF GraceInOrder, Starting, Signal, ServeFails, BeginShutdown, GraceEnds
<1>4. Active' = Active
  BY <1>1 DEF Active, At
<1>5. StragglersAreLate'
  BY <1>4 DEF StragglersAreLate, Starting, Signal, ServeFails, BeginShutdown, GraceEnds
<1>6. OnlyLateCallsAreCut'
  BY <1>1 DEF OnlyLateCallsAreCut, GraceInOrder, Signal, ServeFails, BeginShutdown, GraceEnds
<1> QED
  BY <1>2, <1>3, <1>5, <1>6

\* Shutdown returns: whoever is inside by now had the whole grace period.
LEMMA ShutdownStep ==
  ASSUME ServerInv, Shutdown
  PROVE  ServerInv'
<1> USE DEF ServerInv, Shutdown
<1>1. CallsTyped' /\ \A c \in Calls : call'[c].at = call[c].at
  BY DEF CallsTyped
<1>2. Active' = Active
  BY <1>1 DEF Active, At
<1>3. InsideHolds' /\ StoreServes'
  BY <1>1 DEF InsideHolds, Inside, StoreServes
<1>4. GraceInOrder' /\ OnlyLateCallsAreCut'
  BY DEF GraceInOrder, Starting, OnlyLateCallsAreCut
<1>5. StragglersAreLate'
  BY <1>2 DEF StragglersAreLate, Starting
<1> QED
  BY <1>1, <1>3, <1>4, <1>5

\* Closing the connector, around the calls that are still there.
LEMMA ClosingStep ==
  ASSUME ServerInv, CloseTokens \/ CloseStore
  PROVE  ServerInv'
<1> USE DEF ServerInv, CloseTokens, CloseStore
<1>1. UNCHANGED <<call, calls, grace, broken, cut>>
  OBVIOUS
<1>2. CallsTyped' /\ InsideHolds' /\ StoreServes' /\ OnlyLateCallsAreCut'
  BY <1>1 DEF CallsTyped, InsideHolds, Inside, StoreServes, OnlyLateCallsAreCut
<1>3. GraceInOrder'
  BY <1>1 DEF GraceInOrder, Starting
<1>4. Active' = Active
  BY <1>1 DEF Active, At
<1>5. StragglersAreLate'
  BY <1>1, <1>4 DEF StragglersAreLate, Starting
<1> QED
  BY <1>2, <1>3, <1>5

\* The process takes every call with it.
LEMMA ExitStep ==
  ASSUME ServerInv, Exit
  PROVE  ServerInv'
<1> USE DEF ServerInv, Exit
<1>1. CallsTyped' /\ \A c \in Calls : call'[c].at = "absent"
  BY DEF Active, At, CallsTyped, Places
<1>2. InsideHolds' /\ StoreServes'
  BY <1>1 DEF InsideHolds, Inside, StoreServes
<1>3. GraceInOrder' /\ OnlyLateCallsAreCut'
  BY DEF GraceInOrder, Starting, OnlyLateCallsAreCut
<1>4. StragglersAreLate'
  BY <1>1 DEF StragglersAreLate, Active, At
<1> QED
  BY <1>1, <1>2, <1>3, <1>4

-----------------------------------------------------------------------------
\* What a step of one call leaves alone, and how the places change.
CallMoves(c, place) ==
  /\ CallsTyped' /\ call'[c].at = place
  /\ \A d \in Calls \ {c} : call'[d].at = call[d].at
  /\ UNCHANGED <<run, store, grace, broken>>

LEMMA GotoMoves ==
  ASSUME CallsTyped, NEW c \in Calls, NEW place \in Places, Goto(c, place)
  PROVE  CallMoves(c, place)
  BY DEF CallsTyped, Goto, CallMoves

\* A call that was there before, or that arrives while serving, may go anywhere it is
\* allowed to: the mutex is all that matters.
LEMMA CallStep ==
  ASSUME ServerInv, NEW c \in Calls, NEW place, CallMoves(c, place),
         ~At(c, "absent") \/ run = "serving",
         place \in {"read", "exchange", "record"} => calls' = c,
         \A d \in Calls \ {c} : Inside(d) => calls' = d,
         UNCHANGED cut
  PROVE  ServerInv'
<1> USE DEF ServerInv, CallMoves
<1>1. CallsTyped'
  OBVIOUS
<1>2. InsideHolds'
  BY DEF InsideHolds, Inside
<1>3. StoreServes' /\ GraceInOrder' /\ OnlyLateCallsAreCut'
  BY DEF StoreServes, GraceInOrder, Starting, OnlyLateCallsAreCut
<1>4. Active' # {} => Active # {} \/ run = "serving"
  BY DEF Active, At
<1>5. StragglersAreLate'
  BY <1>4 DEF StragglersAreLate, Starting
<1> QED
  BY <1>1, <1>2, <1>3, <1>5

\* Nothing but the history of it changes when a call finds the store closed: by then it is
\* a late one.
LEMMA RefusedStep ==
  ASSUME ServerInv, NEW c \in Calls, Inside(c), Refused(c)
  PROVE  ServerInv'
<1> USE DEF ServerInv
<1>1. CallMoves(c, "absent") /\ calls' = None
  BY GotoMoves DEF Refused, Finish, Places
<1>2. c \in Active
  BY DEF Inside, Active, At
<1>3. ~store => grace = "over" \/ broken
  BY <1>2 DEF StoreServes, StragglersAreLate
<1>4. \A d \in Calls \ {c} : ~Inside(d)
  BY DEF InsideHolds
<1>5. CallsTyped' /\ InsideHolds'
  BY <1>1, <1>4 DEF CallsTyped, InsideHolds, Inside, CallMoves
<1>6. StoreServes' /\ GraceInOrder'
  BY <1>1 DEF StoreServes, GraceInOrder, Starting, CallMoves
<1>7. OnlyLateCallsAreCut'
  BY <1>1, <1>3 DEF OnlyLateCallsAreCut, Refused, CallMoves
<1>8. StragglersAreLate'
  BY <1>1, <1>2 DEF StragglersAreLate, Starting, CallMoves
<1> QED
  BY <1>5, <1>6, <1>7, <1>8

\* A call that leaves the service leaves nobody inside.
LEMMA FinishStep ==
  ASSUME ServerInv, NEW c \in Calls, Inside(c), Finish(c), UNCHANGED cut
  PROVE  ServerInv'
<1>1. CallMoves(c, "absent")
  BY GotoMoves DEF Finish, Places, ServerInv
<1>2. \A d \in Calls \ {c} : ~Inside(d)
  BY DEF InsideHolds, ServerInv
<1>3. ~At(c, "absent")
  BY DEF Inside, At
<1> QED
  BY <1>1, <1>2, <1>3, CallStep

\* The steps of a call.
LEMMA HandleStep ==
  ASSUME ServerInv, NEW c \in Calls, Handle(c)
  PROVE  ServerInv'
<1>1. CASE Fetch(c)
  <2>1. PICK place \in {"wait", "absent"} : Goto(c, place)
    BY <1>1 DEF Fetch
  <2>2. CallMoves(c, place)
    BY <2>1, GotoMoves DEF Places, ServerInv
  <2> QED
    BY <1>1, <2>2, CallStep DEF Fetch, At, InsideHolds, ServerInv
<1>2. CASE ReadStore(c)
  <2>0. Inside(c)
    BY <1>2 DEF ReadStore, At, Inside
  <2>1. CASE Refused(c)
    BY <2>0, <2>1, RefusedStep
  <2>2. CASE Finish(c) /\ UNCHANGED cut
    BY <2>0, <2>2, FinishStep
  <2>3. CASE Goto(c, "exchange") /\ UNCHANGED <<calls, cut>>
    <3>1. CallMoves(c, "exchange")
      BY <2>3, GotoMoves DEF Places, ServerInv
    <3> QED
      BY <2>0, <2>3, <3>1, CallStep DEF At, Inside, InsideHolds, ServerInv
  <2> QED
    BY <1>2, <2>1, <2>2, <2>3 DEF ReadStore
<1>3. CASE Exchange(c)
  <2>1. CallMoves(c, "record") /\ Inside(c)
    BY <1>3, GotoMoves DEF Exchange, Places, ServerInv, Inside, At
  <2> QED
    BY <1>3, <2>1, CallStep DEF Exchange, At, Inside, InsideHolds, ServerInv
<1>4. CASE Record(c)
  <2>0. Inside(c)
    BY <1>4 DEF Record, At, Inside
  <2> QED
    BY <1>4, <2>0, RefusedStep, FinishStep DEF Record
<1> QED
  BY <1>1, <1>2, <1>3, <1>4 DEF Handle

\* A call arrives, loses its client, or is let into the service.
LEMMA AdmissionStep ==
  ASSUME ServerInv, NEW c \in Calls,
         (\E tool \in Tools : Arrive(c, tool)) \/ ClientLeaves(c) \/ Acquire(c)
  PROVE  ServerInv'
<1> USE DEF ServerInv
<1>1. CASE \E tool \in Tools : Arrive(c, tool)
  <2>1. PICK tool \in Tools : Arrive(c, tool)
    BY <1>1
  <2>2. CallMoves(c, IF tool = "preview" THEN "fetch" ELSE "wait")
    BY <2>1 DEF Arrive, CallMoves, CallsTyped, Places
  <2> QED
    BY <2>1, <2>2, CallStep DEF Arrive, InsideHolds
<1>2. CASE ClientLeaves(c)
  <2>1. CallMoves(c, call[c].at)
    BY <1>2 DEF ClientLeaves, CallMoves, CallsTyped
  <2> QED
    BY <1>2, <2>1, CallStep DEF ClientLeaves, InsideHolds, Inside, Active
<1>3. CASE Acquire(c)
  <2>1. CallMoves(c, "read")
    BY <1>3, GotoMoves DEF Acquire, Places
  <2>2. \A d \in Calls : ~Inside(d)
    BY <1>3, NoneIsNoCall DEF Acquire, InsideHolds
  <2> QED
    BY <1>3, <2>1, <2>2, CallStep DEF Acquire, At
<1> QED
  BY <1>1, <1>2, <1>3

\* The invariant of the serving process.
THEOREM ServerInvariant == ServerSpec => []ServerInv
<1>1. ServerInv /\ [ServerNext]_vars => ServerInv'
  <2> SUFFICES ASSUME ServerInv, [ServerNext]_vars PROVE ServerInv'
    OBVIOUS
  <2>1. CASE RunStep
    BY <2>1, StartingStep, StoppingStep, ShutdownStep, ClosingStep, ExitStep DEF RunStep
  <2>2. CASE Signal \/ ServeFails \/ GraceEnds
    BY <2>2, StoppingStep
  <2>3. CASE \E c \in Calls, tool \in Tools : Arrive(c, tool)
    BY <2>3, AdmissionStep
  <2>4. CASE \E c \in Calls : ClientLeaves(c) \/ Acquire(c) \/ Handle(c)
    BY <2>4, AdmissionStep, HandleStep
  <2>5. CASE UNCHANGED vars
    BY <2>5 DEF vars, ServerInv, CallsTyped, InsideHolds, Inside, StoreServes, GraceInOrder,
                Starting, StragglersAreLate, Active, At, OnlyLateCallsAreCut
  <2> QED
    BY <2>1, <2>2, <2>3, <2>4, <2>5 DEF ServerNext
<1> QED
  BY <1>1, ServerInvInitially, PTL DEF ServerSpec

\* However many calls there are, clients that leave and ends of the process: the service is
\* entered by one at a time.
THEOREM ServiceIsEnteredByOne == ServerSpec => []CallsAreSerial
<1>1. ServerInv => CallsAreSerial
  BY DEF ServerInv, InsideHolds, CallsAreSerial
<1> QED
  BY <1>1, ServerInvariant, PTL

\* Run closes the store under no call but one that had the whole grace period, or that the
\* failure of Serve surprised.
THEOREM ShutdownWaitsForCalls == ServerSpec => []OnlyLateCallsAreCut
<1>1. ServerInv => OnlyLateCallsAreCut
  BY DEF ServerInv
<1> QED
  BY <1>1, ServerInvariant, PTL
=============================================================================
