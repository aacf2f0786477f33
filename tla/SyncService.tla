------------------------------ MODULE SyncService ------------------------------
(* The sync engine (internal/syncer.Service) between the durable store and one
   Open WebUI account.

   A call is a thread inside the service: it takes one step per store method or
   HTTP exchange, because the process may stop, the context may be cancelled and
   Open WebUI or its user may act between any two.  Callers bounds the calls
   that are inside at once: one in production, where the connector's mutex and
   the exclusive database lock keep every other call out (connector.go:71,
   store.go:180), several when the Service is used without them.

   Open WebUI is modelled from how internal/owu uses it: a POST stays on the
   wire until it lands, is refused, or for ever; the answer may be lost, and the
   write may still land after its caller gave up.                             *)
EXTENDS GateStore

CONSTANT Callers

VARIABLES
  call,    \* the calls inside the service
  chats,   \* Open WebUI: the document of every chat, None before it exists
  wire,    \* the writes sent and not yet landed
  landed,  \* the operations whose write Open WebUI has stored
  sent     \* how often each operation's write was sent

owuVars == <<chats, wire, landed, sent>>
vars == <<storeVars, call, owuVars>>

Steps == {"idle", "read_target", "put", "save",
          "confirm", "prepare", "load", "reread", "no_change",
          "begin", "post", "await", "receipt", "readback", "finish",
          "interrupt", "reconcile", "resume", "unknown", "fail"}

Requests == [op: Operations, target: Chats \cup {None}, doc: Docs]

CallRow == [at: Steps, draft: PlanRow \cup {None}, plan: Plans \cup {None},
            op: Operations \cup {None}, version: Nat, doc: Docs \cup {None}]

Idle == [at |-> "idle", draft |-> None, plan |-> None, op |-> None,
         version |-> 0, doc |-> None]

Init ==
  /\ StoreInit
  /\ call = [c \in Callers |-> Idle]
  /\ chats = [t \in Chats |-> None]
  /\ wire = {}
  /\ landed = {}
  /\ sent = [o \in Operations |-> 0]

-------------------------------------------------------------------------------
(* Where a call stands *)

At(c, step) == call[c].at = step
Goto(c, step) == call' = [call EXCEPT ![c].at = step]
Return(c) == call' = [call EXCEPT ![c] = Idle]

PlanOf(c) == plans[call[c].plan]
OpOf(c) == ops[call[c].op]
TargetOf(c) == bindings[PlanOf(c).binding].target

\* newID: an identity nobody has used.
FreshPlan == CHOOSE p \in Plans : plans[p] = None
FreshOperation == CHOOSE o \in Operations : ~Present(o)
FreshBinding == CHOOSE b \in Bindings : ~Bound(b)
SpareOperation == \E o \in Operations : ~Present(o)

\* validatePlan
Applicable(p) == p \notin expired /\ plans[p].status \in {"ready", "no_change"}

-------------------------------------------------------------------------------
(* Preview *)

PreviewCreate(c, s) ==
  /\ At(c, "idle")
  /\ call' = [call EXCEPT ![c].at = "put", ![c].draft = CreatePlan(s)]
  /\ UNCHANGED <<storeVars, owuVars>>

\* GetBindingState; the draft's expected document is the baseline until the
\* target has been read.
PreviewUpdate(c, s, b) ==
  /\ At(c, "idle")
  /\ HasBindingState(b)
  /\ call' = [call EXCEPT ![c].at = "read_target", ![c].draft =
       UpdatePlan(s, b, bindings[b].version, bindings[b].src,
                  BaselineOf(b), BaselineOf(b))]
  /\ UNCHANGED <<storeVars, owuVars>>

PreviewRead(c) ==
  LET d == call[c].draft IN
  /\ At(c, "read_target")
  /\ call' = [call EXCEPT ![c].at = "put", ![c].draft =
       UpdatePlan(d.src, d.binding, d.version, d.prev, d.expected,
                  chats[bindings[d.binding].target])]
  /\ UNCHANGED <<storeVars, owuVars>>

\* persistPlan
PersistSource(c) ==
  /\ At(c, "put")
  /\ PutSourceSnapshot(call[c].draft.src)
  /\ Goto(c, "save")
  /\ UNCHANGED owuVars

PersistPlan(c) ==
  /\ At(c, "save")
  /\ \E p \in Plans : plans[p] = None
  /\ SavePlan(FreshPlan, call[c].draft)
  /\ Return(c)
  /\ UNCHANGED owuVars

Preview(c) ==
  \/ \E s \in Sources : PreviewCreate(c, s) \/ \E b \in Bindings : PreviewUpdate(c, s, b)
  \/ PreviewRead(c) \/ PersistSource(c) \/ PersistPlan(c)

-------------------------------------------------------------------------------
(* Apply, up to the prepared operation *)

\* A key that is already held is answered with the operation that holds it:
\* nothing changes.
ApplyStart(c, p) ==
  /\ At(c, "idle")
  /\ plans[p] # None
  /\ Holders(KeyOf(plans[p])) = {}
  /\ Applicable(p)
  /\ call' = [call EXCEPT
       ![c].at = IF plans[p].confirmed THEN "prepare" ELSE "confirm",
       ![c].plan = p]
  /\ UNCHANGED <<storeVars, owuVars>>

Confirm(c) ==
  /\ At(c, "confirm")
  /\ ConfirmPlan(call[c].plan)
  /\ Goto(c, "prepare")
  /\ UNCHANGED owuVars

\* applyCreate
ApplyCreate(c) ==
  /\ At(c, "prepare")
  /\ PlanOf(c).binding = None
  /\ SpareOperation
  /\ PrepareCreate(FreshOperation, call[c].plan, KeyOf(PlanOf(c)), PayloadOf(PlanOf(c)))
  /\ call' = [call EXCEPT ![c].at = "begin", ![c].op = FreshOperation]
  /\ UNCHANGED owuVars

\* applyUpdate; the binding state it loads first is checked again, in full, by
\* PrepareBindingOperation.
ApplyUpdate(c) ==
  /\ At(c, "prepare")
  /\ PlanOf(c).binding # None
  /\ SpareOperation
  /\ PrepareBindingOperation(FreshOperation, call[c].plan, PlanOf(c).binding,
                             "update", KeyOf(PlanOf(c)), PayloadOf(PlanOf(c)))
  /\ call' = [call EXCEPT ![c].at = "load", ![c].op = FreshOperation]
  /\ UNCHANGED owuVars

Apply(c) ==
  (\E p \in Plans : ApplyStart(c, p)) \/ Confirm(c) \/ ApplyCreate(c) \/ ApplyUpdate(c)

-------------------------------------------------------------------------------
(* Execution: executeCreate, executeUpdate, executeNoChange *)

LoadBinding(c) ==
  /\ At(c, "load")
  /\ HasBindingState(PlanOf(c).binding)
  /\ IF bindings[PlanOf(c).binding].version = PlanOf(c).version
       THEN call' = [call EXCEPT ![c].at = "reread",
                                 ![c].version = PlanOf(c).version,
                                 ![c].doc = BaselineOf(PlanOf(c).binding)]
       ELSE Goto(c, "fail")
  /\ UNCHANGED <<storeVars, owuVars>>

\* The target must still be the verified baseline and what the plan expected.
TargetUntouched(c) ==
  LET actual == chats[TargetOf(c)] IN
  /\ actual = call[c].doc
  /\ actual = PlanOf(c).expected

Reread(c) ==
  /\ At(c, "reread")
  /\ \/ /\ TargetUntouched(c)
        /\ PlanOf(c).status = "no_change"
        /\ Goto(c, "no_change")
     \/ /\ TargetUntouched(c)
        /\ PlanOf(c).status # "no_change"
        /\ MatchesPlanned(BuildFrom(PlanOf(c).src, call[c].doc), PlanOf(c).desired)
        /\ Goto(c, "begin")
     \/ Goto(c, "fail")      \* the read failed or found a divergence
  /\ UNCHANGED <<storeVars, owuVars>>

\* Wrong: success without the time of verification.
FinishUnverified(c) ==
  /\ At(c, "no_change")
  /\ TransitionOperation(call[c].op, {"prepared"}, "succeeded",
       [NoPatch EXCEPT !.readback = FALSE])
  /\ Return(c)
  /\ UNCHANGED owuVars

FinishNoChange(c) ==
  /\ At(c, "no_change")
  /\ TransitionOperation(call[c].op, {"prepared"}, "succeeded",
       [NoPatch EXCEPT !.readback = FALSE, !.verified = TRUE])
  /\ Return(c)
  /\ UNCHANGED owuVars

Begin(c) ==
  /\ At(c, "begin")
  /\ TransitionOperation(call[c].op, {"prepared"}, "applying",
       [NoPatch EXCEPT !.readback = FALSE,
          !.target = IF OpOf(c).kind = "create" THEN None ELSE TargetOf(c)])
  /\ Goto(c, "post")
  /\ UNCHANGED owuVars

\* target.Create, target.Update: the write leaves the process.
Write(c) ==
  LET o == call[c].op
      create == ops[o].kind = "create"
      doc == IF create THEN BuildFresh(PlanOf(c).src)
                       ELSE BuildFrom(PlanOf(c).src, call[c].doc)
  IN  [op |-> o, target |-> IF create THEN None ELSE TargetOf(c),
       doc |-> Stamp(doc, o, create)]

Post(c) ==
  /\ At(c, "post")
  /\ wire' = wire \cup {Write(c)}
  /\ sent' = [sent EXCEPT ![call[c].op] = @ + 1]
  /\ call' = [call EXCEPT ![c].at = "await", ![c].doc = None]
  /\ UNCHANGED <<storeVars, chats, landed>>

\* writeJSON: a receipt proves the write landed; a refusal other than the
\* ambiguous ones proves it did not; anything else is unknown.
Await(c) ==
  LET mine == {r \in wire : r.op = call[c].op} IN
  /\ At(c, "await")
  /\ \/ /\ call[c].op \in landed
        /\ Goto(c, "receipt")
        /\ UNCHANGED wire
     \/ /\ call[c].op \notin landed
        /\ wire' = wire \ mine
        /\ Goto(c, "fail")
     \/ /\ Goto(c, "unknown")
        /\ UNCHANGED wire
  /\ UNCHANGED <<storeVars, chats, landed, sent>>

\* The chat the create receipt names.
CreatedChat(o) == CHOOSE t \in Chats : chats[t] # None /\ chats[t].by = o

RecordReceipt(c) ==
  LET o == call[c].op
      t == CreatedChat(o)
  IN  /\ At(c, "receipt")
      /\ TransitionOperation(o, {"applying"}, "verifying",
           IF OpOf(c).kind = "create"
             THEN [NoPatch EXCEPT !.target = t, !.receipt = t, !.readback = TRUE]
             ELSE [NoPatch EXCEPT !.receipt = o, !.readback = TRUE])
      /\ Goto(c, "readback")
      /\ UNCHANGED owuVars

\* The document that proves operation o took effect as planned.
Proves(doc, c) ==
  /\ HasOperationMarker(doc, call[c].op, OpOf(c).kind = "create")
  /\ MatchesPlanned(doc, PlanOf(c).desired)

Verified(c, doc, step) ==
  /\ Proves(doc, c)
  /\ call' = [call EXCEPT ![c].at = step, ![c].doc = doc]

Readback(c) ==
  /\ At(c, "readback")
  /\ OpOf(c).kind = "create" => TrustedCreateTarget(call[c].op)
  /\ \/ Verified(c, chats[OpOf(c).target], "finish")
     \/ Goto(c, "unknown")   \* the read failed or found something else
  /\ UNCHANGED <<storeVars, owuVars>>

\* finishCreate, finishUpdate
FinishCreate(c) ==
  /\ At(c, "finish")
  /\ OpOf(c).kind = "create"
  /\ \E b \in Bindings : ~Bound(b)
  /\ FinalizeVerifiedCreate(call[c].op, FreshBinding, OpOf(c).target, call[c].doc)
  /\ Return(c)
  /\ UNCHANGED owuVars

FinishUpdate(c) ==
  /\ At(c, "finish")
  /\ OpOf(c).kind = "update"
  /\ CompleteVerifiedUpdate(call[c].op, call[c].version, call[c].doc)
  /\ Return(c)
  /\ UNCHANGED owuVars

\* Wrong: an uncertain outcome is reported as a failure.
UnknownFails(c) ==
  /\ At(c, "unknown")
  /\ TransitionOperation(call[c].op, Unresolved, "failed",
       [NoPatch EXCEPT !.readback = FALSE])
  /\ Return(c)
  /\ UNCHANGED owuVars

\* unknownOperation, failOperation
MarkUnknown(c) ==
  /\ At(c, "unknown")
  /\ TransitionOperation(call[c].op, {"applying", "verifying", "needs_reconciliation"},
       "needs_reconciliation", [NoPatch EXCEPT !.readback = TRUE])
  /\ Return(c)
  /\ UNCHANGED owuVars

MarkFailed(c) ==
  /\ At(c, "fail")
  /\ TransitionOperation(call[c].op, Unresolved, "failed",
       [NoPatch EXCEPT !.readback = FALSE])
  /\ Return(c)
  /\ UNCHANGED owuVars

Execute(c) ==
  \/ LoadBinding(c) \/ Reread(c) \/ FinishNoChange(c)
  \/ Begin(c) \/ Post(c) \/ Await(c) \/ RecordReceipt(c) \/ Readback(c)
  \/ FinishCreate(c) \/ FinishUpdate(c) \/ MarkUnknown(c) \/ MarkFailed(c)

-------------------------------------------------------------------------------
(* Recover *)

\* A prepared operation was never sent: it is resumed, or failed when its plan
\* no longer holds.
StillValid(p) ==
  /\ Applicable(p)
  /\ plans[p].confirmed
  /\ plans[p].binding # None =>
       /\ HasBindingState(plans[p].binding)
       /\ bindings[plans[p].binding].version = plans[p].version

ResumeStep(o) == IF ops[o].kind = "create" THEN "begin" ELSE "load"

\* Wrong: the plan is validated before the status is looked at.
RecoveryExpires(o) ==
  CASE ~StillValid(ops[o].plan) -> "fail"
    [] ops[o].status = "prepared" /\ StillValid(ops[o].plan) -> ResumeStep(o)
    [] OTHER -> "reconcile"

RecoveryStep(o) ==
  CASE ops[o].status = "prepared" ->
         IF StillValid(ops[o].plan) THEN ResumeStep(o) ELSE "fail"
    [] ops[o].status \in {"applying", "verifying"} -> "interrupt"
    [] OTHER -> "reconcile"

\* A binding that cannot be read fails a prepared operation as a changed one does.
UnreadBinding(o) ==
  IF ops[o].status = "prepared" /\ plans[ops[o].plan].binding # None THEN {"fail"} ELSE {}

\* Wrong: an interrupted write is sent again.
RecoverResends(c, o) ==
  /\ At(c, "idle")
  /\ IsUnresolved(o)
  /\ call' = [call EXCEPT
       ![c].at = IF ops[o].status = "applying" THEN "post" ELSE RecoveryStep(o),
       ![c].plan = ops[o].plan, ![c].op = o, ![c].doc = plans[ops[o].plan].expected]
  /\ UNCHANGED <<storeVars, owuVars>>

RecoverStart(c, o) ==
  /\ At(c, "idle")
  /\ IsUnresolved(o)
  /\ \E step \in {RecoveryStep(o)} \cup UnreadBinding(o) :
       call' = [call EXCEPT ![c].at = step, ![c].plan = ops[o].plan, ![c].op = o]
  /\ UNCHANGED <<storeVars, owuVars>>

Interrupt(c) ==
  /\ At(c, "interrupt")
  /\ TransitionOperation(call[c].op, {"applying", "verifying"},
       "needs_reconciliation", [NoPatch EXCEPT !.readback = TRUE])
  /\ Goto(c, "reconcile")
  /\ UNCHANGED owuVars

\* reconcileCreate: without a recorded receipt nothing is ever read.
ReconcileCreate(c) ==
  /\ At(c, "reconcile")
  /\ OpOf(c).kind = "create"
  /\ TrustedCreateTarget(call[c].op)
  /\ \/ Verified(c, chats[OpOf(c).target], "resume")
     \/ /\ ~Proves(chats[OpOf(c).target], c)
        /\ Goto(c, "unknown")
  /\ UNCHANGED <<storeVars, owuVars>>

\* reconcileUpdate: anything but the planned result leaves the operation paused.
ReconcileUpdate(c) ==
  LET b == PlanOf(c).binding
      doc == chats[bindings[b].target]
  IN  /\ At(c, "reconcile")
      /\ OpOf(c).kind = "update"
      /\ HasBindingState(b)
      /\ Proves(doc, c)
      /\ call' = [call EXCEPT ![c].at = "resume", ![c].doc = doc,
                              ![c].version = bindings[b].version]
      /\ UNCHANGED <<storeVars, owuVars>>

Resume(c) ==
  /\ At(c, "resume")
  /\ TransitionOperation(call[c].op, {"needs_reconciliation"}, "verifying",
       [NoPatch EXCEPT !.readback = TRUE])
  /\ Goto(c, "finish")
  /\ UNCHANGED owuVars

Recover(c) ==
  \/ \E o \in Operations : RecoverStart(c, o)
  \/ Interrupt(c) \/ ReconcileCreate(c) \/ ReconcileUpdate(c) \/ Resume(c)

-------------------------------------------------------------------------------
(* What cuts a call short *)

\* A store or network error, a failed verifyDownstream or a cancelled context:
\* the call returns and leaves the operation as it is.
GiveUp(c) ==
  /\ ~At(c, "idle")
  /\ Return(c)
  /\ UNCHANGED <<storeVars, owuVars>>

\* The process stops, with or without a call inside, and the next one opens the
\* database.
Restart ==
  /\ RecoverInterrupted
  /\ call' = [c \in Callers |-> Idle]
  /\ UNCHANGED owuVars

-------------------------------------------------------------------------------
(* Open WebUI and its user *)

\* A create makes a new chat.
LandCreate(r) ==
  /\ r \in wire
  /\ r.target = None
  /\ \E t \in Chats : chats[t] = None
  /\ chats' = [chats EXCEPT ![CHOOSE t \in Chats : chats[t] = None] = r.doc]
  /\ wire' = wire \ {r}
  /\ landed' = landed \cup {r.op}
  /\ UNCHANGED <<storeVars, call, sent>>

\* An update replaces the document, or merges it with the messages a human has
\* added meanwhile.
LandUpdate(r) ==
  /\ r \in wire
  /\ r.target # None
  /\ \E edit \in {r.doc.edit, chats[r.target].edit} :
       chats' = [chats EXCEPT ![r.target] = [r.doc EXCEPT !.edit = edit]]
  /\ wire' = wire \ {r}
  /\ landed' = landed \cup {r.op}
  /\ UNCHANGED <<storeVars, call, sent>>

\* The user edits a chat in Open WebUI, or takes the edit back.
HumanEdit(t, edit) ==
  /\ chats[t] # None
  /\ chats[t].edit # edit
  /\ chats' = [chats EXCEPT ![t].edit = edit]
  /\ UNCHANGED <<storeVars, call, wire, landed, sent>>

PlanExpires(p) ==
  /\ p \notin expired
  /\ Expire(p)
  /\ UNCHANGED <<call, owuVars>>

Environment ==
  \/ \E r \in wire : LandCreate(r) \/ LandUpdate(r)
  \/ \E t \in Chats, edit \in Edits \cup {Pristine} : HumanEdit(t, edit)
  \/ \E p \in Plans : PlanExpires(p)
  \/ Restart

Next ==
  \/ \E c \in Callers : Preview(c) \/ Apply(c) \/ Execute(c) \/ Recover(c) \/ GiveUp(c)
  \/ Environment

Spec == Init /\ [][Next]_vars

-------------------------------------------------------------------------------
(* Properties of any number of calls *)

\* Every call and every request has its own shape.
ServiceTypeOK ==
  /\ StoreTypeOK
  /\ call \in [Callers -> CallRow]
  /\ chats \in [Chats -> Docs \cup {None}]
  /\ wire \subseteq Requests
  /\ landed \subseteq Operations
  /\ sent \in [Operations -> Nat]

\* "Recover never retries an uncertain write": over its whole life, through
\* restarts, recoveries and racing calls, an operation is sent at most once, and
\* only after the attempt was made durable.
SentOnceAfterRecorded ==
  \A o \in Operations :
    /\ sent[o] <= 1
    /\ sent[o] = 1 => ops[o].attempts = 1 /\ ops[o].status \notin {"absent", "prepared"}

\* However often a share is previewed, applied, retried and recovered, at most
\* one chat is ever made from it.
OneChatPerShare ==
  \A t1, t2 \in Chats :
    t1 # t2 /\ chats[t1] # None /\ chats[t2] # None =>
      intents[chats[t1].by].share # intents[chats[t2].by].share

\* A binding names a chat its own create made, and no two bindings name the same
\* one: the gate never adopts a chat.
BindingsOwnTheirChat ==
  \A b \in Bindings : Bound(b) =>
    /\ chats[bindings[b].target].by = bindings[b].creator
    /\ \A other \in Bindings :
         Bound(other) /\ bindings[other].target = bindings[b].target => other = b

\* The baseline the next preview is compared with is a document the gate wrote
\* itself, untouched by a human, with the content of the source it records and
\* the receipt marker of the operation that installed it.
BaselineIsOwnWrite ==
  \A o \in Operations : baselines[o].version > 0 =>
    LET base == baselines[o] IN
    /\ base.doc.last = o
    /\ base.doc.by = bindings[base.binding].creator
    /\ base.doc.edit = Pristine
    /\ base.doc.messages = base.src.messages
    /\ base.doc.text = base.src.text

\* An operation reported as succeeded was verified: its write landed and its
\* result is a version of the binding, or it planned no change and nothing was
\* ever sent.
SucceededIsVerified ==
  \A o \in Operations : ops[o].status = "succeeded" =>
    /\ ops[o].verified
    /\ IF plans[ops[o].plan].status = "no_change"
         THEN sent[o] = 0 /\ baselines[o].version = 0
         ELSE o \in landed /\ baselines[o].version = plans[ops[o].plan].version + 1

-------------------------------------------------------------------------------
(* Properties of one call at a time *)

\* A write that may still land belongs to an operation that still holds its
\* lock, so nothing else is planned against or sent to that chat meanwhile.
OutstandingHoldsLock == \A r \in wire : IsUnresolved(r.op)

\* An operation reported as failed left no trace in Open WebUI and never will.
FailedLeftNoTrace ==
  \A o \in Operations : ops[o].status = "failed" =>
    o \notin landed /\ \A r \in wire : r.op # o

\* The gate writes a chat only from the document it last verified: when an
\* update lands, the chat it replaces is the baseline of the plan, apart from
\* what a human did to it since the reread.
UpdatesReplaceTheBaseline ==
  [][\A t \in Chats : \A r \in wire \ wire' :
       r.target = t /\ chats'[t] # chats[t] =>
         [chats[t] EXCEPT !.edit = Pristine] = plans[ops[r.op].plan].expected]_vars

-------------------------------------------------------------------------------
(* The promise: one call at a time implements WriteOnce *)

IntentOf(o) ==
  CASE ops[o].status = "absent"    -> "none"
    [] ops[o].status \in Unresolved -> "open"
    [] ops[o].status = "succeeded" -> "ok"
    [] ops[o].status = "failed"    -> "failed"

WriteOf(o) ==
  IF o \in landed THEN "in"
  ELSE IF \E r \in wire : r.op = o THEN "out"
  ELSE IF sent[o] = 0 THEN "unsent" ELSE "refused"

Promise == INSTANCE WriteOnce WITH
  Intents <- Operations, Resources <- Locks,
  intent <- [o \in Operations |-> IntentOf(o)],
  write <- [o \in Operations |-> WriteOf(o)],
  holds <- [o \in Operations |-> ops[o].lock]

\* Through crashes, recoveries, lost answers and late writes, the operations
\* table and Open WebUI together behave as WriteOnce says.
ImplementsWriteOnce == Promise!WriteSpec

-------------------------------------------------------------------------------
(* Progress *)

\* Every exchange has a timeout, so a call that is inside returns; an operator
\* who is told to "check recovery again" does, and no recovery is cut short at
\* the same step for ever.
Fairness ==
  \A c \in Callers :
    /\ WF_vars(~At(c, "idle") /\ (Preview(c) \/ Apply(c) \/ Execute(c)
                                  \/ Recover(c) \/ GiveUp(c)))
    /\ \A o \in Operations : SF_vars(RecoverStart(c, o))
    /\ SF_vars(Interrupt(c))
    /\ SF_vars(ReconcileCreate(c))
    /\ SF_vars(ReconcileUpdate(c))
    /\ SF_vars(Resume(c))
    /\ SF_vars(FinishCreate(c))
    /\ SF_vars(FinishUpdate(c))

FairSpec == Spec /\ Fairness

\* An operation whose write landed is settled by recovery, whatever the
\* interruption lost, provided the gate can find the chat: always for an update,
\* once the receipt is recorded for a create.
LandedWritesSettle ==
  \A o \in Operations :
    o \in landed /\ IsUnresolved(o) /\ (ops[o].kind = "update" \/ ops[o].receipt # None)
      ~> ops[o].status = "succeeded"

-------------------------------------------------------------------------------
(* What a failed operation tells its user to do *)

\* "create a fresh preview after correcting the reported condition"
\* (service.go:616): a plan previewed as applicable after a failure is one that
\* Apply can execute, not one whose key still belongs to the failed operation.
FreshPreviewCanBeApplied ==
  [][\A p \in Plans :
       plans[p] = None /\ plans'[p] # None /\ plans'[p].status \in {"ready", "no_change"} =>
         \A o \in Holders(KeyOf(plans'[p])) : ops[o].status # "failed"]_vars

===============================================================================
