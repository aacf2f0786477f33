------------------------------- MODULE GateStore -------------------------------
(* The durable store (internal/storage): one SQLite database, every method one
   transaction under the Store mutex, so one action per method.  A method that
   returns an error commits nothing, which is a step that changes nothing.
   A definition whose comment begins with "Wrong" is not used: it is a plausible
   mistake in the definition below it, kept to show which property notices.

   StoreSpec lets ANY client call the methods, in any order and with any of the
   requests below; SyncService is one such client.                            *)
EXTENDS GateData

CONSTANTS
  Keys,        \* idempotency keys (digests)
  Payloads,    \* semantic payload hashes
  PlanInputs,  \* plans a client may save
  DocInputs,   \* documents a client may claim to have verified
  PatchInputs  \* what a client may record with a transition

VARIABLES
  sources,     \* table source_snapshots
  plans,       \* table sync_plans
  expired,     \* the plans whose expires_at has passed (the clock)
  ops,         \* table operations
  intents,     \* table creation_intents: operation -> source
  bindings,    \* table bindings
  allow,       \* table target_allowlist: chat -> row
  baselines,   \* table target_baselines: operation -> row
  mapped       \* table message_mappings: binding -> source message ids

planVars == <<sources, plans, expired>>
bindingVars == <<intents, bindings, allow, baselines, mapped>>
storeVars == <<sources, plans, expired, ops, intents, bindings, allow,
               baselines, mapped>>

Unresolved == {"prepared", "applying", "verifying", "needs_reconciliation"}
Terminal == {"succeeded", "failed"}
Statuses == Unresolved \cup Terminal
Kinds == {"create", "update", "archive"}
Receipts == Chats \cup Operations \cup {None}

OpRow ==
  [status: Statuses \cup {"absent"}, kind: Kinds, key: Keys \cup {None},
   binding: Bindings \cup {None}, lock: Locks \cup {None},
   plan: Plans \cup {None}, payload: Payloads \cup {None},
   attempts: Nat, readback: BOOLEAN, receipt: Receipts,
   target: Chats \cup {None}, verified: BOOLEAN]

NoOperation ==
  [status |-> "absent", kind |-> "create", key |-> None, binding |-> None,
   lock |-> None, plan |-> None, payload |-> None, attempts |-> 0,
   readback |-> FALSE, receipt |-> None, target |-> None, verified |-> FALSE]

BindingRow == [version: Nat, target: Chats \cup {None}, src: Sources \cup {None},
               creator: Operations \cup {None}]
NoBinding == [version |-> 0, target |-> None, src |-> None, creator |-> None]

AllowRow == [binding: Bindings, creator: Operations]

\* None stands for the absent row.
ASSUME RowsAssumption == None \notin AllowRow

\* Version 0 is no baseline.
BaselineRow == [binding: Bindings \cup {None}, version: Nat,
                src: Sources \cup {None}, doc: Docs \cup {None}]
NoBaseline == [binding |-> None, version |-> 0, src |-> None, doc |-> None]

StoreInit ==
  /\ sources = {}
  /\ plans = [p \in Plans |-> None]
  /\ expired = {}
  /\ ops = [o \in Operations |-> NoOperation]
  /\ intents = [o \in Operations |-> None]
  /\ bindings = [b \in Bindings |-> NoBinding]
  /\ allow = [t \in Chats |-> None]
  /\ baselines = [o \in Operations |-> NoBaseline]
  /\ mapped = [b \in Bindings |-> {}]

-------------------------------------------------------------------------------
(* Reads *)

Present(o) == ops[o].status # "absent"
IsUnresolved(o) == ops[o].status \in Unresolved
Bound(b) == bindings[b].version > 0

\* getOperationByIdempotency
Holders(key) == {o \in Operations : Present(o) /\ ops[o].key = key}

\* validateAllowedBinding: the evidence chain behind a binding.
Allowed(b) ==
  LET t == bindings[b].target
      o == bindings[b].creator
  IN  /\ Bound(b)
      /\ t \in Chats
      /\ o \in Operations
      /\ allow[t] = [binding |-> b, creator |-> o]
      /\ intents[o] # None
      /\ ops[o].kind = "create"
      /\ ops[o].status = "succeeded"
      /\ ops[o].binding = b
      /\ ops[o].target = t
      /\ ops[o].receipt # None

\* getTargetBaseline
BaselinesAt(b, v) ==
  {o \in Operations : baselines[o].version = v /\ baselines[o].binding = b}
BaselineOf(b) ==
  baselines[CHOOSE o \in Operations : o \in BaselinesAt(b, bindings[b].version)].doc

\* GetBindingState answers only for an allowed binding with its baseline.
HasBindingState(b) ==
  Allowed(b) /\ BaselinesAt(b, bindings[b].version) # {}

\* GetTrustedCreateTarget
TrustedCreateTarget(o) ==
  /\ ops[o].kind = "create"
  /\ ops[o].status \in {"verifying", "needs_reconciliation"}
  /\ ops[o].target \in Chats
  /\ ops[o].receipt = ops[o].target
  /\ intents[o] # None
  /\ ops[o].plan \in Plans
  /\ plans[ops[o].plan] # None
  /\ intents[o] = plans[ops[o].plan].src
  /\ allow[ops[o].target] = None

\* validateExecutablePlan
Executable(p) == p \notin expired /\ plans[p].confirmed

\* Wrong: a paused operation no longer blocks.
LockFreeOfWriters(lock) ==
  \A o \in Operations :
    ~(ops[o].status \in {"prepared", "applying", "verifying"} /\ ops[o].lock = lock)

LockFree(lock) ==
  \A o \in Operations : ~(IsUnresolved(o) /\ ops[o].lock = lock)

-------------------------------------------------------------------------------
(* Plans and sources *)

PutSourceSnapshot(s) ==
  /\ sources' = sources \cup {s}
  /\ UNCHANGED <<plans, expired, ops, bindingVars>>

SavePlan(p, row) ==
  /\ plans[p] = None
  /\ row.src \in sources
  /\ row.prev # None => row.prev \in sources
  /\ plans' = [plans EXCEPT ![p] = [row EXCEPT !.confirmed = FALSE]]
  /\ UNCHANGED <<sources, expired, ops, bindingVars>>

ConfirmPlan(p) ==
  /\ plans[p] # None
  /\ p \notin expired
  /\ IF plans[p].binding = None
       THEN plans[p].version = 0
       ELSE bindings[plans[p].binding].version = plans[p].version
            /\ Bound(plans[p].binding)
  /\ plans' = [plans EXCEPT ![p].confirmed = TRUE]
  /\ UNCHANGED <<sources, expired, ops, bindingVars>>

\* Time passes the plan's expires_at.
Expire(p) ==
  /\ plans[p] # None
  /\ expired' = expired \cup {p}
  /\ UNCHANGED <<sources, plans, ops, bindingVars>>

-------------------------------------------------------------------------------
(* Operations *)

\* insertPreparedOperation
Prepared(key, kind, b, lock, p, payload) ==
  [NoOperation EXCEPT !.status = "prepared", !.kind = kind, !.key = key,
     !.binding = b, !.lock = lock, !.plan = p, !.payload = payload]

\* Wrong: only the idempotency key and the lock protect a share.
AliasIgnored(s) == TRUE

\* creation_intents.source_alias is unique.
AliasFree(s) ==
  \A other \in Operations :
    intents[other] # None => intents[other].share # s.share

PrepareCreate(o, p, key, payload) ==
  /\ ~Present(o)
  /\ Holders(key) = {}
  /\ plans[p] # None
  /\ plans[p].binding = None
  /\ plans[p].version = 0
  /\ Executable(p)
  /\ plans[p].src \in sources
  /\ AliasFree(plans[p].src)
  /\ LockFree(CreateLock(plans[p].src))
  /\ ops' = [ops EXCEPT ![o] =
       Prepared(key, "create", None, CreateLock(plans[p].src), p, payload)]
  /\ intents' = [intents EXCEPT ![o] = plans[p].src]
  /\ UNCHANGED <<planVars, bindings, allow, baselines, mapped>>

PrepareBindingOperation(o, p, b, kind, key, payload) ==
  /\ kind \in {"update", "archive"}
  /\ ~Present(o)
  /\ Holders(key) = {}
  /\ Allowed(b)
  /\ plans[p] # None
  /\ plans[p].binding = b
  /\ Executable(p)
  /\ bindings[b].version = plans[p].version
  /\ \E base \in BaselinesAt(b, bindings[b].version) :
       plans[p].expected \in {None, baselines[base].doc}
  /\ LockFree(BindingLock(b))
  /\ ops' = [ops EXCEPT ![o] =
       Prepared(key, kind, b, BindingLock(b), p, payload)]
  /\ UNCHANGED <<planVars, bindingVars>>

Transitions ==
  [absent               |-> {},
   prepared             |-> {"applying", "succeeded", "failed"},
   applying             |-> {"verifying", "needs_reconciliation", "failed"},
   verifying            |-> {"succeeded", "needs_reconciliation", "failed"},
   needs_reconciliation |-> {"needs_reconciliation", "verifying", "failed"},
   succeeded            |-> {},
   failed               |-> {}]

\* Wrong: a finished operation can still be failed.
TransitionReopens(from) == Transitions[from] \cup {"failed"}

\* Wrong: a paused operation can only be failed.
TransitionAbandons(from) ==
  IF from = "needs_reconciliation" THEN {"needs_reconciliation", "failed"}
                                   ELSE Transitions[from]

TransitionAllowed(from) == Transitions[from]

Patch == [target: Chats \cup {None}, receipt: Receipts,
          readback: BOOLEAN \cup {None}, verified: BOOLEAN]
NoPatch == [target |-> None, receipt |-> None, readback |-> None,
            verified |-> FALSE]

\* The write-once columns: an empty patch keeps them, a different value is
\* ErrImmutableConflict.
Recordable(old, new) == new # None => old \in {None, new}
\* Wrong: an empty patch erases.
Overwritten(old, new) == new

Recorded(old, new) == IF new = None THEN old ELSE new

Transitioned(row, next, patch) ==
  [row EXCEPT
     !.status = next,
     !.target = Recorded(@, patch.target),
     !.receipt = Recorded(@, patch.receipt),
     !.readback = IF next = "needs_reconciliation" THEN TRUE
                                                   ELSE Recorded(@, patch.readback),
     !.verified = @ \/ patch.verified,
     !.attempts = IF next = "applying" THEN @ + 1 ELSE @]

\* Wrong: the status the caller saw is trusted.
MayTransitionBlindly(o, expected, next) == Present(o)

MayTransition(o, expected, next) ==
  /\ ops[o].status \in expected
  /\ next \in TransitionAllowed(ops[o].status)

TransitionOperation(o, expected, next, patch) ==
  /\ MayTransition(o, expected, next)
  /\ Recordable(ops[o].target, patch.target)
  /\ Recordable(ops[o].receipt, patch.receipt)
  /\ ops[o].kind = "create" /\ next = "verifying"
       => Recorded(ops[o].target, patch.target) # None
  /\ ops' = [ops EXCEPT ![o] = Transitioned(@, next, patch)]
  /\ UNCHANGED <<planVars, bindingVars>>

\* Wrong: everything that did not succeed is reopened.
UnlessSucceeded(o) == ops[o].status \notin {"absent", "prepared", "succeeded"}

WasWriting(o) == ops[o].status \in {"applying", "verifying"}

\* Open of the next process: whatever was being written is now uncertain.
RecoverInterrupted ==
  /\ ops' = [o \in Operations |->
       IF WasWriting(o)
         THEN [ops[o] EXCEPT !.status = "needs_reconciliation", !.readback = TRUE]
         ELSE ops[o]]
  /\ UNCHANGED <<planVars, bindingVars>>

-------------------------------------------------------------------------------
(* Verified results *)

\* Wrong: a paused operation may be completed as well.
ExpectsAnyResult(o, kind) ==
  ops[o].kind = kind /\ ops[o].status \in {"verifying", "needs_reconciliation"}

ExpectsResult(o, kind) == ops[o].kind = kind /\ ops[o].status = "verifying"

\* The unique columns of bindings.
BindingFree(o, b, t) ==
  /\ ~Bound(b)
  /\ \A other \in Bindings :
       Bound(other) => bindings[other].target # t /\ bindings[other].creator # o

\* Wrong: the mappings of the first version are kept.
MappingsKept(b, doc) == UNCHANGED mapped

ReplaceMappings(b, doc) == mapped' = [mapped EXCEPT ![b] = doc.messages]

FinalizeVerifiedCreate(o, b, t, doc) ==
  /\ ExpectsResult(o, "create")
  /\ ops[o].target = t
  /\ ops[o].receipt # None
  /\ intents[o] # None
  /\ doc.messages \subseteq intents[o].messages
  /\ BindingFree(o, b, t)
  /\ allow[t] = None
  /\ baselines[o].version = 0
  /\ bindings' = [bindings EXCEPT ![b] =
       [version |-> 1, target |-> t, src |-> intents[o], creator |-> o]]
  /\ allow' = [allow EXCEPT ![t] = [binding |-> b, creator |-> o]]
  /\ ReplaceMappings(b, doc)
  /\ baselines' = [baselines EXCEPT ![o] =
       [binding |-> b, version |-> 1, src |-> intents[o], doc |-> doc]]
  /\ ops' = [ops EXCEPT ![o].status = "succeeded", ![o].binding = b,
                        ![o].readback = FALSE, ![o].verified = TRUE]
  /\ UNCHANGED <<planVars, intents>>

CompleteVerifiedUpdate(o, version, doc) ==
  LET b == ops[o].binding
      p == ops[o].plan
  IN  /\ ExpectsResult(o, "update")
      /\ b \in Bindings
      /\ Allowed(b)
      /\ bindings[b].version = version
      /\ p \in Plans
      /\ plans[p] # None
      /\ plans[p].binding = b
      /\ plans[p].version = version
      /\ doc.messages \subseteq plans[p].src.messages
      /\ baselines[o].version = 0
      /\ BaselinesAt(b, version + 1) = {}
      /\ bindings' = [bindings EXCEPT ![b].version = version + 1,
                                      ![b].src = plans[p].src]
      /\ ReplaceMappings(b, doc)
      /\ baselines' = [baselines EXCEPT ![o] =
           [binding |-> b, version |-> version + 1, src |-> plans[p].src,
            doc |-> doc]]
      /\ ops' = [ops EXCEPT ![o].status = "succeeded", ![o].readback = FALSE,
                            ![o].verified = TRUE]
      /\ UNCHANGED <<planVars, intents, allow>>

-------------------------------------------------------------------------------
(* Any client *)

ASSUME InputsAssumption ==
  PlanInputs \subseteq PlanRow /\ DocInputs \subseteq Docs /\ PatchInputs \subseteq Patch

SomePlanCall ==
  \/ \E s \in Sources : PutSourceSnapshot(s)
  \/ \E p \in Plans, row \in PlanInputs : SavePlan(p, row)
  \/ \E p \in Plans : ConfirmPlan(p) \/ Expire(p)

SomePrepare ==
  \E o \in Operations, p \in Plans, key \in Keys, payload \in Payloads :
    \/ PrepareCreate(o, p, key, payload)
    \/ \E b \in Bindings, kind \in Kinds :
         PrepareBindingOperation(o, p, b, kind, key, payload)

SomeTransition ==
  \E o \in Operations, next \in Statuses, patch \in PatchInputs :
    TransitionOperation(o, Statuses, next, patch)

SomeResult ==
  \E o \in Operations, doc \in DocInputs :
    \/ \E b \in Bindings, t \in Chats : FinalizeVerifiedCreate(o, b, t, doc)
    \/ \E b \in Bindings : CompleteVerifiedUpdate(o, bindings[b].version, doc)

StoreNext ==
  SomePlanCall \/ SomePrepare \/ SomeTransition \/ SomeResult \/ RecoverInterrupted

StoreSpec == StoreInit /\ [][StoreNext]_storeVars
-------------------------------------------------------------------------------
(* Properties *)

\* Every table holds rows of its own shape.
StoreTypeOK ==
  /\ sources \subseteq Sources
  /\ plans \in [Plans -> PlanRow \cup {None}]
  /\ expired \subseteq Plans
  /\ ops \in [Operations -> OpRow]
  /\ intents \in [Operations -> Sources \cup {None}]
  /\ bindings \in [Bindings -> BindingRow]
  /\ allow \in [Chats -> AllowRow \cup {None}]
  /\ baselines \in [Operations -> BaselineRow]
  /\ mapped \in [Bindings -> SUBSET Messages]

\* The index one_unresolved_operation_per_lock: two operations that may still
\* write never hold the same lock, whatever happened to either since it was
\* prepared (TransitionOperation, RecoverInterrupted, insertPreparedOperation).
OneUnresolvedPerLock ==
  \A o1, o2 \in Operations :
    o1 # o2 /\ IsUnresolved(o1) /\ IsUnresolved(o2) => ops[o1].lock # ops[o2].lock

\* An installed binding never loses the evidence validateAllowedBinding asks
\* for: its creating operation stays the succeeded create of exactly that chat
\* and binding, so no later call can strand a binding.
EvidenceKept == \A b \in Bindings : Bound(b) => Allowed(b)

\* An allowlist row is only there for the binding that was installed with it.
AllowlistIsBacked ==
  \A t \in Chats : allow[t] # None =>
    /\ Bound(allow[t].binding)
    /\ bindings[allow[t].binding].target = t
    /\ bindings[allow[t].binding].creator = allow[t].creator

\* target_baselines is the history of every binding: one row per version up to
\* the current one and none beyond, the current row agreeing with the binding's
\* source and message mappings (FinalizeVerifiedCreate, CompleteVerifiedUpdate,
\* replaceMappings).
BaselineHistory ==
  \A b \in Bindings :
    /\ \A v \in 1 .. bindings[b].version : \E o \in Operations : BaselinesAt(b, v) = {o}
    /\ \A o \in Operations :
         baselines[o].binding = b =>
           /\ baselines[o].version \in 1 .. bindings[b].version
           /\ baselines[o].version = bindings[b].version =>
                /\ baselines[o].src = bindings[b].src
                /\ baselines[o].doc.messages = mapped[b]

\* A share is claimed by at most one create for ever, failed ones included, so
\* two bindings never come from the same share (creation_intents.source_alias).
ShareClaimedOnce ==
  \A o1, o2 \in Operations :
    o1 # o2 /\ intents[o1] # None /\ intents[o2] # None
      => intents[o1].share # intents[o2].share

\* A resolved operation is never written again (transitionAllowed, the status
\* guards of the finalizers and of RecoverInterrupted).
TerminalIsFinal ==
  [][\A o \in Operations : ops[o].status \in Terminal => ops'[o] = ops[o]]_storeVars

\* A binding's chat and creator never change, and its version moves by one,
\* only together with the success of an update that was preparing on it.
VersionStep ==
  [][\A b \in Bindings : Bound(b) /\ bindings'[b] # bindings[b] =>
       /\ bindings'[b].version = bindings[b].version + 1
       /\ bindings'[b].target = bindings[b].target
       /\ bindings'[b].creator = bindings[b].creator
       /\ \E o \in Operations :
            /\ ops[o].binding = b /\ ops[o].status = "verifying"
            /\ ops'[o].status = "succeeded"
            /\ plans[ops[o].plan].version = bindings[b].version]_storeVars
===============================================================================
