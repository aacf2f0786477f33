--------------------------- MODULE SyncServiceProofs ---------------------------
(* What the store and the sync engine keep true.

   First the store, for any client, any number of operations, plans, bindings,
   chats and shares, and any requests of the right shape.  The lemmas are about
   AnyCall, a call with any well-formed request, so that they hold for every
   client: for StoreSpec, whose requests are constants, and for the engine,
   which makes its own.

   Then the engine, for any number of calls inside it and for any content: the
   inductive invariant, and the theorems that follow from it.

   Last, what holds when one call at a time is inside the engine, which the
   connector's mutex and the exclusive database lock see to: a write that may
   still land keeps its lock, a failed operation left no trace, an update
   replaces the document its plan expected, and the whole implements WriteOnce. *)
EXTENDS SyncService, TLAPS

-------------------------------------------------------------------------------
(* Any well-formed call *)

AnyPlanCall ==
  \/ \E s \in Sources : PutSourceSnapshot(s)
  \/ \E p \in Plans, row \in PlanRow : SavePlan(p, row)
  \/ \E p \in Plans : ConfirmPlan(p) \/ Expire(p)

AnyPrepare ==
  \E o \in Operations, p \in Plans, key \in Keys, payload \in Payloads :
    \/ PrepareCreate(o, p, key, payload)
    \/ \E b \in Bindings, kind \in Kinds :
         PrepareBindingOperation(o, p, b, kind, key, payload)

AnyTransition ==
  \E o \in Operations, next \in Statuses, patch \in Patch :
    TransitionOperation(o, Statuses, next, patch)

AnyResult ==
  \E o \in Operations, doc \in Docs :
    \/ \E b \in Bindings, t \in Chats : FinalizeVerifiedCreate(o, b, t, doc)
    \/ \E version \in Nat : CompleteVerifiedUpdate(o, version, doc)

AnyCall == AnyPlanCall \/ AnyPrepare \/ AnyTransition \/ AnyResult \/ RecoverInterrupted

\* The requests of StoreSpec are well-formed.
LEMMA StoreCallsAreCalls ==
  StoreTypeOK /\ [StoreNext]_storeVars => [AnyCall]_storeVars
<1> SUFFICES ASSUME StoreTypeOK, StoreNext
             PROVE  AnyCall
  OBVIOUS
<1>1. CASE SomePlanCall
  BY <1>1, InputsAssumption DEF SomePlanCall, AnyPlanCall, AnyCall
<1>2. CASE SomePrepare
  BY <1>2 DEF SomePrepare, AnyPrepare, AnyCall
<1>3. CASE SomeTransition
  BY <1>3, InputsAssumption DEF SomeTransition, AnyTransition, AnyCall
<1>4. CASE SomeResult
  <2>1. \A b \in Bindings : bindings[b].version \in Nat
    BY DEF StoreTypeOK, BindingRow
  <2> QED
    BY <1>4, <2>1, InputsAssumption DEF SomeResult, AnyResult, AnyCall
<1>5. CASE RecoverInterrupted
  BY <1>5 DEF AnyCall
<1> QED
  BY <1>1, <1>2, <1>3, <1>4, <1>5 DEF StoreNext

-------------------------------------------------------------------------------
(* Types *)

\* Replacing columns by values of their own type leaves a row.
LEMMA RowUpdated ==
  ASSUME NEW row \in OpRow, NEW status \in Statuses,
         NEW target \in Chats \cup {None}, NEW receipt \in Receipts,
         NEW readback \in BOOLEAN, NEW verified \in BOOLEAN, NEW attempts \in Nat
  PROVE  [row EXCEPT !.status = status, !.target = target, !.receipt = receipt,
                     !.readback = readback, !.verified = verified,
                     !.attempts = attempts] \in OpRow
BY DEF OpRow

\* The rows the finalizers leave.
LEMMA RowCreated ==
  ASSUME NEW row \in OpRow, NEW b \in Bindings
  PROVE  [row EXCEPT !.status = "succeeded", !.binding = b, !.readback = FALSE,
                     !.verified = TRUE] \in OpRow
BY DEF OpRow, Statuses, Terminal

LEMMA RowCompleted ==
  ASSUME NEW row \in OpRow
  PROVE  [row EXCEPT !.status = "succeeded", !.readback = FALSE,
                     !.verified = TRUE] \in OpRow
BY DEF OpRow, Statuses, Terminal

\* The row RecoverInterrupted leaves of an interrupted operation.
LEMMA RowInterrupted ==
  ASSUME NEW row \in OpRow
  PROVE  [row EXCEPT !.status = "needs_reconciliation", !.readback = TRUE] \in OpRow
BY DEF OpRow, Statuses, Unresolved

\* What a transition leaves of a row is a row: the write-once columns keep the
\* old value or take the patch's (TransitionOperation's UPDATE).
LEMMA TransitionedType ==
  ASSUME NEW row \in OpRow, NEW next \in Statuses, NEW patch \in Patch
  PROVE  Transitioned(row, next, patch) \in OpRow
<1> DEFINE target == Recorded(row.target, patch.target)
           receipt == Recorded(row.receipt, patch.receipt)
           attempts == IF next = "applying" THEN row.attempts + 1 ELSE row.attempts
           readback == IF next = "needs_reconciliation" THEN TRUE
                       ELSE Recorded(row.readback, patch.readback)
           verified == row.verified \/ patch.verified
<1>1. target \in Chats \cup {None} /\ receipt \in Receipts
  BY DEF Recorded, OpRow, Patch
<1>2. readback \in BOOLEAN
  BY DEF Recorded, OpRow, Patch
<1>3. verified \in BOOLEAN
  OBVIOUS
<1>4. attempts \in Nat
  BY DEF OpRow
<1>5. Transitioned(row, next, patch) =
        [row EXCEPT !.status = next, !.target = target, !.receipt = receipt,
                    !.readback = readback, !.verified = verified,
                    !.attempts = attempts]
  BY Zenon DEF Transitioned
<1> HIDE DEF target, receipt, readback, verified, attempts
<1>6. [row EXCEPT !.status = next, !.target = target, !.receipt = receipt,
                    !.readback = readback, !.verified = verified,
                    !.attempts = attempts] \in OpRow
  BY <1>1, <1>2, <1>3, <1>4, RowUpdated, Zenon
<1> QED
  BY <1>5, <1>6, Zenon

\* A prepared row is a row.
LEMMA PreparedType ==
  ASSUME NEW key \in Keys, NEW kind \in Kinds, NEW b \in Bindings \cup {None},
         NEW lock \in Locks, NEW p \in Plans, NEW payload \in Payloads
  PROVE  Prepared(key, kind, b, lock, p, payload) \in OpRow
BY DEF Prepared, NoOperation, OpRow, Statuses, Unresolved, Receipts, Kinds

\* The initial tables are well formed.
LEMMA InitTypeCorrect == StoreInit => StoreTypeOK
BY DEF StoreInit, StoreTypeOK, NoOperation, OpRow, Statuses, Unresolved, Kinds,
       Receipts, NoBinding, BindingRow, NoBaseline, BaselineRow

LEMMA PlanCallType ==
  ASSUME StoreTypeOK, AnyPlanCall
  PROVE  StoreTypeOK'
<1>1. CASE \E s \in Sources : PutSourceSnapshot(s)
  BY <1>1 DEF StoreTypeOK, PutSourceSnapshot, bindingVars
<1>2. CASE \E p \in Plans, row \in PlanRow : SavePlan(p, row)
  <2>1. PICK p \in Plans, row \in PlanRow : SavePlan(p, row)
    BY <1>2
  <2>2. [row EXCEPT !.confirmed = FALSE] \in PlanRow
    BY DEF PlanRow
  <2> QED
    BY <2>1, <2>2 DEF StoreTypeOK, SavePlan, bindingVars
<1>3. CASE \E p \in Plans : ConfirmPlan(p) \/ Expire(p)
  <2>1. PICK p \in Plans : ConfirmPlan(p) \/ Expire(p)
    BY <1>3
  <2>2. CASE ConfirmPlan(p)
    <3>1. plans[p] \in PlanRow
      BY <2>2 DEF StoreTypeOK, ConfirmPlan
    <3>2. [plans[p] EXCEPT !.confirmed = TRUE] \in PlanRow
      BY <3>1 DEF PlanRow
    <3>3. plans' = [plans EXCEPT ![p] = [plans[p] EXCEPT !.confirmed = TRUE]]
      BY <2>2 DEF ConfirmPlan
    <3> QED
      BY <2>2, <3>2, <3>3 DEF StoreTypeOK, ConfirmPlan, bindingVars
  <2>3. CASE Expire(p)
    BY <2>3 DEF StoreTypeOK, Expire, bindingVars
  <2> QED
    BY <2>1, <2>2, <2>3
<1> QED
  BY <1>1, <1>2, <1>3 DEF AnyPlanCall

LEMMA PrepareCreateType ==
  ASSUME StoreTypeOK, NEW o \in Operations, NEW p \in Plans, NEW key \in Keys,
         NEW payload \in Payloads, PrepareCreate(o, p, key, payload)
  PROVE  StoreTypeOK'
<1>1. plans[p] \in PlanRow
  BY DEF PrepareCreate, StoreTypeOK
<1>2. plans[p].src \in Sources /\ plans[p].src.share \in Shares
  BY <1>1, SourcesAssumption DEF PlanRow, SourceRow
<1>3. CreateLock(plans[p].src) \in Locks
  BY <1>2 DEF CreateLock, Locks
<1>4. Prepared(key, "create", None, CreateLock(plans[p].src), p, payload) \in OpRow
  BY <1>3, PreparedType DEF Kinds
<1> QED
  BY <1>2, <1>4 DEF PrepareCreate, StoreTypeOK, planVars

LEMMA PrepareBindingType ==
  ASSUME StoreTypeOK, NEW o \in Operations, NEW p \in Plans, NEW key \in Keys,
         NEW payload \in Payloads, NEW b \in Bindings, NEW kind \in Kinds,
         PrepareBindingOperation(o, p, b, kind, key, payload)
  PROVE  StoreTypeOK'
<1>1. BindingLock(b) \in Locks
  BY DEF BindingLock, Locks
<1>2. Prepared(key, kind, b, BindingLock(b), p, payload) \in OpRow
  BY <1>1, PreparedType
<1> QED
  BY <1>2 DEF PrepareBindingOperation, StoreTypeOK, planVars, bindingVars

LEMMA TransitionType ==
  ASSUME StoreTypeOK, NEW o \in Operations, NEW next \in Statuses,
         NEW patch \in Patch, TransitionOperation(o, Statuses, next, patch)
  PROVE  StoreTypeOK'
<1>1. Transitioned(ops[o], next, patch) \in OpRow
  BY TransitionedType DEF StoreTypeOK
<1>2. ops' = [ops EXCEPT ![o] = Transitioned(ops[o], next, patch)]
  BY DEF TransitionOperation
<1> QED
  BY <1>1, <1>2 DEF TransitionOperation, StoreTypeOK, planVars, bindingVars

LEMMA FinalizeType ==
  ASSUME StoreTypeOK, NEW o \in Operations, NEW doc \in Docs,
         NEW b \in Bindings, NEW t \in Chats, FinalizeVerifiedCreate(o, b, t, doc)
  PROVE  StoreTypeOK'
<1>1. doc.messages \subseteq Messages
  BY DEF Docs
<1>2. intents[o] \in Sources
  BY DEF FinalizeVerifiedCreate, StoreTypeOK
<1>3. bindings' \in [Bindings -> BindingRow]
  BY <1>2 DEF FinalizeVerifiedCreate, StoreTypeOK, BindingRow
<1>4. allow' \in [Chats -> AllowRow \cup {None}]
  BY DEF FinalizeVerifiedCreate, StoreTypeOK, AllowRow
<1>5. mapped' \in [Bindings -> SUBSET Messages]
  BY <1>1 DEF FinalizeVerifiedCreate, ReplaceMappings, StoreTypeOK
<1>6. baselines' \in [Operations -> BaselineRow]
  BY <1>1, <1>2 DEF FinalizeVerifiedCreate, StoreTypeOK, BaselineRow
<1>7. ops' = [ops EXCEPT ![o] = [ops[o] EXCEPT !.status = "succeeded", !.binding = b,
                                               !.readback = FALSE, !.verified = TRUE]]
  BY DEF FinalizeVerifiedCreate
<1>8. [ops[o] EXCEPT !.status = "succeeded", !.binding = b,
                     !.readback = FALSE, !.verified = TRUE] \in OpRow
  BY RowCreated DEF StoreTypeOK
<1>9. ops' \in [Operations -> OpRow]
  BY <1>7, <1>8 DEF StoreTypeOK
<1> QED
  BY <1>3, <1>4, <1>5, <1>6, <1>9 DEF FinalizeVerifiedCreate, StoreTypeOK, planVars

LEMMA CompleteType ==
  ASSUME StoreTypeOK, NEW o \in Operations, NEW doc \in Docs, NEW version \in Nat,
         CompleteVerifiedUpdate(o, version, doc)
  PROVE  StoreTypeOK'
<1> DEFINE b == ops[o].binding
           p == ops[o].plan
<1>1. doc.messages \subseteq Messages
  BY DEF Docs
<1>2. /\ b \in Bindings
      /\ p \in Plans
      /\ plans[p].src \in Sources
  BY DEF CompleteVerifiedUpdate, StoreTypeOK, PlanRow
<1>3. bindings' \in [Bindings -> BindingRow]
  BY <1>2 DEF CompleteVerifiedUpdate, StoreTypeOK, BindingRow
<1>4. mapped' \in [Bindings -> SUBSET Messages]
  BY <1>1, <1>2 DEF CompleteVerifiedUpdate, ReplaceMappings, StoreTypeOK
<1>5. baselines' \in [Operations -> BaselineRow]
  BY <1>1, <1>2 DEF CompleteVerifiedUpdate, StoreTypeOK, BaselineRow
<1>6. ops' = [ops EXCEPT ![o] = [ops[o] EXCEPT !.status = "succeeded",
                                               !.readback = FALSE, !.verified = TRUE]]
  BY DEF CompleteVerifiedUpdate
<1>7. [ops[o] EXCEPT !.status = "succeeded", !.readback = FALSE, !.verified = TRUE]
        \in OpRow
  BY RowCompleted DEF StoreTypeOK
<1>8. ops' \in [Operations -> OpRow]
  BY <1>6, <1>7 DEF StoreTypeOK
<1> QED
  BY <1>3, <1>4, <1>5, <1>8 DEF CompleteVerifiedUpdate, StoreTypeOK, planVars

LEMMA RecoverType ==
  ASSUME StoreTypeOK, RecoverInterrupted
  PROVE  StoreTypeOK'
<1>1. \A o \in Operations :
        [ops[o] EXCEPT !.status = "needs_reconciliation", !.readback = TRUE] \in OpRow
  BY RowInterrupted DEF StoreTypeOK
<1>2. ops' \in [Operations -> OpRow]
  BY <1>1 DEF RecoverInterrupted, StoreTypeOK
<1> QED
  BY <1>2 DEF RecoverInterrupted, StoreTypeOK, planVars, bindingVars

\* Every method of the store keeps every table well formed.
LEMMA StepTypeCorrect == StoreTypeOK /\ [AnyCall]_storeVars => StoreTypeOK'
<1> SUFFICES ASSUME StoreTypeOK, [AnyCall]_storeVars
             PROVE  StoreTypeOK'
  OBVIOUS
<1>1. CASE AnyPlanCall
  BY <1>1, PlanCallType
<1>2. CASE AnyPrepare
  BY <1>2, PrepareCreateType, PrepareBindingType DEF AnyPrepare
<1>3. CASE AnyTransition
  BY <1>3, TransitionType DEF AnyTransition
<1>4. CASE AnyResult
  BY <1>4, FinalizeType, CompleteType DEF AnyResult
<1>5. CASE RecoverInterrupted
  BY <1>5, RecoverType
<1>6. CASE UNCHANGED storeVars
  BY <1>6 DEF storeVars, StoreTypeOK
<1> QED
  BY <1>1, <1>2, <1>3, <1>4, <1>5, <1>6 DEF AnyCall

\* The store is type correct: every table keeps rows of its own shape.
THEOREM TypeCorrect == StoreSpec => []StoreTypeOK
BY InitTypeCorrect, StoreCallsAreCalls, StepTypeCorrect, PTL DEF StoreSpec

-------------------------------------------------------------------------------
(* What one step does to an operation *)

\* A present operation keeps its lock and kind, never becomes unresolved again,
\* and does not move at all once it is resolved.
Continues(o) ==
  /\ Present(o)'
  /\ ops'[o].lock = ops[o].lock
  /\ ops'[o].kind = ops[o].kind
  /\ intents'[o] = intents[o]
  /\ IsUnresolved(o)' => IsUnresolved(o)
  /\ ops[o].status \in Terminal => ops'[o] = ops[o]

\* An absent operation stays absent, or is prepared under a lock nobody held
\* while every other operation stays as it is.
Appears(o) ==
  \/ ~Present(o)'
  \/ /\ ops'[o].status = "prepared"
     /\ LockFree(ops'[o].lock)
     /\ \A other \in Operations : other # o => ops'[other] = ops[other]

LEMMA PrepareCreateSteps ==
  ASSUME StoreTypeOK, NEW q \in Operations, NEW p \in Plans, NEW key \in Keys,
         NEW payload \in Payloads, PrepareCreate(q, p, key, payload),
         NEW o \in Operations
  PROVE  IF Present(o) THEN Continues(o) ELSE Appears(o)
<1>1. CASE o = q
  <2>1. ops'[o] = Prepared(key, "create", None, CreateLock(plans[p].src), p, payload)
    BY <1>1 DEF PrepareCreate, StoreTypeOK
  <2>2. /\ ops'[o].status = "prepared"
        /\ ops'[o].lock = CreateLock(plans[p].src)
    BY <2>1 DEF Prepared, NoOperation
  <2>3. ~Present(o) /\ LockFree(CreateLock(plans[p].src))
    BY <1>1 DEF PrepareCreate
  <2>4. \A other \in Operations : other # o => ops'[other] = ops[other]
    BY <1>1 DEF PrepareCreate, StoreTypeOK
  <2> QED
    BY <2>2, <2>3, <2>4 DEF Appears
<1>2. CASE o # q
  <2>1. ops'[o] = ops[o] /\ intents'[o] = intents[o]
    BY <1>2 DEF PrepareCreate, StoreTypeOK
  <2> QED
    BY <2>1 DEF Continues, Appears, Present, IsUnresolved
<1> QED
  BY <1>1, <1>2

LEMMA PrepareBindingSteps ==
  ASSUME StoreTypeOK, NEW q \in Operations, NEW p \in Plans, NEW key \in Keys,
         NEW payload \in Payloads, NEW b \in Bindings, NEW kind \in Kinds,
         PrepareBindingOperation(q, p, b, kind, key, payload), NEW o \in Operations
  PROVE  IF Present(o) THEN Continues(o) ELSE Appears(o)
<1>1. CASE o = q
  <2>1. ops'[o] = Prepared(key, kind, b, BindingLock(b), p, payload)
    BY <1>1 DEF PrepareBindingOperation, StoreTypeOK
  <2>2. /\ ops'[o].status = "prepared"
        /\ ops'[o].lock = BindingLock(b)
    BY <2>1 DEF Prepared, NoOperation
  <2>3. ~Present(o) /\ LockFree(BindingLock(b))
    BY <1>1 DEF PrepareBindingOperation
  <2>4. \A other \in Operations : other # o => ops'[other] = ops[other]
    BY <1>1 DEF PrepareBindingOperation, StoreTypeOK
  <2> QED
    BY <2>2, <2>3, <2>4 DEF Appears
<1>2. CASE o # q
  <2>1. ops'[o] = ops[o] /\ intents'[o] = intents[o]
    BY <1>2 DEF PrepareBindingOperation, StoreTypeOK, bindingVars
  <2> QED
    BY <2>1 DEF Continues, Appears, Present, IsUnresolved
<1> QED
  BY <1>1, <1>2

\* transitionAllowed: only an unresolved operation moves, and to a present status.
LEMMA TransitionsLeaveUnresolved ==
  ASSUME NEW from \in Statuses \cup {"absent"}, NEW next \in TransitionAllowed(from)
  PROVE  from \in Unresolved /\ next # "absent"
BY DEF TransitionAllowed, Transitions, Statuses, Unresolved, Terminal

LEMMA TransitionSteps ==
  ASSUME StoreTypeOK, NEW q \in Operations, NEW next \in Statuses,
         NEW patch \in Patch, TransitionOperation(q, Statuses, next, patch),
         NEW o \in Operations
  PROVE  IF Present(o) THEN Continues(o) ELSE Appears(o)
<1>1. intents' = intents
  BY DEF TransitionOperation, bindingVars
<1>2. ops[q] \in OpRow /\ ops[q].status \in Statuses \cup {"absent"}
  BY DEF StoreTypeOK, OpRow
<1>3. ops[q].status \in Unresolved /\ next # "absent"
  BY <1>2, TransitionsLeaveUnresolved DEF TransitionOperation, MayTransition
<1>4. CASE o = q
  <2>1. ops'[o] = Transitioned(ops[o], next, patch)
    BY <1>4 DEF TransitionOperation, StoreTypeOK
  <2>2. /\ ops'[o].status = next
        /\ ops'[o].lock = ops[o].lock
        /\ ops'[o].kind = ops[o].kind
    BY <1>2, <1>4, <2>1 DEF Transitioned, OpRow
  <2> QED
    BY <1>1, <1>3, <1>4, <2>2
       DEF Continues, Present, IsUnresolved, Unresolved, Terminal
<1>5. CASE o # q
  <2>1. ops'[o] = ops[o]
    BY <1>5 DEF TransitionOperation, StoreTypeOK
  <2> QED
    BY <1>1, <2>1 DEF Continues, Appears, Present, IsUnresolved
<1> QED
  BY <1>4, <1>5

\* The finalizers resolve the one operation that was being verified.
LEMMA ResultSteps ==
  ASSUME StoreTypeOK, NEW q \in Operations, NEW o \in Operations,
         ops[q].status = "verifying",
         intents' = intents,
         ops'[q].status = "succeeded",
         ops'[q].lock = ops[q].lock,
         ops'[q].kind = ops[q].kind,
         \A other \in Operations : other # q => ops'[other] = ops[other]
  PROVE  IF Present(o) THEN Continues(o) ELSE Appears(o)
<1>1. CASE o = q
  BY <1>1 DEF Continues, Present, IsUnresolved, Unresolved, Terminal
<1>2. CASE o # q
  <2>1. ops'[o] = ops[o]
    BY <1>2
  <2> QED
    BY <2>1 DEF Continues, Appears, Present, IsUnresolved
<1> QED
  BY <1>1, <1>2

LEMMA FinalizeSteps ==
  ASSUME StoreTypeOK, NEW q \in Operations, NEW doc, NEW b \in Bindings,
         NEW t \in Chats, FinalizeVerifiedCreate(q, b, t, doc), NEW o \in Operations
  PROVE  IF Present(o) THEN Continues(o) ELSE Appears(o)
<1>1. ops[q].status = "verifying" /\ intents' = intents
  BY DEF FinalizeVerifiedCreate, ExpectsResult
<1>2. ops'[q] = [ops[q] EXCEPT !.status = "succeeded", !.binding = b,
                               !.readback = FALSE, !.verified = TRUE]
  BY DEF FinalizeVerifiedCreate, StoreTypeOK
<1>3. /\ ops'[q].status = "succeeded"
      /\ ops'[q].lock = ops[q].lock
      /\ ops'[q].kind = ops[q].kind
  BY <1>2 DEF StoreTypeOK, OpRow
<1>4. \A other \in Operations : other # q => ops'[other] = ops[other]
  BY DEF FinalizeVerifiedCreate, StoreTypeOK
<1> QED
  BY <1>1, <1>3, <1>4, ResultSteps

LEMMA CompleteSteps ==
  ASSUME StoreTypeOK, NEW q \in Operations, NEW doc, NEW version,
         CompleteVerifiedUpdate(q, version, doc), NEW o \in Operations
  PROVE  IF Present(o) THEN Continues(o) ELSE Appears(o)
<1>1. ops[q].status = "verifying" /\ intents' = intents
  BY DEF CompleteVerifiedUpdate, ExpectsResult
<1>2. ops'[q] = [ops[q] EXCEPT !.status = "succeeded", !.readback = FALSE,
                               !.verified = TRUE]
  BY DEF CompleteVerifiedUpdate, StoreTypeOK
<1>3. /\ ops'[q].status = "succeeded"
      /\ ops'[q].lock = ops[q].lock
      /\ ops'[q].kind = ops[q].kind
  BY <1>2 DEF StoreTypeOK, OpRow
<1>4. \A other \in Operations : other # q => ops'[other] = ops[other]
  BY DEF CompleteVerifiedUpdate, StoreTypeOK
<1> QED
  BY <1>1, <1>3, <1>4, ResultSteps

LEMMA RecoverSteps ==
  ASSUME StoreTypeOK, RecoverInterrupted, NEW o \in Operations
  PROVE  IF Present(o) THEN Continues(o) ELSE Appears(o)
<1>1. intents' = intents
  BY DEF RecoverInterrupted, bindingVars
<1>2. CASE WasWriting(o)
  <2>1. ops'[o] = [ops[o] EXCEPT !.status = "needs_reconciliation", !.readback = TRUE]
    BY <1>2 DEF RecoverInterrupted
  <2>2. /\ ops'[o].status = "needs_reconciliation"
        /\ ops'[o].lock = ops[o].lock
        /\ ops'[o].kind = ops[o].kind
    BY <2>1 DEF StoreTypeOK, OpRow
  <2> QED
    BY <1>1, <1>2, <2>2
       DEF Continues, WasWriting, Present, IsUnresolved, Unresolved, Terminal
<1>3. CASE ~WasWriting(o)
  <2>1. ops'[o] = ops[o]
    BY <1>3 DEF RecoverInterrupted
  <2> QED
    BY <1>1, <2>1 DEF Continues, Appears, Present, IsUnresolved
<1> QED
  BY <1>2, <1>3

LEMMA OperationSteps ==
  ASSUME StoreTypeOK, AnyCall, NEW o \in Operations
  PROVE  IF Present(o) THEN Continues(o) ELSE Appears(o)
<1>1. CASE AnyPlanCall
  <2>1. ops'[o] = ops[o] /\ intents'[o] = intents[o]
    BY <1>1 DEF AnyPlanCall, PutSourceSnapshot, SavePlan, ConfirmPlan, Expire, bindingVars
  <2> QED
    BY <2>1 DEF Continues, Appears, Present, IsUnresolved
<1>2. CASE AnyPrepare
  BY <1>2, PrepareCreateSteps, PrepareBindingSteps DEF AnyPrepare
<1>3. CASE AnyTransition
  BY <1>3, TransitionSteps DEF AnyTransition
<1>4. CASE AnyResult
  BY <1>4, FinalizeSteps, CompleteSteps DEF AnyResult
<1>5. CASE RecoverInterrupted
  BY <1>5, RecoverSteps
<1> QED
  BY <1>1, <1>2, <1>3, <1>4, <1>5 DEF AnyCall

-------------------------------------------------------------------------------
(* Locks *)

LEMMA StepOneUnresolved ==
  StoreTypeOK /\ OneUnresolvedPerLock /\ [AnyCall]_storeVars => OneUnresolvedPerLock'
<1> SUFFICES ASSUME StoreTypeOK, OneUnresolvedPerLock, [AnyCall]_storeVars,
                    NEW o1 \in Operations, NEW o2 \in Operations, o1 # o2,
                    IsUnresolved(o1)', IsUnresolved(o2)'
             PROVE  ops'[o1].lock # ops'[o2].lock
  BY DEF OneUnresolvedPerLock, IsUnresolved
<1>1. CASE UNCHANGED storeVars
  BY <1>1 DEF storeVars, OneUnresolvedPerLock, IsUnresolved
<1>2. CASE AnyCall
  <2>1. Present(o1)' /\ Present(o2)'
    BY DEF IsUnresolved, Present, Unresolved
  <2>2. CASE Present(o1) /\ Present(o2)
    <3>1. Continues(o1) /\ Continues(o2)
      BY <1>2, <2>2, OperationSteps
    <3> QED
      BY <3>1 DEF Continues, OneUnresolvedPerLock
  <2>3. CASE ~Present(o1)
    <3>1. LockFree(ops'[o1].lock) /\ ops'[o2] = ops[o2]
      BY <1>2, <2>1, <2>3, OperationSteps DEF Appears
    <3> QED
      BY <3>1 DEF LockFree, IsUnresolved
  <2>4. CASE ~Present(o2)
    <3>1. LockFree(ops'[o2].lock) /\ ops'[o1] = ops[o1]
      BY <1>2, <2>1, <2>4, OperationSteps DEF Appears
    <3> QED
      BY <3>1 DEF LockFree, IsUnresolved
  <2> QED
    BY <2>2, <2>3, <2>4
<1> QED
  BY <1>1, <1>2

\* Mutual exclusion of writers: two operations that may still write never hold
\* the same lock.
THEOREM LocksExclude == StoreSpec => []OneUnresolvedPerLock
<1>1. StoreInit => OneUnresolvedPerLock
  BY DEF StoreInit, OneUnresolvedPerLock, IsUnresolved, NoOperation, Unresolved
<1> QED
  BY <1>1, TypeCorrect, StoreCallsAreCalls, StepOneUnresolved,
     PTL DEF StoreSpec

\* What is resolved stays resolved, row and all.
THEOREM ResolvedForEver == StoreSpec => TerminalIsFinal
<1>1. StoreTypeOK /\ [AnyCall]_storeVars =>
        [\A o \in Operations : ops[o].status \in Terminal => ops'[o] = ops[o]]_storeVars
  <2> SUFFICES ASSUME StoreTypeOK, AnyCall, NEW o \in Operations,
                      ops[o].status \in Terminal
               PROVE  ops'[o] = ops[o]
    OBVIOUS
  <2>1. Present(o)
    BY DEF Present, Terminal
  <2> QED
    BY <2>1, OperationSteps DEF Continues
<1> QED
  BY <1>1, TypeCorrect, StoreCallsAreCalls, PTL DEF StoreSpec, TerminalIsFinal

-------------------------------------------------------------------------------
(* Bindings and their evidence *)

\* A binding whose rows a step leaves alone keeps its evidence: the operation
\* that created it is resolved and claimed for ever.
LEMMA EvidenceSurvives ==
  ASSUME StoreTypeOK, AnyCall, NEW b \in Bindings, Allowed(b), Bound(b)',
         bindings'[b].target = bindings[b].target,
         bindings'[b].creator = bindings[b].creator,
         allow'[bindings[b].target] = allow[bindings[b].target]
  PROVE  Allowed(b)'
<1>1. PICK o \in Operations : o = bindings[b].creator /\ ops[o].status = "succeeded"
  BY DEF Allowed
<1>2. Continues(o)
  BY <1>1, OperationSteps DEF Present
<1>3. ops'[o] = ops[o] /\ intents'[o] = intents[o]
  BY <1>1, <1>2 DEF Continues, Terminal
<1> QED
  BY <1>1, <1>3 DEF Allowed

LEMMA FinalizeEvidence ==
  ASSUME StoreTypeOK, EvidenceKept, AllowlistIsBacked, AnyCall,
         NEW o \in Operations, NEW doc, NEW b \in Bindings, NEW t \in Chats,
         FinalizeVerifiedCreate(o, b, t, doc)
  PROVE  EvidenceKept' /\ AllowlistIsBacked'
<1>1. /\ bindings'[b] = [version |-> 1, target |-> t, src |-> intents[o], creator |-> o]
      /\ \A other \in Bindings : other # b => bindings'[other] = bindings[other]
      /\ allow'[t] = [binding |-> b, creator |-> o]
      /\ \A other \in Chats : other # t => allow'[other] = allow[other]
  BY DEF FinalizeVerifiedCreate, StoreTypeOK
<1>2. Allowed(b)'
  <2>1. ops'[o] = [ops[o] EXCEPT !.status = "succeeded", !.binding = b,
                                 !.readback = FALSE, !.verified = TRUE]
    BY DEF FinalizeVerifiedCreate, StoreTypeOK
  <2>2. /\ ops'[o].status = "succeeded"
        /\ ops'[o].binding = b
        /\ ops'[o].kind = ops[o].kind
        /\ ops'[o].target = ops[o].target
        /\ ops'[o].receipt = ops[o].receipt
    BY <2>1 DEF StoreTypeOK, OpRow
  <2>3. /\ ops[o].kind = "create" /\ ops[o].target = t /\ ops[o].receipt # None
        /\ intents'[o] = intents[o] /\ intents[o] # None
    BY DEF FinalizeVerifiedCreate, ExpectsResult
  <2>4. /\ bindings'[b].version > 0
        /\ bindings'[b].target = t
        /\ bindings'[b].creator = o
    BY <1>1
  <2> QED
    BY <1>1, <2>2, <2>3, <2>4 DEF Allowed, Bound
<1>3. ~Bound(b) /\ allow[t] = None
  BY DEF FinalizeVerifiedCreate, BindingFree
<1>4. ASSUME NEW other \in Bindings, other # b, Bound(other)'
      PROVE  Allowed(other)'
  <2>1. bindings'[other] = bindings[other] /\ Allowed(other)
    BY <1>1, <1>4 DEF Bound, EvidenceKept
  <2>2. bindings[other].target \in Chats /\ allow[bindings[other].target] # None
    BY <2>1, RowsAssumption DEF Allowed, AllowRow
  <2>3. bindings[other].target # t
    BY <1>3, <2>2
  <2> QED
    BY <1>1, <1>4, <2>1, <2>2, <2>3, EvidenceSurvives
<1>5. ASSUME NEW u \in Chats, allow'[u] # None
      PROVE  /\ bindings'[allow'[u].binding].version > 0
             /\ bindings'[allow'[u].binding].target = u
             /\ bindings'[allow'[u].binding].creator = allow'[u].creator
  <2>1. CASE u = t
    BY <1>1, <2>1 DEF Bound
  <2>2. CASE u # t
    <3>1. allow'[u] = allow[u] /\ allow[u].binding \in Bindings
      BY <1>1, <1>5, <2>2 DEF StoreTypeOK, AllowRow
    <3>2. Bound(allow[u].binding)
      BY <1>5, <3>1 DEF AllowlistIsBacked
    <3>3. bindings'[allow[u].binding] = bindings[allow[u].binding]
      BY <1>1, <1>3, <3>1, <3>2
    <3> QED
      BY <1>5, <3>1, <3>2, <3>3 DEF AllowlistIsBacked, Bound
  <2> QED
    BY <2>1, <2>2
<1>6. EvidenceKept'
  BY <1>2, <1>4 DEF EvidenceKept
<1>7. AllowlistIsBacked'
  BY <1>5 DEF AllowlistIsBacked, Bound
<1> QED
  BY <1>6, <1>7

\* A step that moves no binding's chat or creator and no allowlist row.
LEMMA EvidenceUntouched ==
  ASSUME StoreTypeOK, EvidenceKept, AllowlistIsBacked, AnyCall,
         allow' = allow,
         \A b \in Bindings : /\ bindings'[b].target = bindings[b].target
                             /\ bindings'[b].creator = bindings[b].creator
                             /\ Bound(b)' <=> Bound(b)
  PROVE  EvidenceKept' /\ AllowlistIsBacked'
<1>1. EvidenceKept'
  BY EvidenceSurvives DEF EvidenceKept
<1>2. AllowlistIsBacked'
  <2>1. \A t \in Chats : allow[t] # None => allow[t].binding \in Bindings
    BY DEF StoreTypeOK, AllowRow
  <2> QED
    BY <2>1 DEF AllowlistIsBacked
<1> QED
  BY <1>1, <1>2

LEMMA StepEvidence ==
  StoreTypeOK /\ EvidenceKept /\ AllowlistIsBacked /\ [AnyCall]_storeVars
    => EvidenceKept' /\ AllowlistIsBacked'
<1> SUFFICES ASSUME StoreTypeOK, EvidenceKept, AllowlistIsBacked, [AnyCall]_storeVars
             PROVE  EvidenceKept' /\ AllowlistIsBacked'
  OBVIOUS
<1>1. CASE UNCHANGED storeVars
  BY <1>1 DEF storeVars, EvidenceKept, AllowlistIsBacked, Allowed, Bound
<1>2. CASE AnyCall /\ UNCHANGED <<bindings, allow>>
  BY <1>2, EvidenceUntouched DEF Bound
<1>3. CASE AnyCall /\ AnyResult
  <2>1. CASE \E o \in Operations, doc \in Docs, b \in Bindings, t \in Chats :
               FinalizeVerifiedCreate(o, b, t, doc)
    BY <1>3, <2>1, FinalizeEvidence
  <2>2. CASE \E o \in Operations, doc \in Docs, version \in Nat :
               CompleteVerifiedUpdate(o, version, doc)
    <3>1. PICK o \in Operations, doc \in Docs, version \in Nat :
                 CompleteVerifiedUpdate(o, version, doc)
      BY <2>2
    <3>2. PICK b \in Bindings : /\ b = ops[o].binding
                                /\ bindings[b].version = version
                                /\ Bound(b)
      BY <3>1 DEF CompleteVerifiedUpdate, Allowed
    <3>3. bindings'[b] = [bindings[b] EXCEPT !.version = bindings[b].version + 1,
                                             !.src = plans[ops[o].plan].src]
      BY <3>1, <3>2 DEF CompleteVerifiedUpdate, StoreTypeOK
    <3>4. /\ bindings'[b].version = bindings[b].version + 1
          /\ bindings'[b].target = bindings[b].target
          /\ bindings'[b].creator = bindings[b].creator
      BY <3>2, <3>3 DEF StoreTypeOK, BindingRow
    <3>5. Bound(b)'
      BY <3>2, <3>4 DEF Bound, StoreTypeOK, BindingRow
    <3>6. \A other \in Bindings : other # b => bindings'[other] = bindings[other]
      BY <3>1, <3>2 DEF CompleteVerifiedUpdate, StoreTypeOK
    <3>7. allow' = allow
      BY <3>1 DEF CompleteVerifiedUpdate
    <3>8. \A x \in Bindings : /\ bindings'[x].target = bindings[x].target
                              /\ bindings'[x].creator = bindings[x].creator
                              /\ Bound(x)' <=> Bound(x)
      BY <3>2, <3>4, <3>5, <3>6 DEF Bound
    <3> QED
      BY <1>3, <3>7, <3>8, EvidenceUntouched
  <2> QED
    BY <1>3, <2>1, <2>2 DEF AnyResult
<1>4. CASE AnyPlanCall
  BY <1>2, <1>4 DEF AnyCall, AnyPlanCall, PutSourceSnapshot, SavePlan, ConfirmPlan,
                    Expire, bindingVars
<1>5. CASE AnyPrepare
  BY <1>2, <1>5 DEF AnyCall, AnyPrepare, PrepareCreate, PrepareBindingOperation,
                    bindingVars
<1>6. CASE AnyTransition \/ RecoverInterrupted
  BY <1>2, <1>6 DEF AnyCall, AnyTransition, TransitionOperation,
                    RecoverInterrupted, bindingVars
<1> QED
  BY <1>1, <1>3, <1>4, <1>5, <1>6 DEF AnyCall

\* No call can strand a binding: whoever calls the store, an installed binding
\* keeps the evidence every later preview, apply and recovery asks for.
THEOREM EvidenceIsNeverLost == StoreSpec => [](EvidenceKept /\ AllowlistIsBacked)
<1>1. StoreInit => EvidenceKept /\ AllowlistIsBacked
  BY DEF StoreInit, EvidenceKept, AllowlistIsBacked, Bound, NoBinding
<1> QED
  BY <1>1, TypeCorrect, StoreCallsAreCalls, StepEvidence,
     PTL DEF StoreSpec

-------------------------------------------------------------------------------
(* Claims on shares *)

LEMMA StepShareClaimed ==
  StoreTypeOK /\ ShareClaimedOnce /\ [AnyCall]_storeVars => ShareClaimedOnce'
<1> SUFFICES ASSUME StoreTypeOK, ShareClaimedOnce, [AnyCall]_storeVars
             PROVE  ShareClaimedOnce'
  OBVIOUS
<1>1. CASE UNCHANGED intents
  BY <1>1 DEF ShareClaimedOnce
<1>2. ASSUME NEW o \in Operations, NEW p \in Plans, NEW key \in Keys,
             NEW payload \in Payloads, PrepareCreate(o, p, key, payload)
      PROVE  ShareClaimedOnce'
  <2>1. intents' = [intents EXCEPT ![o] = plans[p].src]
    BY <1>2 DEF PrepareCreate
  <2>2. AliasFree(plans[p].src)
    BY <1>2 DEF PrepareCreate
  <2> QED
    BY <2>1, <2>2 DEF StoreTypeOK, ShareClaimedOnce, AliasFree
<1>3. CASE AnyPrepare
  BY <1>1, <1>2, <1>3 DEF AnyPrepare, PrepareBindingOperation, bindingVars
<1>4. CASE AnyPlanCall
  BY <1>1, <1>4 DEF AnyPlanCall, PutSourceSnapshot, SavePlan, ConfirmPlan, Expire,
                    bindingVars
<1>5. CASE AnyTransition \/ RecoverInterrupted
  BY <1>1, <1>5 DEF AnyTransition, TransitionOperation, RecoverInterrupted, bindingVars
<1>6. CASE AnyResult
  <2>1. ASSUME NEW o, NEW doc, NEW b, NEW t, FinalizeVerifiedCreate(o, b, t, doc)
        PROVE  UNCHANGED intents
    BY <2>1 DEF FinalizeVerifiedCreate
  <2>2. ASSUME NEW o, NEW doc, NEW version, CompleteVerifiedUpdate(o, version, doc)
        PROVE  UNCHANGED intents
    BY <2>2 DEF CompleteVerifiedUpdate
  <2> QED
    BY <1>1, <1>6, <2>1, <2>2 DEF AnyResult
<1> QED
  BY <1>1, <1>3, <1>4, <1>5, <1>6 DEF AnyCall, storeVars

\* A share link is turned into a chat at most once, by any number of creates.
THEOREM SharesAreClaimedOnce == StoreSpec => []ShareClaimedOnce
<1>1. StoreInit => ShareClaimedOnce
  BY DEF StoreInit, ShareClaimedOnce
<1> QED
  BY <1>1, TypeCorrect, StoreCallsAreCalls, StepShareClaimed,
     PTL DEF StoreSpec

-------------------------------------------------------------------------------
(* Versions and baselines *)

\* What finalizing create o does to its new binding b, and to no other.
Installs(o, b, t, doc) ==
  /\ ~Bound(b)
  /\ bindings'[b] = [version |-> 1, target |-> t, src |-> intents[o], creator |-> o]
  /\ mapped'[b] = doc.messages
  /\ baselines[o].version = 0
  /\ baselines'[o] = [binding |-> b, version |-> 1, src |-> intents[o], doc |-> doc]
  /\ \A c \in Bindings : c # b => bindings'[c] = bindings[c] /\ mapped'[c] = mapped[c]
  /\ \A q \in Operations : q # o => baselines'[q] = baselines[q]

LEMMA FinalizeBindings ==
  ASSUME StoreTypeOK, NEW o \in Operations, NEW doc, NEW b \in Bindings,
         NEW t \in Chats, FinalizeVerifiedCreate(o, b, t, doc)
  PROVE  Installs(o, b, t, doc)
BY DEF Installs, FinalizeVerifiedCreate, BindingFree, ReplaceMappings, StoreTypeOK

\* What completing update o at a version does to its binding b, and to no other.
Advances(o, b, version, doc) ==
  /\ Bound(b)
  /\ bindings[b].version = version
  /\ bindings'[b].version = version + 1
  /\ bindings'[b].src = plans[ops[o].plan].src
  /\ bindings'[b].target = bindings[b].target
  /\ bindings'[b].creator = bindings[b].creator
  /\ mapped'[b] = doc.messages
  /\ baselines[o].version = 0
  /\ BaselinesAt(b, version + 1) = {}
  /\ baselines'[o] = [binding |-> b, version |-> version + 1,
                      src |-> plans[ops[o].plan].src, doc |-> doc]
  /\ \A c \in Bindings : c # b => bindings'[c] = bindings[c] /\ mapped'[c] = mapped[c]
  /\ \A q \in Operations : q # o => baselines'[q] = baselines[q]

LEMMA CompleteBindings ==
  ASSUME StoreTypeOK, NEW o \in Operations, NEW doc, NEW version \in Nat,
         NEW b \in Bindings, b = ops[o].binding,
         CompleteVerifiedUpdate(o, version, doc)
  PROVE  Advances(o, b, version, doc)
<1>1. /\ Bound(b)
      /\ bindings[b].version = version
      /\ baselines[o].version = 0
      /\ BaselinesAt(b, version + 1) = {}
  BY DEF CompleteVerifiedUpdate, Allowed
<1>2. bindings'[b] = [bindings[b] EXCEPT !.version = version + 1,
                                         !.src = plans[ops[o].plan].src]
  BY DEF CompleteVerifiedUpdate, StoreTypeOK
<1>3. /\ bindings'[b].version = version + 1
      /\ bindings'[b].src = plans[ops[o].plan].src
      /\ bindings'[b].target = bindings[b].target
      /\ bindings'[b].creator = bindings[b].creator
  BY <1>2 DEF StoreTypeOK, BindingRow
<1>4. mapped'[b] = doc.messages
  BY DEF CompleteVerifiedUpdate, ReplaceMappings, StoreTypeOK
<1>5. baselines'[o] = [binding |-> b, version |-> version + 1,
                       src |-> plans[ops[o].plan].src, doc |-> doc]
  BY DEF CompleteVerifiedUpdate, StoreTypeOK
<1>6. \A c \in Bindings : c # b => bindings'[c] = bindings[c] /\ mapped'[c] = mapped[c]
  BY DEF CompleteVerifiedUpdate, ReplaceMappings, StoreTypeOK
<1>7. \A q \in Operations : q # o => baselines'[q] = baselines[q]
  BY DEF CompleteVerifiedUpdate, StoreTypeOK
<1> QED
  BY <1>1, <1>3, <1>4, <1>5, <1>6, <1>7 DEF Advances

\* Only the two finalizers touch bindings, mappings and baselines.
LEMMA OnlyResultsBind ==
  ASSUME AnyCall
  PROVE  AnyResult \/ UNCHANGED <<bindings, mapped, baselines>>
<1>1. CASE AnyPlanCall
  BY <1>1 DEF AnyPlanCall, PutSourceSnapshot, SavePlan, ConfirmPlan, Expire, bindingVars
<1>2. CASE AnyPrepare
  BY <1>2 DEF AnyPrepare, PrepareCreate, PrepareBindingOperation, bindingVars
<1>3. CASE AnyTransition \/ RecoverInterrupted
  BY <1>3 DEF AnyTransition, TransitionOperation, RecoverInterrupted, bindingVars
<1> QED
  BY <1>1, <1>2, <1>3 DEF AnyCall

LEMMA BindingStep ==
  ASSUME StoreTypeOK, AnyCall, NEW b \in Bindings, Bound(b), bindings'[b] # bindings[b]
  PROVE  /\ bindings'[b].version = bindings[b].version + 1
         /\ bindings'[b].target = bindings[b].target
         /\ bindings'[b].creator = bindings[b].creator
         /\ \E o \in Operations :
              /\ ops[o].binding = b /\ ops[o].status = "verifying"
              /\ ops'[o].status = "succeeded"
              /\ plans[ops[o].plan].version = bindings[b].version
<1>1. AnyResult
  BY OnlyResultsBind
<1>2. ASSUME NEW o \in Operations, NEW doc, NEW c \in Bindings, NEW t \in Chats,
             FinalizeVerifiedCreate(o, c, t, doc)
      PROVE  FALSE
  <2>1. Installs(o, c, t, doc)
    BY <1>2, FinalizeBindings
  <2> QED
    BY <2>1 DEF Installs
<1>3. PICK o \in Operations, doc \in Docs, version \in Nat :
             CompleteVerifiedUpdate(o, version, doc)
  BY <1>1, <1>2 DEF AnyResult, StoreTypeOK, BindingRow
<1>4. PICK c \in Bindings : c = ops[o].binding
  BY <1>3 DEF CompleteVerifiedUpdate
<1>5. /\ c = b
      /\ bindings[b].version = version
      /\ bindings'[b].version = version + 1
      /\ bindings'[b].target = bindings[b].target
      /\ bindings'[b].creator = bindings[b].creator
  <2>1. Advances(o, c, version, doc)
    BY <1>3, <1>4, CompleteBindings, Zenon
  <2> QED
    BY <2>1 DEF Advances
<1>6. ops[o].status = "verifying" /\ plans[ops[o].plan].version = version
  BY <1>3 DEF CompleteVerifiedUpdate, ExpectsResult
<1>7. ops'[o] = [ops[o] EXCEPT !.status = "succeeded", !.readback = FALSE,
                               !.verified = TRUE]
  BY <1>3 DEF CompleteVerifiedUpdate, StoreTypeOK
<1>8. ops'[o].status = "succeeded"
  BY <1>7 DEF StoreTypeOK, OpRow
<1> QED
  BY <1>4, <1>5, <1>6, <1>8

\* A binding keeps its chat and its creator, and moves one version at a time.
THEOREM VersionsStep == StoreSpec => VersionStep
<1>1. StoreTypeOK /\ [AnyCall]_storeVars =>
        [\A b \in Bindings : Bound(b) /\ bindings'[b] # bindings[b] =>
           /\ bindings'[b].version = bindings[b].version + 1
           /\ bindings'[b].target = bindings[b].target
           /\ bindings'[b].creator = bindings[b].creator
           /\ \E o \in Operations :
                /\ ops[o].binding = b /\ ops[o].status = "verifying"
                /\ ops'[o].status = "succeeded"
                /\ plans[ops[o].plan].version = bindings[b].version]_storeVars
  BY BindingStep
<1> QED
  BY <1>1, TypeCorrect, StoreCallsAreCalls, PTL DEF StoreSpec, VersionStep

LEMMA FinalizeHistory ==
  ASSUME StoreTypeOK, BaselineHistory, NEW o \in Operations, NEW doc, NEW b \in Bindings,
         NEW t \in Chats, FinalizeVerifiedCreate(o, b, t, doc)
  PROVE  BaselineHistory'
<1>0. Installs(o, b, t, doc)
  BY FinalizeBindings
<1>1. \A c \in Bindings : bindings[c].version \in Nat
  BY DEF StoreTypeOK, BindingRow
<1>2. \A q \in Operations : baselines[q].binding # b /\ baselines[o].binding \notin Bindings
  BY <1>0, <1>1 DEF Installs, BaselineHistory, Bound
<1>3. bindings'[b].version = 1 /\ bindings'[b].src = intents[o] /\ mapped'[b] = doc.messages
  BY <1>0 DEF Installs
<1>4. /\ baselines'[o].binding = b /\ baselines'[o].version = 1
      /\ baselines'[o].src = intents[o] /\ baselines'[o].doc = doc
      /\ \A q \in Operations : q # o => baselines'[q] = baselines[q]
  BY <1>0 DEF Installs
<1>5. ASSUME NEW c \in Bindings, NEW v \in 1 .. bindings'[c].version
      PROVE  \E q \in Operations : BaselinesAt(c, v)' = {q}
  <2>1. CASE c = b
    <3>1. v = 1
      BY <1>3, <1>5, <2>1
    <3>2. BaselinesAt(c, v)' = {o}
      BY <1>2, <1>4, <2>1, <3>1 DEF BaselinesAt
    <3> QED
      BY <3>2
  <2>2. CASE c # b
    <3>1. bindings'[c] = bindings[c]
      BY <2>2, <1>0 DEF Installs
    <3>2. PICK q \in Operations : BaselinesAt(c, v) = {q}
      BY <1>5, <3>1 DEF BaselineHistory
    <3>3. BaselinesAt(c, v)' = BaselinesAt(c, v)
      BY <1>2, <1>4, <2>2 DEF BaselinesAt
    <3> QED
      BY <3>2, <3>3
  <2> QED
    BY <2>1, <2>2
<1>6. ASSUME NEW c \in Bindings, NEW q \in Operations, baselines'[q].binding = c
      PROVE  /\ baselines'[q].version \in 1 .. bindings'[c].version
             /\ baselines'[q].version = bindings'[c].version =>
                  /\ baselines'[q].src = bindings'[c].src
                  /\ baselines'[q].doc.messages = mapped'[c]
  <2>1. CASE q = o
    BY <1>3, <1>4, <1>6, <2>1
  <2>2. CASE q # o
    <3>1. baselines'[q] = baselines[q] /\ c # b
      BY <1>2, <1>4, <1>6, <2>2
    <3>2. bindings'[c] = bindings[c] /\ mapped'[c] = mapped[c]
      BY <3>1, <1>0 DEF Installs
    <3> QED
      BY <1>6, <3>1, <3>2 DEF BaselineHistory
  <2> QED
    BY <2>1, <2>2
<1> QED
  BY <1>5, <1>6 DEF BaselineHistory

LEMMA CompleteHistory ==
  ASSUME StoreTypeOK, BaselineHistory, NEW o \in Operations, NEW doc, NEW version \in Nat,
         CompleteVerifiedUpdate(o, version, doc)
  PROVE  BaselineHistory'
<1>0. PICK b \in Bindings : b = ops[o].binding
  BY DEF CompleteVerifiedUpdate
<1>1. Advances(o, b, version, doc)
  BY <1>0, CompleteBindings, Zenon
<1>2. /\ baselines'[o].binding = b /\ baselines'[o].version = version + 1
      /\ baselines'[o].src = plans[ops[o].plan].src /\ baselines'[o].doc = doc
  BY <1>1 DEF Advances
<1>3. baselines[o].binding \notin Bindings
  BY <1>1 DEF Advances, BaselineHistory
<1>4. ASSUME NEW c \in Bindings, NEW v \in 1 .. bindings'[c].version
      PROVE  \E q \in Operations : BaselinesAt(c, v)' = {q}
  <2>1. CASE c = b /\ v = version + 1
    <3>1. BaselinesAt(c, v)' = {o}
      BY <1>1, <1>2, <2>1 DEF Advances, BaselinesAt
    <3> QED
      BY <3>1
  <2>2. CASE ~(c = b /\ v = version + 1)
    <3>1. v \in 1 .. bindings[c].version
      BY <1>1, <1>4, <2>2 DEF Advances
    <3>2. PICK q \in Operations : BaselinesAt(c, v) = {q}
      BY <3>1 DEF BaselineHistory
    <3>3. BaselinesAt(c, v)' = BaselinesAt(c, v)
      BY <1>1, <1>2, <1>3, <2>2 DEF Advances, BaselinesAt
    <3> QED
      BY <3>2, <3>3
  <2> QED
    BY <2>1, <2>2
<1>5. ASSUME NEW c \in Bindings, NEW q \in Operations, baselines'[q].binding = c
      PROVE  /\ baselines'[q].version \in 1 .. bindings'[c].version
             /\ baselines'[q].version = bindings'[c].version =>
                  /\ baselines'[q].src = bindings'[c].src
                  /\ baselines'[q].doc.messages = mapped'[c]
  <2>1. CASE q = o
    BY <1>1, <1>2, <1>5, <2>1 DEF Advances
  <2>2. CASE q # o
    <3>1. baselines'[q] = baselines[q]
      BY <1>1, <2>2 DEF Advances
    <3>2. /\ baselines[q].version \in 1 .. bindings[c].version
          /\ baselines[q].version = bindings[c].version =>
               /\ baselines[q].src = bindings[c].src
               /\ baselines[q].doc.messages = mapped[c]
      BY <1>5, <3>1 DEF BaselineHistory
    <3>3. CASE c = b
      BY <1>1, <3>1, <3>2, <3>3 DEF Advances
    <3>4. CASE c # b
      BY <1>1, <3>1, <3>2, <3>4 DEF Advances
    <3> QED
      BY <3>3, <3>4
  <2> QED
    BY <2>1, <2>2
<1> QED
  BY <1>4, <1>5 DEF BaselineHistory

LEMMA StepHistory ==
  StoreTypeOK /\ BaselineHistory /\ [AnyCall]_storeVars => BaselineHistory'
<1> SUFFICES ASSUME StoreTypeOK, BaselineHistory, [AnyCall]_storeVars
             PROVE  BaselineHistory'
  OBVIOUS
<1>1. CASE UNCHANGED <<bindings, mapped, baselines>>
  BY <1>1 DEF BaselineHistory, BaselinesAt
<1>2. CASE AnyResult
  <2>1. CASE \E o \in Operations, doc \in Docs, b \in Bindings, t \in Chats :
               FinalizeVerifiedCreate(o, b, t, doc)
    BY <2>1, FinalizeHistory
  <2>2. CASE \E o \in Operations, doc \in Docs, version \in Nat :
               CompleteVerifiedUpdate(o, version, doc)
    BY <2>2, CompleteHistory
  <2> QED
    BY <1>2, <2>1, <2>2 DEF AnyResult, StoreTypeOK, BindingRow
<1> QED
  BY <1>1, <1>2, OnlyResultsBind DEF storeVars

\* target_baselines is the complete, gap-free history of every binding, and its
\* last row is what the next preview is compared with.
THEOREM BaselinesAreHistory == StoreSpec => []BaselineHistory
<1>1. StoreInit => BaselineHistory
  <2> SUFFICES ASSUME StoreInit PROVE BaselineHistory
    OBVIOUS
  <2>1. \A b \in Bindings : bindings[b].version = 0
    BY DEF StoreInit, NoBinding
  <2>2. \A o \in Operations : baselines[o].binding \notin Bindings
    BY NoneAssumption DEF StoreInit, NoBaseline
  <2> QED
    BY <2>1, <2>2 DEF BaselineHistory
<1> QED
  BY <1>1, TypeCorrect, StoreCallsAreCalls, StepHistory,
     PTL DEF StoreSpec

-------------------------------------------------------------------------------
(* The sync engine *)

\* Every digest the engine makes is a key or a payload of the store.
DigestsCovered ==
  \A row \in PlanRow : KeyOf(row) \in Keys /\ PayloadOf(row) \in Payloads

-------------------------------------------------------------------------------
(* The inductive invariant *)

Settled == {"ready", "no_change"}

\* A chat that exists was made by its creator's write, and keeps that mark.
Made(t, o) == chats[t] # None /\ chats[t].by = o

\* A plan or a draft: a create plans the fresh document; an applicable update plans
\* the source's content under the mark of the binding's creator, with no human edit.
PlanFits(row) ==
  IF row.binding = None
    THEN /\ row.version = 0
         /\ row.desired = BuildFresh(row.src)
         /\ row.status # "no_change"
    ELSE /\ Bound(row.binding)
         /\ row.status \in Settled =>
              /\ row.desired.messages = row.src.messages
              /\ row.desired.text = row.src.text
              /\ row.desired.edit = Pristine
              /\ row.desired.by = bindings[row.binding].creator

\* A draft whose target has not been read expects the baseline.
DraftFits(row) ==
  /\ row.binding # None
  /\ Bound(row.binding)
  /\ row.prev # None
  /\ row.expected # None
  /\ row.expected.messages = row.prev.messages
  /\ row.expected.edit = Pristine
  /\ row.expected.by = bindings[row.binding].creator

PlansFit == \A p \in Plans : plans[p] # None => PlanFits(plans[p])

\* An operation carries out an applicable plan, is attempted at most once, and
\* knows the chat that its write is about.
Uncertain == {"applying", "verifying", "needs_reconciliation"}

OpFits(o) ==
  LET row == ops[o]
      plan == plans[row.plan]
  IN
  /\ row.plan \in Plans
  /\ plan # None
  /\ plan.status \in Settled
  /\ IF row.kind = "create"
       THEN /\ plan.binding = None
            /\ intents[o] = plan.src
            /\ row.target # None => Made(row.target, o)
            /\ row.status = "verifying" => row.target # None
       ELSE /\ row.kind = "update"
            /\ row.binding \in Bindings
            /\ plan.binding = row.binding
            /\ row.attempts = 1 => row.target = bindings[row.binding].target
  /\ row.attempts <= 1
  /\ row.status = "prepared" => row.attempts = 0
  /\ row.status \in Uncertain => row.attempts = 1 /\ plan.status = "ready"
  /\ baselines[o].version > 0 => row.status = "succeeded"
  /\ row.status = "succeeded" =>
       /\ row.verified
       /\ IF plan.status = "no_change"
            THEN row.attempts = 0 /\ baselines[o].version = 0
            ELSE o \in landed /\ baselines[o].version = plan.version + 1

OpStands(o) ==
  IF Present(o) THEN OpFits(o)
  ELSE intents[o] = None /\ ops[o].attempts = 0 /\ baselines[o].version = 0

OpsFit == \A o \in Operations : OpStands(o)

\* What was sent was attempted; it lands once, as what it was sent for.
WireFits(r) ==
  /\ sent[r.op] = 1
  /\ r.op \notin landed
  /\ r.doc.last = r.op
  /\ IF r.target = None
       THEN ops[r.op].kind = "create" /\ r.doc.by = r.op
       ELSE ops[r.op].kind = "update" /\ Made(r.target, r.doc.by)

WritesFit ==
  /\ \A o \in Operations : sent[o] <= ops[o].attempts
  /\ \A o \in landed : sent[o] = 1
  /\ \A r \in wire : WireFits(r)
  /\ \A r1, r2 \in wire : r1.op = r2.op => r1 = r2

\* Every chat was made by one create, the only chat that create ever made, and was
\* last written by a write that landed.
ChatsFit ==
  /\ \A t \in Chats : chats[t] # None =>
       /\ chats[t].by \in landed
       /\ intents[chats[t].by] # None
       /\ chats[t].last \in landed
  /\ \A t1, t2 \in Chats :
       chats[t1] # None /\ chats[t2] # None /\ chats[t1].by = chats[t2].by => t1 = t2
  /\ \A o \in landed : ops[o].kind = "create" => \E t \in Chats : Made(t, o)

BindingsFit ==
  \A b \in Bindings : Bound(b) => Made(bindings[b].target, bindings[b].creator)

BaselinesFit ==
  \A o \in Operations : baselines[o].version > 0 =>
    /\ baselines[o].binding # None /\ baselines[o].src # None /\ baselines[o].doc # None
    /\ baselines[o].doc.last = o
    /\ baselines[o].doc.by = bindings[baselines[o].binding].creator
    /\ baselines[o].doc.edit = Pristine
    /\ baselines[o].doc.messages = baselines[o].src.messages
    /\ baselines[o].doc.text = baselines[o].src.text

\* What a call knows.  All of it stays true whatever the other calls do.
Drafting == {"put", "save"}
Planned == {"confirm", "prepare"}
Updating == {"load", "reread", "no_change"}
Attempted == {"post", "await", "receipt", "readback", "finish", "interrupt",
              "reconcile", "resume", "unknown"}
Operating == Updating \cup {"begin", "fail"} \cup Attempted
Proven == {"finish", "resume"}

CallFits(c) ==
  LET row == call[c]
      plan == plans[row.plan]
      CarriesTheMark == row.doc # None /\ row.doc.by = bindings[plan.binding].creator
  IN
  /\ row.at \in Drafting => row.draft # None /\ PlanFits(row.draft)
  /\ row.at = "read_target" => row.draft # None /\ DraftFits(row.draft)
  /\ row.at \in Planned => row.plan # None /\ plan # None /\ plan.status \in Settled
  /\ row.at \in Operating => row.op # None /\ Present(row.op) /\ row.plan = ops[row.op].plan
  /\ row.at \in Updating => ops[row.op].kind = "update"
  /\ row.at = "no_change" => plan.status = "no_change"
  /\ row.at = "reread" => CarriesTheMark
  /\ row.at \in {"begin", "post"} =>
       plan.status = "ready" /\ (ops[row.op].kind = "update" => CarriesTheMark)
  /\ row.at \in Attempted => ops[row.op].attempts = 1
  /\ row.at = "receipt" => row.op \in landed
  /\ row.at \in Proven =>
       /\ row.op \in landed
       /\ row.doc # None
       /\ HasOperationMarker(row.doc, row.op, ops[row.op].kind = "create")
       /\ MatchesPlanned(row.doc, plan.desired)

CallsFit == \A c \in Callers : CallFits(c)

\* Whoever stands before a POST is alone there, and nothing was sent yet.
PostsFit ==
  /\ \A c \in Callers : At(c, "post") => sent[call[c].op] = 0
  /\ \A c, d \in Callers :
       At(c, "post") /\ At(d, "post") /\ call[c].op = call[d].op => c = d

StoreInv ==
  /\ EvidenceKept
  /\ AllowlistIsBacked
  /\ ShareClaimedOnce
  /\ BaselineHistory

ServiceInv ==
  /\ ServiceTypeOK
  /\ StoreInv
  /\ PlansFit
  /\ OpsFit
  /\ WritesFit
  /\ ChatsFit
  /\ BindingsFit
  /\ BaselinesFit
  /\ CallsFit
  /\ PostsFit

-------------------------------------------------------------------------------
(* What a store method does to the rows the engine relies on *)

\* What is never undone in the store: a plan but for its confirmation, a binding's
\* chat and creator, an operation's kind, plan and target, and the claim of a create.
StorePersists ==
  /\ \A p \in Plans : plans[p] # None =>
       plans'[p] # None /\ \E flag \in BOOLEAN : plans'[p] = [plans[p] EXCEPT !.confirmed = flag]
  /\ \A b \in Bindings : Bound(b) =>
       /\ Bound(b)'
       /\ bindings'[b].target = bindings[b].target
       /\ bindings'[b].creator = bindings[b].creator
  /\ \A o \in Operations : Present(o) =>
       /\ Present(o)'
       /\ ops'[o].kind = ops[o].kind
       /\ ops'[o].plan = ops[o].plan
       /\ ops'[o].attempts >= ops[o].attempts
       /\ ops[o].kind # "create" => ops'[o].binding = ops[o].binding
       /\ ops[o].target # None => ops'[o].target = ops[o].target
       /\ intents'[o] = intents[o]

\* The columns of a transitioned row.
LEMMA TransitionedColumns ==
  ASSUME NEW row \in OpRow, NEW next \in Statuses, NEW patch \in Patch,
         NEW new, new = Transitioned(row, next, patch)
  PROVE  /\ new.status = next
         /\ new.kind = row.kind /\ new.plan = row.plan /\ new.lock = row.lock
         /\ new.binding = row.binding
         /\ new.attempts = IF next = "applying" THEN row.attempts + 1 ELSE row.attempts
         /\ new.target = Recorded(row.target, patch.target)
         /\ new.verified = (row.verified \/ patch.verified)
BY DEF Transitioned, OpRow

\* What a transition does to the operations, and that it does nothing else.
Moves(q, next, patch) ==
  /\ ops'[q].status = next
  /\ ops'[q].kind = ops[q].kind
  /\ ops'[q].plan = ops[q].plan
  /\ ops'[q].lock = ops[q].lock
  /\ ops'[q].binding = ops[q].binding
  /\ ops'[q].attempts = IF next = "applying" THEN ops[q].attempts + 1 ELSE ops[q].attempts
  /\ ops'[q].target = Recorded(ops[q].target, patch.target)
  /\ ops[q].kind = "create" /\ next = "verifying" => ops'[q].target # None
  /\ ops'[q].verified = (ops[q].verified \/ patch.verified)
  /\ \A o \in Operations : o # q => ops'[o] = ops[o]
  /\ UNCHANGED <<planVars, bindingVars>>

LEMMA TransitionMoves ==
  ASSUME StoreTypeOK, NEW q \in Operations, NEW next \in Statuses, NEW patch \in Patch,
         NEW expected, TransitionOperation(q, expected, next, patch)
  PROVE  /\ Moves(q, next, patch)
         /\ ops[q].status \in expected
         /\ next \in Transitions[ops[q].status]
         /\ Recordable(ops[q].target, patch.target)
<1>1. ops[q] \in OpRow
  BY DEF StoreTypeOK
<1>2. ops'[q] = Transitioned(ops[q], next, patch)
  BY DEF TransitionOperation, StoreTypeOK
<1>3. \A o \in Operations : o # q => ops'[o] = ops[o]
  BY DEF TransitionOperation, StoreTypeOK
<1>4. UNCHANGED <<planVars, bindingVars>>
  BY DEF TransitionOperation
<1>5. /\ ops'[q].status = next
      /\ ops'[q].kind = ops[q].kind /\ ops'[q].plan = ops[q].plan
      /\ ops'[q].lock = ops[q].lock /\ ops'[q].binding = ops[q].binding
      /\ ops'[q].attempts = IF next = "applying" THEN ops[q].attempts + 1
                                                 ELSE ops[q].attempts
      /\ ops'[q].target = Recorded(ops[q].target, patch.target)
      /\ ops'[q].verified = (ops[q].verified \/ patch.verified)
  BY <1>1, <1>2, TransitionedColumns
<1>6. /\ ops[q].status \in expected
      /\ next \in Transitions[ops[q].status]
      /\ Recordable(ops[q].target, patch.target)
      /\ ops[q].kind = "create" /\ next = "verifying"
           => Recorded(ops[q].target, patch.target) # None
  BY DEF TransitionOperation, MayTransition, TransitionAllowed
<1> QED
  BY <1>3, <1>4, <1>5, <1>6, Zenon DEF Moves

\* What preparing does: one absent operation appears.
Prepares(q, p, b, kind, lock) ==
  /\ ~Present(q)
  /\ plans[p] # None /\ plans[p].binding = b
  /\ ops'[q].status = "prepared"
  /\ ops'[q].kind = kind
  /\ ops'[q].plan = p
  /\ ops'[q].lock = lock
  /\ ops'[q].binding = IF kind = "create" THEN None ELSE b
  /\ ops'[q].attempts = 0
  /\ ops'[q].target = None
  /\ \A o \in Operations : o # q => ops'[o] = ops[o] /\ intents'[o] = intents[o]
  /\ UNCHANGED <<planVars, bindings, allow, baselines, mapped>>

LEMMA PrepareCreatePrepares ==
  ASSUME StoreTypeOK, NEW q \in Operations, NEW p \in Plans, NEW key, NEW payload,
         PrepareCreate(q, p, key, payload)
  PROVE  /\ Prepares(q, p, None, "create", CreateLock(plans[p].src))
         /\ intents'[q] = plans[p].src
         /\ LockFree(CreateLock(plans[p].src))
<1>1. ops'[q] = Prepared(key, "create", None, CreateLock(plans[p].src), p, payload)
  BY DEF PrepareCreate, StoreTypeOK
<1>2. \A o \in Operations : o # q => ops'[o] = ops[o] /\ intents'[o] = intents[o]
  BY DEF PrepareCreate, StoreTypeOK
<1>3. /\ ops'[q].status = "prepared" /\ ops'[q].kind = "create" /\ ops'[q].plan = p
      /\ ops'[q].lock = CreateLock(plans[p].src) /\ ops'[q].binding = None
      /\ ops'[q].attempts = 0 /\ ops'[q].target = None
  BY <1>1 DEF Prepared, NoOperation
<1>4. intents'[q] = plans[p].src
  BY DEF PrepareCreate, StoreTypeOK
<1> QED
  BY <1>2, <1>3, <1>4 DEF PrepareCreate, Prepares

LEMMA PrepareBindingPrepares ==
  ASSUME StoreTypeOK, NEW q \in Operations, NEW p \in Plans, NEW key, NEW payload,
         NEW b \in Bindings, NEW kind,
         PrepareBindingOperation(q, p, b, kind, key, payload)
  PROVE  /\ Prepares(q, p, b, kind, BindingLock(b))
         /\ kind # "create"
         /\ intents' = intents
         /\ LockFree(BindingLock(b))
<1>1. ops'[q] = Prepared(key, kind, b, BindingLock(b), p, payload)
  BY DEF PrepareBindingOperation, StoreTypeOK
<1>2. intents' = intents /\ kind # "create"
  BY DEF PrepareBindingOperation, bindingVars
<1>3. \A o \in Operations : o # q => ops'[o] = ops[o] /\ intents'[o] = intents[o]
  BY <1>2 DEF PrepareBindingOperation, StoreTypeOK
<1>4. /\ ops'[q].status = "prepared" /\ ops'[q].kind = kind /\ ops'[q].plan = p
      /\ ops'[q].lock = BindingLock(b) /\ ops'[q].binding = b
      /\ ops'[q].attempts = 0 /\ ops'[q].target = None
  BY <1>1 DEF Prepared, NoOperation
<1> QED
  BY <1>2, <1>3, <1>4 DEF PrepareBindingOperation, Prepares, bindingVars

\* What the finalizers do to the operation they resolve, and to no other.
Succeeds(q) ==
  /\ ops[q].status = "verifying"
  /\ ops'[q].status = "succeeded"
  /\ ops'[q].kind = ops[q].kind
  /\ ops'[q].plan = ops[q].plan
  /\ ops'[q].lock = ops[q].lock
  /\ ops[q].kind # "create" => ops'[q].binding = ops[q].binding
  /\ ops'[q].attempts = ops[q].attempts
  /\ ops'[q].target = ops[q].target
  /\ ops'[q].verified
  /\ \A o \in Operations : o # q => ops'[o] = ops[o]
  /\ UNCHANGED <<planVars, intents>>

LEMMA FinalizeSucceeds ==
  ASSUME StoreTypeOK, NEW q \in Operations, NEW b \in Bindings, NEW t \in Chats, NEW doc,
         FinalizeVerifiedCreate(q, b, t, doc)
  PROVE  Succeeds(q) /\ ops[q].kind = "create" /\ ops[q].target = t
<1>1. ops'[q] = [ops[q] EXCEPT !.status = "succeeded", !.binding = b,
                               !.readback = FALSE, !.verified = TRUE]
  BY DEF FinalizeVerifiedCreate, StoreTypeOK
<1>2. \A o \in Operations : o # q => ops'[o] = ops[o]
  BY DEF FinalizeVerifiedCreate, StoreTypeOK
<1>3. /\ ops[q].status = "verifying" /\ ops[q].kind = "create" /\ ops[q].target = t
      /\ UNCHANGED <<planVars, intents>>
  BY DEF FinalizeVerifiedCreate, ExpectsResult
<1>4. /\ ops'[q].status = "succeeded" /\ ops'[q].kind = ops[q].kind
      /\ ops'[q].plan = ops[q].plan /\ ops'[q].lock = ops[q].lock
      /\ ops'[q].attempts = ops[q].attempts /\ ops'[q].target = ops[q].target
      /\ ops'[q].verified
  BY <1>1 DEF StoreTypeOK, OpRow
<1> QED
  BY <1>2, <1>3, <1>4 DEF Succeeds

LEMMA CompleteSucceeds ==
  ASSUME StoreTypeOK, NEW q \in Operations, NEW version, NEW doc,
         CompleteVerifiedUpdate(q, version, doc)
  PROVE  Succeeds(q) /\ ops[q].kind = "update"
<1>1. ops'[q] = [ops[q] EXCEPT !.status = "succeeded", !.readback = FALSE,
                               !.verified = TRUE]
  BY DEF CompleteVerifiedUpdate, StoreTypeOK
<1>2. \A o \in Operations : o # q => ops'[o] = ops[o]
  BY DEF CompleteVerifiedUpdate, StoreTypeOK
<1>3. /\ ops[q].status = "verifying" /\ ops[q].kind = "update"
      /\ UNCHANGED <<planVars, intents>>
  BY DEF CompleteVerifiedUpdate, ExpectsResult
<1>4. /\ ops'[q].status = "succeeded" /\ ops'[q].kind = ops[q].kind
      /\ ops'[q].plan = ops[q].plan /\ ops'[q].lock = ops[q].lock
      /\ ops'[q].binding = ops[q].binding
      /\ ops'[q].attempts = ops[q].attempts /\ ops'[q].target = ops[q].target
      /\ ops'[q].verified
  BY <1>1 DEF StoreTypeOK, OpRow
<1> QED
  BY <1>2, <1>3, <1>4 DEF Succeeds

\* What the sweep of the next process does: the columns but for status and readback stay.
Sweeps ==
  /\ \A o \in Operations :
       /\ ops'[o].status = IF WasWriting(o) THEN "needs_reconciliation" ELSE ops[o].status
       /\ ops'[o].kind = ops[o].kind
       /\ ops'[o].plan = ops[o].plan
       /\ ops'[o].lock = ops[o].lock
       /\ ops'[o].binding = ops[o].binding
       /\ ops'[o].attempts = ops[o].attempts
       /\ ops'[o].target = ops[o].target
       /\ ops'[o].verified = ops[o].verified
  /\ UNCHANGED <<planVars, bindingVars>>

LEMMA RecoverSweeps ==
  ASSUME StoreTypeOK, RecoverInterrupted
  PROVE  Sweeps
<1>1. UNCHANGED <<planVars, bindingVars>>
  BY DEF RecoverInterrupted
<1>2. ASSUME NEW o \in Operations
      PROVE  /\ ops'[o].status = IF WasWriting(o) THEN "needs_reconciliation"
                                                  ELSE ops[o].status
             /\ ops'[o].kind = ops[o].kind /\ ops'[o].plan = ops[o].plan
             /\ ops'[o].lock = ops[o].lock /\ ops'[o].binding = ops[o].binding
             /\ ops'[o].attempts = ops[o].attempts /\ ops'[o].target = ops[o].target
             /\ ops'[o].verified = ops[o].verified
  <2>1. CASE WasWriting(o)
    <3>1. ops'[o] = [ops[o] EXCEPT !.status = "needs_reconciliation", !.readback = TRUE]
      BY <2>1 DEF RecoverInterrupted
    <3> QED
      BY <2>1, <3>1 DEF StoreTypeOK, OpRow
  <2>2. CASE ~WasWriting(o)
    <3>1. ops'[o] = ops[o]
      BY <2>2 DEF RecoverInterrupted
    <3> QED
      BY <2>2, <3>1
  <2> QED
    BY <2>1, <2>2
<1> QED
  BY <1>1, <1>2 DEF Sweeps

LEMMA PlanKept ==
  ASSUME StoreTypeOK, NEW p \in Plans, plans[p] # None, plans'[p] = plans[p]
  PROVE  plans'[p] # None /\ \E flag \in BOOLEAN : plans'[p] = [plans[p] EXCEPT !.confirmed = flag]
<1>1. plans[p] \in PlanRow
  BY DEF StoreTypeOK
<1>2. plans[p] = [plans[p] EXCEPT !.confirmed = plans[p].confirmed] /\ plans[p].confirmed \in BOOLEAN
  BY <1>1 DEF PlanRow
<1> QED
  BY <1>2

LEMMA PlansPersist ==
  ASSUME StoreTypeOK, [AnyCall]_storeVars, NEW p \in Plans, plans[p] # None
  PROVE  plans'[p] # None /\ \E flag \in BOOLEAN : plans'[p] = [plans[p] EXCEPT !.confirmed = flag]
<1>1. CASE UNCHANGED plans
  BY <1>1, PlanKept
<1>2. ASSUME NEW q \in Plans, NEW row \in PlanRow, SavePlan(q, row)
      PROVE  plans'[p] = plans[p]
  BY <1>2 DEF SavePlan, StoreTypeOK
<1>3. ASSUME NEW q \in Plans, ConfirmPlan(q)
      PROVE  \/ plans'[p] = plans[p]
             \/ plans'[p] = [plans[p] EXCEPT !.confirmed = TRUE]
  <2>1. plans' = [plans EXCEPT ![q] = [plans[q] EXCEPT !.confirmed = TRUE]]
    BY <1>3 DEF ConfirmPlan
  <2> QED
    BY <2>1 DEF StoreTypeOK
<1>4. plans[p] \in PlanRow
  BY DEF StoreTypeOK
<1>5. [plans[p] EXCEPT !.confirmed = TRUE] \in PlanRow
  BY <1>4 DEF PlanRow
<1>6. [plans[p] EXCEPT !.confirmed = TRUE] # None
  BY <1>5, AbsentAssumption
<1>7. CASE AnyPlanCall
  BY <1>1, <1>2, <1>3, <1>6, <1>7, PlanKept DEF AnyPlanCall, PutSourceSnapshot, Expire
<1>8. CASE AnyCall /\ ~AnyPlanCall
  <2>1. AnyPrepare => UNCHANGED plans
    BY PrepareCreatePrepares, PrepareBindingPrepares DEF AnyPrepare, Prepares, planVars
  <2>2. AnyTransition => UNCHANGED plans
    BY Zenon DEF AnyTransition, TransitionOperation, planVars
  <2>3. AnyResult => UNCHANGED plans
    BY FinalizeSucceeds, CompleteSucceeds DEF AnyResult, Succeeds, planVars
  <2>4. RecoverInterrupted => UNCHANGED plans
    BY Zenon DEF RecoverInterrupted, planVars
  <2> QED
    BY <1>1, <1>8, <2>1, <2>2, <2>3, <2>4 DEF AnyCall
<1> QED
  BY <1>1, <1>7, <1>8 DEF storeVars

LEMMA BindingsPersist ==
  ASSUME StoreTypeOK, [AnyCall]_storeVars, NEW b \in Bindings, Bound(b)
  PROVE  /\ Bound(b)'
         /\ bindings'[b].target = bindings[b].target
         /\ bindings'[b].creator = bindings[b].creator
<1>1. CASE bindings'[b] = bindings[b]
  BY <1>1 DEF Bound
<1>2. CASE bindings'[b] # bindings[b]
  <2>1. AnyCall
    BY <1>2 DEF storeVars
  <2>2. /\ bindings'[b].version = bindings[b].version + 1
        /\ bindings'[b].target = bindings[b].target
        /\ bindings'[b].creator = bindings[b].creator
    BY <1>2, <2>1, BindingStep
  <2>3. bindings[b].version \in Nat
    BY DEF StoreTypeOK, BindingRow
  <2> QED
    BY <2>2, <2>3 DEF Bound
<1> QED
  BY <1>1, <1>2

LEMMA OperationsPersist ==
  ASSUME StoreTypeOK, [AnyCall]_storeVars, NEW o \in Operations, Present(o)
  PROVE  /\ Present(o)'
         /\ ops'[o].kind = ops[o].kind
         /\ ops'[o].plan = ops[o].plan
         /\ ops'[o].attempts >= ops[o].attempts
         /\ ops[o].kind # "create" => ops'[o].binding = ops[o].binding
         /\ ops[o].target # None => ops'[o].target = ops[o].target
         /\ intents'[o] = intents[o]
<1>0. ops[o].attempts \in Nat
  BY DEF StoreTypeOK, OpRow
<1>1. CASE ops'[o] = ops[o] /\ intents'[o] = intents[o]
  BY <1>0, <1>1 DEF Present
<1>2. CASE AnyPlanCall
  BY <1>1, <1>2 DEF AnyPlanCall, PutSourceSnapshot, SavePlan, ConfirmPlan, Expire, bindingVars
<1>3. CASE AnyPrepare
  <2>1. PICK q \in Operations, p \in Plans, key \in Keys, payload \in Payloads :
          \/ PrepareCreate(q, p, key, payload)
          \/ \E b \in Bindings, kind \in Kinds :
               PrepareBindingOperation(q, p, b, kind, key, payload)
    BY <1>3 DEF AnyPrepare
  <2>2. CASE PrepareCreate(q, p, key, payload)
    BY <1>1, <2>2, PrepareCreatePrepares DEF Prepares
  <2>3. CASE \E b \in Bindings, kind \in Kinds :
               PrepareBindingOperation(q, p, b, kind, key, payload)
    BY <1>1, <2>3, PrepareBindingPrepares DEF Prepares
  <2> QED
    BY <2>1, <2>2, <2>3
<1>4. CASE AnyTransition
  <2>1. PICK q \in Operations, next \in Statuses, patch \in Patch :
          TransitionOperation(q, Statuses, next, patch)
    BY <1>4 DEF AnyTransition
  <2>2. Moves(q, next, patch) /\ Recordable(ops[q].target, patch.target)
    BY <2>1, TransitionMoves
  <2>3. CASE o = q
    <3>1. next # "absent" /\ intents' = intents
      BY <2>2 DEF Moves, bindingVars, Statuses, Unresolved, Terminal
    <3> QED
      BY <1>0, <2>2, <2>3, <3>1 DEF Moves, Present, Recordable, Recorded
  <2>4. CASE o # q
    BY <1>1, <2>2, <2>4 DEF Moves, bindingVars
  <2> QED
    BY <2>3, <2>4
<1>5. CASE AnyResult
  <2>1. PICK q \in Operations : Succeeds(q)
    BY <1>5, FinalizeSucceeds, CompleteSucceeds DEF AnyResult
  <2>2. CASE o = q
    BY <1>0, <2>1, <2>2 DEF Succeeds, Present
  <2>3. CASE o # q
    BY <1>1, <2>1, <2>3 DEF Succeeds
  <2> QED
    BY <2>2, <2>3
<1>6. CASE RecoverInterrupted
  BY <1>0, <1>6, RecoverSweeps DEF Sweeps, Present, bindingVars
<1>7. CASE UNCHANGED storeVars
  BY <1>1, <1>7 DEF storeVars
<1> QED
  BY <1>2, <1>3, <1>4, <1>5, <1>6, <1>7 DEF AnyCall

LEMMA StoreKeeps == StoreTypeOK /\ [AnyCall]_storeVars => StorePersists
BY PlansPersist, BindingsPersist, OperationsPersist DEF StorePersists

-------------------------------------------------------------------------------
(* Every step of the engine is a call the store knows how to answer *)

\* A call at work holds a present operation of an applicable plan.
LEMMA HeldOperation ==
  ASSUME ServiceInv, NEW c \in Callers, call[c].at \in Operating
  PROVE  /\ call[c].op \in Operations
         /\ Present(call[c].op)
         /\ call[c].plan \in Plans
         /\ call[c].plan = ops[call[c].op].plan
         /\ OpFits(call[c].op)
         /\ plans[call[c].plan] \in PlanRow
         /\ plans[call[c].plan] # None
         /\ plans[call[c].plan].status \in Settled
         /\ PlanFits(plans[call[c].plan])
<1>1. call[c] \in CallRow /\ plans \in [Plans -> PlanRow \cup {None}]
  BY DEF ServiceInv, ServiceTypeOK, StoreTypeOK
<1>2. call[c].op # None /\ Present(call[c].op) /\ call[c].plan = ops[call[c].op].plan
  BY DEF ServiceInv, CallsFit, CallFits
<1>3. call[c].op \in Operations
  BY <1>1, <1>2 DEF CallRow
<1>4. OpFits(call[c].op)
  BY <1>2, <1>3 DEF ServiceInv, OpsFit, OpStands
<1>5. /\ call[c].plan \in Plans /\ plans[call[c].plan] # None
      /\ plans[call[c].plan].status \in Settled
  BY <1>2, <1>4 DEF OpFits
<1>6. PlanFits(plans[call[c].plan])
  BY <1>5 DEF ServiceInv, PlansFit
<1> QED
  BY <1>1, <1>2, <1>3, <1>4, <1>5, <1>6

\* What the engine does to the store, as a call of the store.
LEMMA TransitionIsCall ==
  ASSUME StoreTypeOK, NEW o \in Operations, NEW next \in Statuses, NEW patch \in Patch,
         NEW expected, TransitionOperation(o, expected, next, patch)
  PROVE  AnyCall
<1>1. ops[o].status \in Statuses \cup {"absent"}
  BY DEF StoreTypeOK, OpRow
<1>2. next \in TransitionAllowed(ops[o].status)
  BY DEF TransitionOperation, MayTransition
<1>3. ops[o].status \in Statuses
  BY <1>1, <1>2, TransitionsLeaveUnresolved DEF Statuses
<1>4. TransitionOperation(o, Statuses, next, patch)
  BY <1>2, <1>3 DEF TransitionOperation, MayTransition
<1> QED
  BY <1>4 DEF AnyCall, AnyTransition

\* The transitions of the engine record well-formed patches.
LEMMA NoPatchType ==
  ASSUME NEW readback \in BOOLEAN, NEW verified \in BOOLEAN,
         NEW target \in Chats \cup {None}, NEW receipt \in Receipts
  PROVE  /\ [NoPatch EXCEPT !.readback = readback] \in Patch
         /\ [NoPatch EXCEPT !.readback = readback, !.verified = verified] \in Patch
         /\ [NoPatch EXCEPT !.readback = readback, !.target = target] \in Patch
         /\ [NoPatch EXCEPT !.receipt = receipt, !.readback = readback] \in Patch
         /\ [NoPatch EXCEPT !.target = target, !.receipt = receipt,
                            !.readback = readback] \in Patch
BY DEF NoPatch, Patch, Receipts

\* The actions of a call that leave the store alone, and those that do not.
Quiet(c) ==
  \/ \E s \in Sources : PreviewCreate(c, s) \/ \E b \in Bindings : PreviewUpdate(c, s, b)
  \/ PreviewRead(c)
  \/ \E p \in Plans : ApplyStart(c, p)
  \/ LoadBinding(c) \/ Reread(c) \/ Post(c) \/ Await(c) \/ Readback(c)
  \/ \E o \in Operations : RecoverStart(c, o)
  \/ ReconcileCreate(c) \/ ReconcileUpdate(c) \/ GiveUp(c)

Planning(c) == PersistSource(c) \/ PersistPlan(c) \/ Confirm(c)
Preparing(c) == ApplyCreate(c) \/ ApplyUpdate(c)
Moving(c) ==
  \/ FinishNoChange(c) \/ Begin(c) \/ RecordReceipt(c) \/ MarkUnknown(c) \/ MarkFailed(c)
  \/ Interrupt(c) \/ Resume(c)
Finishing(c) == FinishCreate(c) \/ FinishUpdate(c)

\* Open WebUI and its user.
Outside ==
  \/ \E r \in wire : LandCreate(r) \/ LandUpdate(r)
  \/ \E t \in Chats, edit \in Edits \cup {Pristine} : HumanEdit(t, edit)

LEMMA NextSplits ==
  Next <=> \/ \E c \in Callers : \/ Quiet(c) \/ Planning(c) \/ Preparing(c)
                                 \/ Moving(c) \/ Finishing(c)
           \/ Outside
           \/ \E p \in Plans : PlanExpires(p)
           \/ Restart
BY Zenon DEF Next, Preview, Apply, Execute, Recover, Environment, Quiet, Planning, Preparing,
       Moving, Finishing, Outside

LEMMA QuietStore == ASSUME NEW c \in Callers, Quiet(c) PROVE UNCHANGED storeVars
BY DEF Quiet, PreviewCreate, PreviewUpdate, PreviewRead, ApplyStart, LoadBinding, Reread,
       Post, Await, Readback, RecoverStart, ReconcileCreate, ReconcileUpdate, GiveUp

LEMMA OutsideStore == ASSUME Outside PROVE UNCHANGED <<storeVars, call>>
BY DEF Outside, LandCreate, LandUpdate, HumanEdit

LEMMA PlanningIsCall ==
  ASSUME ServiceInv, NEW c \in Callers, Planning(c)
  PROVE  AnyPlanCall
<1>1. call[c] \in CallRow
  BY DEF ServiceInv, ServiceTypeOK
<1>2. ASSUME call[c].at \in Drafting
      PROVE  call[c].draft \in PlanRow /\ call[c].draft.src \in Sources
  BY <1>1, <1>2 DEF ServiceInv, CallsFit, CallFits, CallRow, PlanRow
<1>3. CASE PersistSource(c)
  <2>1. At(c, "put") /\ PutSourceSnapshot(call[c].draft.src)
    BY <1>3 DEF PersistSource
  <2> QED
    BY <1>2, <2>1 DEF At, Drafting, AnyPlanCall
<1>4. CASE PersistPlan(c)
  <2>1. At(c, "save") /\ SavePlan(FreshPlan, call[c].draft)
        /\ \E p \in Plans : plans[p] = None
    BY <1>4 DEF PersistPlan
  <2>2. FreshPlan \in Plans
    BY <2>1 DEF FreshPlan
  <2> QED
    BY <1>2, <2>1, <2>2 DEF At, Drafting, AnyPlanCall
<1>5. CASE Confirm(c)
  <2>1. At(c, "confirm") /\ ConfirmPlan(call[c].plan)
    BY <1>5 DEF Confirm
  <2>2. call[c].plan \in Plans
    BY <1>1, <2>1 DEF At, Planned, ServiceInv, CallsFit, CallFits, CallRow
  <2> QED
    BY <2>1, <2>2 DEF AnyPlanCall
<1> QED
  BY <1>3, <1>4, <1>5 DEF Planning

\* Where a call prepares, its plan is there.
LEMMA PlannedPlan ==
  ASSUME ServiceInv, NEW c \in Callers, call[c].at \in Planned
  PROVE  /\ call[c].plan \in Plans
         /\ PlanOf(c) # None
         /\ PlanOf(c) \in PlanRow
         /\ PlanOf(c).status \in Settled
         /\ PlanFits(PlanOf(c))
<1>1. call[c] \in CallRow /\ plans \in [Plans -> PlanRow \cup {None}]
  BY DEF ServiceInv, ServiceTypeOK, StoreTypeOK
<1>2. call[c].plan # None /\ PlanOf(c) # None /\ PlanOf(c).status \in Settled
  BY DEF ServiceInv, CallsFit, CallFits, PlanOf
<1>3. call[c].plan \in Plans
  BY <1>1, <1>2 DEF CallRow
<1>4. PlanFits(PlanOf(c))
  BY <1>2, <1>3 DEF ServiceInv, PlansFit, PlanOf
<1> QED
  BY <1>1, <1>2, <1>3, <1>4 DEF PlanOf

LEMMA PreparingIsCall ==
  ASSUME DigestsCovered, ServiceInv, NEW c \in Callers, Preparing(c)
  PROVE  AnyPrepare
<1>1. At(c, "prepare") /\ SpareOperation
  BY DEF Preparing, ApplyCreate, ApplyUpdate
<1>2. /\ call[c].plan \in Plans /\ PlanOf(c) \in PlanRow
  BY <1>1, PlannedPlan DEF At, Planned
<1>3. FreshOperation \in Operations
  BY <1>1 DEF SpareOperation, FreshOperation
<1>4. KeyOf(PlanOf(c)) \in Keys /\ PayloadOf(PlanOf(c)) \in Payloads
  BY <1>2 DEF DigestsCovered
<1>5. CASE ApplyCreate(c)
  BY <1>2, <1>3, <1>4, <1>5 DEF ApplyCreate, AnyPrepare
<1>6. CASE ApplyUpdate(c)
  <2>1. PlanOf(c).binding \in Bindings
    BY <1>2, <1>6 DEF ApplyUpdate, PlanRow
  <2> QED
    BY <1>2, <1>3, <1>4, <1>6, <2>1 DEF ApplyUpdate, AnyPrepare, Kinds
<1> QED
  BY <1>5, <1>6 DEF Preparing

\* What the transitions of the engine are: from where, to where, which chat they record.
Advance(c, next, patch) ==
  LET row == ops[call[c].op] IN
  \/ /\ FinishNoChange(c)
     /\ row.status = "prepared" /\ next = "succeeded" /\ patch.target = None /\ patch.verified
  \/ /\ Begin(c)
     /\ row.status = "prepared" /\ next = "applying"
     /\ patch.target = IF row.kind = "create" THEN None ELSE TargetOf(c)
  \/ /\ RecordReceipt(c)
     /\ row.status = "applying" /\ next = "verifying"
     /\ patch.target = IF row.kind = "create" THEN CreatedChat(call[c].op) ELSE None
  \/ /\ MarkUnknown(c) \/ Interrupt(c)
     /\ row.status \in Uncertain /\ next = "needs_reconciliation" /\ patch.target = None
  \/ /\ MarkFailed(c)
     /\ row.status \in Unresolved /\ next = "failed" /\ patch.target = None
  \/ /\ Resume(c)
     /\ row.status = "needs_reconciliation" /\ next = "verifying" /\ patch.target = None

\* The chat an update is for, and the chat a landed create made.
LEMMA TargetsExist ==
  ASSUME ServiceInv, NEW c \in Callers, call[c].at \in Operating
  PROVE  /\ OpOf(c).kind # "create" =>
              /\ PlanOf(c).binding \in Bindings
              /\ Bound(PlanOf(c).binding)
              /\ TargetOf(c) \in Chats
         /\ At(c, "receipt") /\ OpOf(c).kind = "create" =>
              CreatedChat(call[c].op) \in Chats /\ Made(CreatedChat(call[c].op), call[c].op)
<1> DEFINE o == call[c].op
<1>1. /\ o \in Operations /\ OpFits(o) /\ PlanOf(c) \in PlanRow /\ PlanFits(PlanOf(c))
      /\ call[c].plan = ops[o].plan
  BY HeldOperation DEF PlanOf
<1>2. ASSUME OpOf(c).kind # "create"
      PROVE  /\ PlanOf(c).binding \in Bindings
             /\ Bound(PlanOf(c).binding)
             /\ TargetOf(c) \in Chats
  <2>1. PlanOf(c).binding \in Bindings
    BY <1>1, <1>2 DEF OpFits, OpOf, PlanOf
  <2>2. Bound(PlanOf(c).binding)
    BY <1>1, <2>1, NoneAssumption DEF PlanFits
  <2>3. Allowed(PlanOf(c).binding)
    BY <2>1, <2>2 DEF ServiceInv, StoreInv, EvidenceKept
  <2> QED
    BY <2>1, <2>2, <2>3 DEF Allowed, TargetOf
<1>3. ASSUME At(c, "receipt"), OpOf(c).kind = "create"
      PROVE  CreatedChat(o) \in Chats /\ Made(CreatedChat(o), o)
  <2>1. o \in landed
    BY <1>3 DEF ServiceInv, CallsFit, CallFits, At
  <2>2. \E t \in Chats : chats[t] # None /\ chats[t].by = o
    BY <1>3, <2>1 DEF ServiceInv, ChatsFit, OpOf, Made
  <2> QED
    BY <2>2 DEF CreatedChat, Made
<1> QED
  BY <1>2, <1>3

LEMMA MovingMoves ==
  ASSUME ServiceInv, NEW c \in Callers, Moving(c)
  PROVE  /\ call[c].at \in Operating
         /\ call[c].op \in Operations
         /\ AnyCall
         /\ \E next \in Statuses, patch \in Patch :
              /\ Moves(call[c].op, next, patch)
              /\ Recordable(ops[call[c].op].target, patch.target)
              /\ Advance(c, next, patch)
<1> DEFINE o == call[c].op
           Goal(next, patch) ==
             /\ Moves(o, next, patch)
             /\ Recordable(ops[o].target, patch.target)
<1>1. call[c].at \in Operating
  BY DEF Moving, FinishNoChange, Begin, RecordReceipt, MarkUnknown, MarkFailed, Interrupt,
         Resume, At, Operating, Updating, Attempted
<1>2. o \in Operations
  BY <1>1, HeldOperation
<1>3. StoreTypeOK
  BY DEF ServiceInv, ServiceTypeOK
<1>4. ASSUME NEW next \in Statuses, NEW patch \in Patch, NEW expected,
             TransitionOperation(o, expected, next, patch)
      PROVE  /\ AnyCall
             /\ Goal(next, patch)
             /\ ops[o].status \in expected
             /\ next \in Transitions[ops[o].status]
  BY <1>2, <1>3, <1>4, TransitionIsCall, TransitionMoves
<1>5. /\ {"succeeded", "applying", "verifying", "needs_reconciliation", "failed"}
           \subseteq Statuses
      /\ TRUE \in BOOLEAN /\ FALSE \in BOOLEAN
      /\ None \in Chats \cup {None} /\ None \in Receipts /\ o \in Receipts
  BY <1>2 DEF Statuses, Unresolved, Terminal, Receipts
<1>6. CASE FinishNoChange(c)
  <2> DEFINE patch == [NoPatch EXCEPT !.readback = FALSE, !.verified = TRUE]
  <2>1. patch \in Patch /\ patch.target = None /\ patch.verified
    BY <1>5, NoPatchType DEF NoPatch
  <2>2. TransitionOperation(o, {"prepared"}, "succeeded", patch)
    BY <1>6 DEF FinishNoChange
  <2> HIDE DEF patch
  <2>3. AnyCall /\ Goal("succeeded", patch) /\ ops[o].status = "prepared"
    BY <1>4, <1>5, <2>1, <2>2
  <2> QED
    BY <1>1, <1>2, <1>5, <1>6, <2>1, <2>3 DEF Advance
<1>7. CASE Begin(c)
  <2> DEFINE target == IF OpOf(c).kind = "create" THEN None ELSE TargetOf(c)
             patch == [NoPatch EXCEPT !.readback = FALSE, !.target = target]
  <2>1. target \in Chats \cup {None}
    BY <1>1, TargetsExist
  <2>2. patch \in Patch /\ patch.target = target
    BY <1>5, <2>1, NoPatchType DEF NoPatch
  <2>3. TransitionOperation(o, {"prepared"}, "applying", patch)
    BY <1>7 DEF Begin
  <2> HIDE DEF patch
  <2>4. AnyCall /\ Goal("applying", patch) /\ ops[o].status = "prepared"
    BY <1>4, <1>5, <2>2, <2>3
  <2> QED
    BY <1>1, <1>2, <1>5, <1>7, <2>2, <2>4 DEF Advance, OpOf
<1>8. CASE RecordReceipt(c)
  <2> DEFINE t == CreatedChat(o)
             created == [NoPatch EXCEPT !.target = t, !.receipt = t, !.readback = TRUE]
             updated == [NoPatch EXCEPT !.receipt = o, !.readback = TRUE]
             patch == IF OpOf(c).kind = "create" THEN created ELSE updated
  <2>1. OpOf(c).kind = "create" => t \in Chats
    BY <1>1, <1>8, TargetsExist DEF RecordReceipt
  <2>2. OpOf(c).kind = "create" => created \in Patch /\ created.target = t
    BY <1>5, <2>1, NoPatchType DEF Receipts, NoPatch
  <2>3. updated \in Patch /\ updated.target = None
    BY <1>5, NoPatchType DEF NoPatch
  <2>4. /\ patch \in Patch
        /\ patch.target = IF ops[o].kind = "create" THEN t ELSE None
    BY <2>2, <2>3 DEF OpOf
  <2>5. TransitionOperation(o, {"applying"}, "verifying", patch)
    BY <1>8 DEF RecordReceipt
  <2> HIDE DEF patch
  <2>6. AnyCall /\ Goal("verifying", patch) /\ ops[o].status = "applying"
    BY <1>4, <1>5, <2>4, <2>5
  <2> QED
    BY <1>1, <1>2, <1>5, <1>8, <2>4, <2>6 DEF Advance
<1>9. CASE MarkUnknown(c) \/ Interrupt(c)
  <2> DEFINE patch == [NoPatch EXCEPT !.readback = TRUE]
  <2>1. patch \in Patch /\ patch.target = None
    BY <1>5, NoPatchType DEF NoPatch
  <2>2. \/ TransitionOperation(o, {"applying", "verifying", "needs_reconciliation"},
                               "needs_reconciliation", patch)
        \/ TransitionOperation(o, {"applying", "verifying"}, "needs_reconciliation", patch)
    BY <1>9 DEF MarkUnknown, Interrupt
  <2> HIDE DEF patch
  <2>3. AnyCall /\ Goal("needs_reconciliation", patch) /\ ops[o].status \in Uncertain
    BY <1>4, <1>5, <2>1, <2>2 DEF Uncertain
  <2> QED
    BY <1>1, <1>2, <1>5, <1>9, <2>1, <2>3 DEF Advance
<1>10. CASE MarkFailed(c)
  <2> DEFINE patch == [NoPatch EXCEPT !.readback = FALSE]
  <2>1. patch \in Patch /\ patch.target = None
    BY <1>5, NoPatchType DEF NoPatch
  <2>2. TransitionOperation(o, Unresolved, "failed", patch)
    BY <1>10 DEF MarkFailed
  <2> HIDE DEF patch
  <2>3. AnyCall /\ Goal("failed", patch) /\ ops[o].status \in Unresolved
    BY <1>4, <1>5, <2>1, <2>2
  <2> QED
    BY <1>1, <1>2, <1>5, <1>10, <2>1, <2>3 DEF Advance
<1>11. CASE Resume(c)
  <2> DEFINE patch == [NoPatch EXCEPT !.readback = TRUE]
  <2>1. patch \in Patch /\ patch.target = None
    BY <1>5, NoPatchType DEF NoPatch
  <2>2. TransitionOperation(o, {"needs_reconciliation"}, "verifying", patch)
    BY <1>11 DEF Resume
  <2> HIDE DEF patch
  <2>3. AnyCall /\ Goal("verifying", patch) /\ ops[o].status = "needs_reconciliation"
    BY <1>4, <1>5, <2>1, <2>2
  <2> QED
    BY <1>1, <1>2, <1>5, <1>11, <2>1, <2>3 DEF Advance
<1> QED
  BY <1>6, <1>7, <1>8, <1>9, <1>10, <1>11 DEF Moving

\* A call that finishes holds the document it read, and knows the chat of its create.
LEMMA FinishHolds ==
  ASSUME ServiceInv, NEW c \in Callers, At(c, "finish")
  PROVE  /\ call[c].op \in Operations
         /\ call[c].doc \in Docs
         /\ call[c].version \in Nat
         /\ call[c].op \in landed
         /\ PlanOf(c) \in PlanRow /\ PlanFits(PlanOf(c)) /\ PlanOf(c) # None
         /\ OpFits(call[c].op) /\ call[c].plan = OpOf(c).plan
         /\ HasOperationMarker(call[c].doc, call[c].op, OpOf(c).kind = "create")
         /\ MatchesPlanned(call[c].doc, PlanOf(c).desired)
<1>1. call[c].at \in Operating /\ call[c].at \in Proven
  BY DEF At, Operating, Attempted, Proven
<1>2. CallFits(c) /\ call[c] \in CallRow
  BY DEF ServiceInv, ServiceTypeOK, CallsFit
<1>3. /\ call[c].op \in landed /\ call[c].doc # None
      /\ HasOperationMarker(call[c].doc, call[c].op, OpOf(c).kind = "create")
      /\ MatchesPlanned(call[c].doc, PlanOf(c).desired)
  BY <1>1, <1>2, Zenon DEF CallFits, OpOf, PlanOf
<1>4. call[c].doc \in Docs /\ call[c].version \in Nat
  BY <1>2, <1>3 DEF CallRow
<1> QED
  BY <1>1, <1>3, <1>4, HeldOperation DEF PlanOf, OpOf

LEMMA FinishingIsCall ==
  ASSUME ServiceInv, NEW c \in Callers, Finishing(c)
  PROVE  /\ AnyResult
         /\ At(c, "finish")
         /\ \/ /\ FinishCreate(c)
               /\ FreshBinding \in Bindings
               /\ OpOf(c).target \in Chats
               /\ FinalizeVerifiedCreate(call[c].op, FreshBinding, OpOf(c).target, call[c].doc)
            \/ /\ FinishUpdate(c)
               /\ CompleteVerifiedUpdate(call[c].op, call[c].version, call[c].doc)
<1>1. At(c, "finish")
  BY DEF Finishing, FinishCreate, FinishUpdate
<1>2. CASE FinishCreate(c)
  <2>1. /\ FinalizeVerifiedCreate(call[c].op, FreshBinding, OpOf(c).target, call[c].doc)
        /\ \E b \in Bindings : ~Bound(b)
    BY <1>2 DEF FinishCreate
  <2>2. FreshBinding \in Bindings
    BY <2>1 DEF FreshBinding
  <2>3. ops[call[c].op].kind = "create" /\ ops[call[c].op].status = "verifying"
    BY <2>1 DEF FinalizeVerifiedCreate, ExpectsResult
  <2>4. call[c].op \in Operations /\ OpFits(call[c].op)
    BY <1>1, FinishHolds
  <2>5. ops[call[c].op] \in OpRow
    BY <2>4 DEF ServiceInv, ServiceTypeOK, StoreTypeOK
  <2>6. OpOf(c).target \in Chats
    BY <2>3, <2>4, <2>5 DEF OpFits, OpRow, OpOf
  <2> QED
    BY <1>1, <1>2, <2>1, <2>2, <2>6, FinishHolds DEF AnyResult
<1>3. CASE FinishUpdate(c)
  <2>1. CompleteVerifiedUpdate(call[c].op, call[c].version, call[c].doc)
    BY <1>3 DEF FinishUpdate
  <2> QED
    BY <1>1, <1>3, <2>1, FinishHolds DEF AnyResult
<1> QED
  BY <1>2, <1>3 DEF Finishing

\* The engine is a client of the store.
LEMMA StepIsCall == DigestsCovered /\ ServiceInv /\ [Next]_vars => [AnyCall]_storeVars
<1> SUFFICES ASSUME DigestsCovered, ServiceInv, Next
             PROVE  [AnyCall]_storeVars
  BY DEF vars
<1>1. ASSUME NEW c \in Callers, Quiet(c) PROVE UNCHANGED storeVars
  BY <1>1, QuietStore
<1>2. ASSUME NEW c \in Callers, Planning(c) \/ Preparing(c) \/ Moving(c) \/ Finishing(c)
      PROVE  AnyCall
  BY <1>2, PlanningIsCall, PreparingIsCall, MovingMoves, FinishingIsCall DEF AnyCall
<1>3. Outside => UNCHANGED storeVars
  BY OutsideStore
<1>4. ASSUME NEW p \in Plans, PlanExpires(p) PROVE AnyCall
  BY <1>4 DEF PlanExpires, AnyCall, AnyPlanCall
<1>5. Restart => AnyCall
  BY DEF Restart, AnyCall
<1> QED
  BY <1>1, <1>2, <1>3, <1>4, <1>5, NextSplits

LEMMA StepStore ==
  DigestsCovered /\ ServiceInv /\ [Next]_vars => StoreTypeOK' /\ StoreInv' /\ StorePersists
<1> SUFFICES ASSUME DigestsCovered, ServiceInv, [Next]_vars
             PROVE  StoreTypeOK' /\ StoreInv' /\ StorePersists
  OBVIOUS
<1>1. StoreTypeOK /\ StoreInv /\ [AnyCall]_storeVars
  BY StepIsCall DEF ServiceInv, ServiceTypeOK
<1>2. StoreTypeOK' /\ StorePersists
  BY <1>1, StepTypeCorrect, StoreKeeps
<1>3. StoreInv'
  BY <1>1, StepEvidence, StepShareClaimed, StepHistory DEF StoreInv
<1> QED
  BY <1>2, <1>3

-------------------------------------------------------------------------------
(* The values of the engine are well formed *)

LEMMA SourceColumns ==
  ASSUME NEW s \in Sources
  PROVE  s.messages \in SUBSET Messages /\ s.text \in Texts
BY SourcesAssumption DEF SourceRow

LEMMA BuildFreshType == ASSUME NEW s \in Sources PROVE BuildFresh(s) \in Docs
BY SourceColumns DEF BuildFresh, Docs, Marker

\* Building on a document adds the source's messages and keeps the rest.
LEMMA BuildFromType ==
  ASSUME NEW s \in Sources, NEW d \in Docs
  PROVE  /\ BuildFrom(s, d) \in Docs
         /\ BuildFrom(s, d).messages = d.messages \cup s.messages
         /\ BuildFrom(s, d).text = s.text
         /\ BuildFrom(s, d).edit = d.edit
         /\ BuildFrom(s, d).by = d.by
BY SourceColumns DEF BuildFrom, Docs, Marker

\* Stamping changes nothing but the marks.
LEMMA StampType ==
  ASSUME NEW d \in Docs, NEW o \in Operations, NEW create \in BOOLEAN
  PROVE  /\ Stamp(d, o, create) \in Docs
         /\ Stamp(d, o, create).last = o
         /\ Stamp(d, o, create).by = IF create THEN o ELSE d.by
BY DEF Stamp, Docs, Marker

LEMMA CreatePlanFits ==
  ASSUME NEW s \in Sources
  PROVE  CreatePlan(s) \in PlanRow /\ PlanFits(CreatePlan(s))
<1>1. CreateStatus(s) \in PlanStatus /\ CreateStatus(s) # "no_change"
  BY DEF CreateStatus, PlanStatus
<1>2. CreatePlan(s) \in PlanRow
  BY <1>1, BuildFreshType DEF CreatePlan, PlanRow
<1>3. /\ CreatePlan(s).binding = None /\ CreatePlan(s).version = 0
      /\ CreatePlan(s).src = s /\ CreatePlan(s).desired = BuildFresh(s)
      /\ CreatePlan(s).status # "no_change"
  BY <1>1 DEF CreatePlan
<1> QED
  BY <1>2, <1>3 DEF PlanFits

LEMMA UpdatePlanType ==
  ASSUME NEW s \in Sources, NEW b \in Bindings, NEW version \in Nat,
         NEW prev \in Sources, NEW base \in Docs, NEW target \in Docs
  PROVE  UpdatePlan(s, b, version, prev, base, target) \in PlanRow
<1>1. UpdateStatus(prev, s, base, target) \in PlanStatus
  BY DEF UpdateStatus, PlanStatus
<1>2. BuildFrom(s, target) \in Docs
  BY BuildFromType
<1> QED
  BY <1>1, <1>2 DEF UpdatePlan, PlanRow

\* An applicable update plan, drawn up from a baseline with the content of the
\* previous source, wants exactly the new source on top of it.
LEMMA UpdatePlanFits ==
  ASSUME NEW s \in Sources, NEW b \in Bindings, NEW version \in Nat,
         NEW prev \in Sources, NEW base \in Docs, NEW target \in Docs,
         Bound(b), base.messages = prev.messages, base.edit = Pristine,
         base.by = bindings[b].creator
  PROVE  PlanFits(UpdatePlan(s, b, version, prev, base, target))
<1> DEFINE row == UpdatePlan(s, b, version, prev, base, target)
           status == UpdateStatus(prev, s, base, target)
<1>1. row.binding = b /\ row.src = s /\ row.status = status
  BY DEF UpdatePlan
<1>2. b # None
  BY NoneAssumption
<1>3. ASSUME status \in Settled
      PROVE  /\ target = base /\ prev.messages \subseteq s.messages
             /\ row.desired = BuildFrom(s, target)
  BY <1>3 DEF UpdateStatus, UpdateConflict, Settled, UpdatePlan
<1>4. ASSUME status \in Settled
      PROVE  /\ row.desired.messages = s.messages /\ row.desired.text = s.text
             /\ row.desired.edit = Pristine /\ row.desired.by = bindings[b].creator
  <2>1. /\ BuildFrom(s, base).messages = base.messages \cup s.messages
        /\ BuildFrom(s, base).text = s.text
        /\ BuildFrom(s, base).edit = base.edit
        /\ BuildFrom(s, base).by = base.by
    BY BuildFromType
  <2>2. base.messages \cup s.messages = s.messages
    BY <1>3, <1>4
  <2>3. row.desired = BuildFrom(s, base)
    BY <1>3, <1>4
  <2> HIDE DEF row, status
  <2> QED
    BY <2>1, <2>2, <2>3
<1> HIDE DEF row, status
<1>5. PlanFits(row)
  BY <1>1, <1>2, <1>4 DEF PlanFits
<1> QED
  BY <1>5 DEF row

\* The state of a binding, as GetBindingState answers it.
LEMMA BindingState ==
  ASSUME ServiceInv, NEW b \in Bindings, HasBindingState(b)
  PROVE  /\ Bound(b)
         /\ bindings[b].version \in Nat
         /\ bindings[b].src \in Sources
         /\ BaselineOf(b) \in Docs
         /\ BaselineOf(b).messages = bindings[b].src.messages
         /\ BaselineOf(b).edit = Pristine
         /\ BaselineOf(b).by = bindings[b].creator
<1> DEFINE o == CHOOSE o \in Operations : o \in BaselinesAt(b, bindings[b].version)
<1>1. Bound(b) /\ bindings[b].version \in Nat
  BY DEF HasBindingState, Allowed, ServiceInv, ServiceTypeOK, StoreTypeOK, BindingRow
<1>2. o \in Operations /\ o \in BaselinesAt(b, bindings[b].version)
  BY DEF HasBindingState, BaselinesAt
<1> HIDE DEF o
<1>3. baselines[o].version = bindings[b].version /\ baselines[o].binding = b
  BY <1>2 DEF BaselinesAt
<1>4. baselines[o].version > 0 /\ baselines[o] \in BaselineRow
  BY <1>1, <1>2, <1>3 DEF Bound, ServiceInv, ServiceTypeOK, StoreTypeOK
<1>5. baselines[o].src = bindings[b].src
  BY <1>2, <1>3 DEF ServiceInv, StoreInv, BaselineHistory
<1>6. /\ baselines[o].src # None /\ baselines[o].doc # None
      /\ baselines[o].doc.by = bindings[b].creator
      /\ baselines[o].doc.edit = Pristine
      /\ baselines[o].doc.messages = baselines[o].src.messages
  BY <1>2, <1>3, <1>4 DEF ServiceInv, BaselinesFit
<1>7. baselines[o].src \in Sources /\ baselines[o].doc \in Docs
  BY <1>4, <1>6 DEF BaselineRow
<1>8. BaselineOf(b) = baselines[o].doc
  BY DEF BaselineOf, o
<1> QED
  BY <1>1, <1>5, <1>6, <1>7, <1>8

\* The chat of a binding exists.
LEMMA BoundChat ==
  ASSUME ServiceInv, NEW b \in Bindings, Bound(b)
  PROVE  /\ bindings[b].target \in Chats
         /\ chats[bindings[b].target] \in Docs
         /\ chats[bindings[b].target].by = bindings[b].creator
         /\ bindings[b].creator \in Operations
<1>1. Allowed(b)
  BY DEF ServiceInv, StoreInv, EvidenceKept
<1>2. Made(bindings[b].target, bindings[b].creator)
  BY DEF ServiceInv, BindingsFit
<1> QED
  BY <1>1, <1>2 DEF Allowed, Made, ServiceInv, ServiceTypeOK

-------------------------------------------------------------------------------
(* A step of a call that leaves the store alone *)

\* The step of call c leaves it at a place, knowing what that place asks for.
Lands(c) ==
  /\ call' \in [Callers -> CallRow]
  /\ \A d \in Callers : d # c => call'[d] = call[d]
  /\ CallFits(c)'

LEMMA IdleFits ==
  ASSUME NEW c \in Callers, call[c].at = "idle"
  PROVE  CallFits(c)
BY DEF CallFits, Drafting, Planned, Updating, Attempted, Operating, Proven

LEMMA PreviewCreateLands ==
  ASSUME ServiceInv, NEW c \in Callers, NEW s \in Sources, PreviewCreate(c, s)
  PROVE  Lands(c) /\ ~At(c, "post")'
<1>1. call \in [Callers -> CallRow]
  BY DEF ServiceInv, ServiceTypeOK
<1>2. CreatePlan(s) \in PlanRow /\ PlanFits(CreatePlan(s)) /\ CreatePlan(s) # None
  BY CreatePlanFits, AbsentAssumption
<1>3. call' = [call EXCEPT ![c] = [call[c] EXCEPT !.at = "put", !.draft = CreatePlan(s)]]
  BY DEF PreviewCreate
<1>4. /\ call' \in [Callers -> CallRow]
      /\ \A d \in Callers : d # c => call'[d] = call[d]
      /\ call'[c].at = "put" /\ call'[c].draft = CreatePlan(s)
  BY <1>1, <1>2, <1>3 DEF CallRow, Steps
<1>5. UNCHANGED bindings
  BY DEF PreviewCreate, storeVars
<1>6. PlanFits(call[c].draft)'
  BY <1>2, <1>4, <1>5 DEF PlanFits, Bound
<1>7. CallFits(c)'
  BY <1>2, <1>4, <1>6 DEF CallFits, Drafting, Planned, Updating, Attempted, Operating, Proven
<1> QED
  BY <1>4, <1>7 DEF Lands, At

LEMMA PreviewUpdateLands ==
  ASSUME ServiceInv, NEW c \in Callers, NEW s \in Sources, NEW b \in Bindings,
         PreviewUpdate(c, s, b)
  PROVE  Lands(c) /\ ~At(c, "post")'
<1> DEFINE row == UpdatePlan(s, b, bindings[b].version, bindings[b].src,
                             BaselineOf(b), BaselineOf(b))
<1>1. call \in [Callers -> CallRow]
  BY DEF ServiceInv, ServiceTypeOK
<1>2. HasBindingState(b) /\ UNCHANGED storeVars
  BY DEF PreviewUpdate
<1>3. row \in PlanRow
  BY <1>2, BindingState, UpdatePlanType
<1>4. row.binding = b /\ row.prev = bindings[b].src /\ row.expected = BaselineOf(b)
  BY DEF UpdatePlan
<1>5. call' = [call EXCEPT ![c] = [call[c] EXCEPT !.at = "read_target", !.draft = row]]
  BY DEF PreviewUpdate
<1> HIDE DEF row
<1>6. /\ call' \in [Callers -> CallRow]
      /\ \A d \in Callers : d # c => call'[d] = call[d]
      /\ call'[c].at = "read_target" /\ call'[c].draft = row
  BY <1>1, <1>3, <1>5 DEF CallRow, Steps
<1>7. row # None /\ b # None /\ bindings[b].src # None /\ BaselineOf(b) # None
  BY <1>2, <1>3, BindingState, AbsentAssumption, NoneAssumption
<1>8. DraftFits(call[c].draft)'
  BY <1>2, <1>4, <1>6, <1>7, BindingState DEF DraftFits, Bound, storeVars
<1>9. CallFits(c)'
  BY <1>6, <1>7, <1>8 DEF CallFits, Drafting, Planned, Updating, Attempted, Operating, Proven
<1> QED
  BY <1>6, <1>9 DEF Lands, At

LEMMA PreviewReadLands ==
  ASSUME ServiceInv, NEW c \in Callers, PreviewRead(c)
  PROVE  Lands(c) /\ ~At(c, "post")'
<1> DEFINE d == call[c].draft
           target == chats[bindings[d.binding].target]
           row == UpdatePlan(d.src, d.binding, d.version, d.prev, d.expected, target)
<1>1. call \in [Callers -> CallRow]
  BY DEF ServiceInv, ServiceTypeOK
<1>2. At(c, "read_target") /\ UNCHANGED storeVars
  BY DEF PreviewRead
<1>3. d # None /\ DraftFits(d)
  BY <1>2 DEF ServiceInv, CallsFit, CallFits, At
<1>4. d \in PlanRow
  BY <1>1, <1>3 DEF CallRow
<1>5. /\ d.binding \in Bindings /\ Bound(d.binding) /\ d.prev \in Sources
      /\ d.expected \in Docs /\ d.src \in Sources /\ d.version \in Nat
  BY <1>3, <1>4 DEF DraftFits, PlanRow
<1>6. target \in Docs
  BY <1>5, BoundChat
<1>7. row \in PlanRow
  BY <1>5, <1>6, UpdatePlanType
<1>8. PlanFits(row)
  BY <1>3, <1>5, <1>6, UpdatePlanFits DEF DraftFits
<1>9. call' = [call EXCEPT ![c] = [call[c] EXCEPT !.at = "put", !.draft = row]]
  BY DEF PreviewRead
<1> HIDE DEF row, target
<1>10. /\ call' \in [Callers -> CallRow]
       /\ \A e \in Callers : e # c => call'[e] = call[e]
       /\ call'[c].at = "put" /\ call'[c].draft = row
  BY <1>1, <1>7, <1>9 DEF CallRow, Steps
<1>11. PlanFits(call[c].draft)'
  BY <1>2, <1>8, <1>10 DEF PlanFits, Bound, storeVars
<1>12. CallFits(c)'
  BY <1>7, <1>10, <1>11, AbsentAssumption
     DEF CallFits, Drafting, Planned, Updating, Attempted, Operating, Proven
<1> QED
  BY <1>10, <1>12 DEF Lands, At

\* Going to another place changes nothing else a call knows.
LEMMA GotoMoves ==
  ASSUME call \in [Callers -> CallRow], NEW c \in Callers, NEW step \in Steps,
         Goto(c, step)
  PROVE  /\ call' \in [Callers -> CallRow]
         /\ \A d \in Callers : d # c => call'[d] = call[d]
         /\ call'[c].at = step
         /\ call'[c].draft = call[c].draft /\ call'[c].plan = call[c].plan
         /\ call'[c].op = call[c].op /\ call'[c].version = call[c].version
         /\ call'[c].doc = call[c].doc
<1>1. call' = [call EXCEPT ![c] = [call[c] EXCEPT !.at = step]]
  BY DEF Goto
<1> QED
  BY <1>1 DEF CallRow

LEMMA VerifiedMoves ==
  ASSUME call \in [Callers -> CallRow], NEW c \in Callers, NEW step \in Steps,
         NEW doc \in Docs, Verified(c, doc, step)
  PROVE  /\ call' \in [Callers -> CallRow]
         /\ \A d \in Callers : d # c => call'[d] = call[d]
         /\ call'[c].at = step
         /\ call'[c].plan = call[c].plan /\ call'[c].op = call[c].op
         /\ call'[c].doc = doc
         /\ Proves(doc, c)
<1>1. call' = [call EXCEPT ![c] = [call[c] EXCEPT !.at = step, !.doc = doc]]
  BY DEF Verified
<1> QED
  BY <1>1 DEF CallRow, Verified

LEMMA ReturnLands ==
  ASSUME call \in [Callers -> CallRow], NEW c \in Callers, Return(c)
  PROVE  Lands(c) /\ call'[c].at = "idle"
<1>1. Idle \in CallRow /\ Idle.at = "idle"
  BY DEF Idle, CallRow, Steps
<1>2. /\ call' \in [Callers -> CallRow]
      /\ \A d \in Callers : d # c => call'[d] = call[d]
      /\ call'[c].at = "idle"
  BY <1>1 DEF Return
<1>3. CallFits(c)'
  BY <1>2 DEF CallFits, Drafting, Planned, Updating, Attempted, Operating, Proven
<1> QED
  BY <1>2, <1>3 DEF Lands

LEMMA ApplyStartLands ==
  ASSUME ServiceInv, NEW c \in Callers, NEW p \in Plans, ApplyStart(c, p)
  PROVE  Lands(c) /\ ~At(c, "post")'
<1> DEFINE step == IF plans[p].confirmed THEN "prepare" ELSE "confirm"
<1>1. call \in [Callers -> CallRow]
  BY DEF ServiceInv, ServiceTypeOK
<1>2. call' = [call EXCEPT ![c] = [call[c] EXCEPT !.at = step, !.plan = p]]
  BY DEF ApplyStart
<1>0. step \in {"prepare", "confirm"} /\ {"prepare", "confirm"} \subseteq Steps
  BY DEF Steps
<1> HIDE DEF step
<1>3. /\ call' \in [Callers -> CallRow]
      /\ \A d \in Callers : d # c => call'[d] = call[d]
      /\ call'[c].at \in {"prepare", "confirm"} /\ call'[c].plan = p
  BY <1>0, <1>1, <1>2 DEF CallRow
<1>4. /\ plans[p] # None /\ plans[p].status \in Settled /\ p # None
      /\ plans' = plans
  BY NoneAssumption DEF ApplyStart, Applicable, Settled, storeVars
<1>5. CallFits(c)'
  BY <1>3, <1>4 DEF CallFits, Drafting, Planned, Updating, Attempted, Operating, Proven
<1> QED
  BY <1>3, <1>5 DEF Lands, At

LEMMA LoadBindingLands ==
  ASSUME ServiceInv, NEW c \in Callers, LoadBinding(c)
  PROVE  Lands(c) /\ ~At(c, "post")'
<1> DEFINE b == PlanOf(c).binding
<1>1. call \in [Callers -> CallRow]
  BY DEF ServiceInv, ServiceTypeOK
<1>2. At(c, "load") /\ HasBindingState(b) /\ UNCHANGED <<plans, ops, bindings, landed>>
  BY DEF LoadBinding, storeVars, owuVars
<1>3. /\ call[c].op # None /\ Present(call[c].op) /\ call[c].plan = ops[call[c].op].plan
      /\ ops[call[c].op].kind = "update"
  BY <1>2, Zenon DEF At, ServiceInv, CallsFit, CallFits, Updating, Operating
<1>4. call[c].at \in Operating
  BY <1>2 DEF At, Operating, Updating
<1>5. b \in Bindings /\ PlanOf(c) \in PlanRow
  BY <1>3, <1>4, TargetsExist, HeldOperation DEF OpOf, PlanOf
<1>6. /\ BaselineOf(b) \in Docs /\ BaselineOf(b).by = bindings[b].creator
      /\ BaselineOf(b) # None /\ PlanOf(c).version \in Nat
  BY <1>2, <1>5, BindingState, AbsentAssumption DEF PlanRow
<1>7. CASE call' = [call EXCEPT ![c] = [call[c] EXCEPT !.at = "reread",
                          !.version = PlanOf(c).version, !.doc = BaselineOf(b)]]
  <2>1. /\ call' \in [Callers -> CallRow]
        /\ \A d \in Callers : d # c => call'[d] = call[d]
        /\ call'[c].at = "reread" /\ call'[c].plan = call[c].plan
        /\ call'[c].op = call[c].op /\ call'[c].doc = BaselineOf(b)
    BY <1>1, <1>6, <1>7 DEF CallRow, Steps
  <2>2. CallFits(c)'
    BY <1>2, <1>3, <1>6, <2>1
       DEF CallFits, Drafting, Planned, Updating, Attempted, Operating, Proven, Present, PlanOf
  <2> QED
    BY <2>1, <2>2 DEF Lands, At
<1>8. CASE Goto(c, "fail")
  <2>1. /\ call' \in [Callers -> CallRow]
        /\ \A d \in Callers : d # c => call'[d] = call[d]
        /\ call'[c].at = "fail" /\ call'[c].plan = call[c].plan
        /\ call'[c].op = call[c].op
    BY <1>1, <1>8, GotoMoves DEF Steps
  <2>2. CallFits(c)'
    BY <1>2, <1>3, <2>1
       DEF CallFits, Drafting, Planned, Updating, Attempted, Operating, Proven, Present
  <2> QED
    BY <2>1, <2>2 DEF Lands, At
<1> QED
  BY <1>7, <1>8 DEF LoadBinding

LEMMA RereadLands ==
  ASSUME ServiceInv, NEW c \in Callers, Reread(c)
  PROVE  Lands(c) /\ ~At(c, "post")'
<1>1. call \in [Callers -> CallRow]
  BY DEF ServiceInv, ServiceTypeOK
<1>2. At(c, "reread") /\ UNCHANGED <<plans, ops, bindings, landed>>
  BY DEF Reread, storeVars, owuVars
<1>3. /\ call[c].op # None /\ Present(call[c].op) /\ call[c].plan = ops[call[c].op].plan
      /\ ops[call[c].op].kind = "update"
      /\ call[c].doc # None
      /\ call[c].doc.by = bindings[plans[call[c].plan].binding].creator
  BY <1>2 DEF At, ServiceInv, CallsFit, CallFits, Updating, Operating
<1>4. plans[call[c].plan].status \in Settled
  BY <1>2, HeldOperation DEF At, Operating, Updating
<1>5. PICK step \in {"no_change", "begin", "fail"} :
        /\ Goto(c, step)
        /\ step = "no_change" => plans[call[c].plan].status = "no_change"
        /\ step = "begin" => plans[call[c].plan].status # "no_change"
  BY DEF Reread, PlanOf
<1>6. /\ call' \in [Callers -> CallRow]
      /\ \A d \in Callers : d # c => call'[d] = call[d]
      /\ call'[c].at = step /\ call'[c].plan = call[c].plan
      /\ call'[c].op = call[c].op /\ call'[c].doc = call[c].doc
  BY <1>1, <1>5, GotoMoves DEF Steps
<1>7. CallFits(c)'
  BY <1>2, <1>3, <1>4, <1>5, <1>6
     DEF CallFits, Drafting, Planned, Updating, Attempted, Operating, Proven, Present, Settled
<1> QED
  BY <1>5, <1>6, <1>7 DEF Lands, At

\* What a call that has attempted its write knows of it.
LEMMA AttemptKnown ==
  ASSUME ServiceInv, NEW c \in Callers, call[c].at \in Attempted
  PROVE  /\ call[c].op # None /\ Present(call[c].op)
         /\ call[c].plan = ops[call[c].op].plan
         /\ ops[call[c].op].attempts = 1
BY DEF ServiceInv, CallsFit, CallFits, Operating

LEMMA PostLands ==
  ASSUME ServiceInv, NEW c \in Callers, Post(c)
  PROVE  Lands(c) /\ ~At(c, "post")'
<1>1. call \in [Callers -> CallRow]
  BY DEF ServiceInv, ServiceTypeOK
<1>2. At(c, "post") /\ UNCHANGED <<plans, ops, bindings, landed>>
  BY DEF Post, storeVars
<1>3. /\ call[c].op # None /\ Present(call[c].op) /\ call[c].plan = ops[call[c].op].plan
      /\ ops[call[c].op].attempts = 1
  BY <1>2, AttemptKnown DEF At, Attempted
<1>4. call' = [call EXCEPT ![c] = [call[c] EXCEPT !.at = "await", !.doc = None]]
  BY DEF Post
<1>5. /\ call' \in [Callers -> CallRow]
      /\ \A d \in Callers : d # c => call'[d] = call[d]
      /\ call'[c].at = "await" /\ call'[c].plan = call[c].plan
      /\ call'[c].op = call[c].op
  BY <1>1, <1>4 DEF CallRow, Steps
<1>6. CallFits(c)'
  BY <1>2, <1>3, <1>5
     DEF CallFits, Drafting, Planned, Updating, Attempted, Operating, Proven, Present
<1> QED
  BY <1>5, <1>6 DEF Lands, At

LEMMA AwaitLands ==
  ASSUME ServiceInv, NEW c \in Callers, Await(c)
  PROVE  Lands(c) /\ ~At(c, "post")'
<1>1. call \in [Callers -> CallRow]
  BY DEF ServiceInv, ServiceTypeOK
<1>2. At(c, "await") /\ UNCHANGED <<plans, ops, bindings, landed>>
  BY DEF Await, storeVars
<1>3. /\ call[c].op # None /\ Present(call[c].op) /\ call[c].plan = ops[call[c].op].plan
      /\ ops[call[c].op].attempts = 1
  BY <1>2, AttemptKnown DEF At, Attempted
<1>4. PICK step \in {"receipt", "fail", "unknown"} :
        Goto(c, step) /\ (step = "receipt" => call[c].op \in landed)
  BY DEF Await
<1>5. /\ call' \in [Callers -> CallRow]
      /\ \A d \in Callers : d # c => call'[d] = call[d]
      /\ call'[c].at = step /\ call'[c].plan = call[c].plan
      /\ call'[c].op = call[c].op
  BY <1>1, <1>4, GotoMoves DEF Steps
<1>6. CallFits(c)'
  BY <1>2, <1>3, <1>4, <1>5
     DEF CallFits, Drafting, Planned, Updating, Attempted, Operating, Proven, Present
<1> QED
  BY <1>4, <1>5, <1>6 DEF Lands, At

\* A chat that proves the operation is a chat its write landed in.
LEMMA ProofLands ==
  ASSUME ServiceInv, NEW c \in Callers, NEW step \in Proven, NEW t \in Chats,
         call[c].at \in Attempted, chats[t] # None, Verified(c, chats[t], step),
         UNCHANGED <<storeVars, owuVars>>
  PROVE  Lands(c) /\ ~At(c, "post")'
<1>1. call \in [Callers -> CallRow] /\ chats[t] \in Docs
  BY DEF ServiceInv, ServiceTypeOK
<1>2. UNCHANGED <<plans, ops, bindings, landed>>
  BY DEF storeVars, owuVars
<1>3. /\ call[c].op # None /\ Present(call[c].op) /\ call[c].plan = ops[call[c].op].plan
      /\ ops[call[c].op].attempts = 1
  BY AttemptKnown
<1>4. /\ call' \in [Callers -> CallRow]
      /\ \A d \in Callers : d # c => call'[d] = call[d]
      /\ call'[c].at = step /\ call'[c].plan = call[c].plan
      /\ call'[c].op = call[c].op /\ call'[c].doc = chats[t]
      /\ Proves(chats[t], c)
  BY <1>1, VerifiedMoves DEF Proven, Steps
<1>5. /\ HasOperationMarker(chats[t], call[c].op, ops[call[c].op].kind = "create")
      /\ MatchesPlanned(chats[t], plans[call[c].plan].desired)
  BY <1>4 DEF Proves, OpOf, PlanOf
<1>6. call[c].op \in landed
  BY <1>5 DEF HasOperationMarker, ServiceInv, ChatsFit
<1>7. CallFits(c)'
  BY <1>2, <1>3, <1>4, <1>5, <1>6
     DEF CallFits, Drafting, Planned, Updating, Attempted, Operating, Proven, Present,
         HasOperationMarker, MatchesPlanned
<1> QED
  BY <1>4, <1>7 DEF Lands, At, Proven

\* A call that attempted its write may give up knowing how it ended.
LEMMA UnknownLands ==
  ASSUME ServiceInv, NEW c \in Callers, call[c].at \in Attempted, Goto(c, "unknown"),
         UNCHANGED <<storeVars, owuVars>>
  PROVE  Lands(c) /\ ~At(c, "post")'
<1>1. call \in [Callers -> CallRow]
  BY DEF ServiceInv, ServiceTypeOK
<1>2. UNCHANGED <<plans, ops, bindings, landed>>
  BY DEF storeVars, owuVars
<1>3. /\ call[c].op # None /\ Present(call[c].op) /\ call[c].plan = ops[call[c].op].plan
      /\ ops[call[c].op].attempts = 1
  BY AttemptKnown
<1>4. /\ call' \in [Callers -> CallRow]
      /\ \A d \in Callers : d # c => call'[d] = call[d]
      /\ call'[c].at = "unknown" /\ call'[c].plan = call[c].plan
      /\ call'[c].op = call[c].op
  BY <1>1, GotoMoves DEF Steps
<1>5. CallFits(c)'
  BY <1>2, <1>3, <1>4
     DEF CallFits, Drafting, Planned, Updating, Attempted, Operating, Proven, Present
<1> QED
  BY <1>4, <1>5 DEF Lands, At

\* The chat an attempted operation is about exists.
LEMMA TargetIsChat ==
  ASSUME ServiceInv, NEW c \in Callers, call[c].at \in Attempted,
         OpOf(c).kind = "create" => TrustedCreateTarget(call[c].op)
  PROVE  OpOf(c).target \in Chats /\ chats[OpOf(c).target] # None
<1>1. /\ call[c].op \in Operations /\ OpFits(call[c].op) /\ OpOf(c).attempts = 1
      /\ call[c].plan = OpOf(c).plan
  BY HeldOperation, AttemptKnown DEF OpOf, Operating
<1>2. CASE OpOf(c).kind = "create"
  <2>1. OpOf(c).target \in Chats
    BY <1>2 DEF TrustedCreateTarget, OpOf
  <2>2. OpOf(c).target # None
    BY <2>1, NoneAssumption
  <2> QED
    BY <1>1, <1>2, <2>1, <2>2 DEF OpFits, OpOf, Made
<1>3. CASE OpOf(c).kind # "create"
  <2> DEFINE b == PlanOf(c).binding
  <2>1. b \in Bindings /\ Bound(b) /\ TargetOf(c) \in Chats
    BY <1>3, TargetsExist DEF Operating
  <2>2. OpOf(c).target = TargetOf(c)
    BY <1>1, <1>3 DEF OpFits, OpOf, PlanOf, TargetOf
  <2>3. chats[TargetOf(c)] \in Docs
    BY <2>1, BoundChat DEF TargetOf
  <2> QED
    BY <2>1, <2>2, <2>3, AbsentAssumption
<1> QED
  BY <1>2, <1>3

LEMMA ReadbackLands ==
  ASSUME ServiceInv, NEW c \in Callers, Readback(c)
  PROVE  Lands(c) /\ ~At(c, "post")'
<1>1. /\ call[c].at \in Attempted /\ UNCHANGED <<storeVars, owuVars>>
      /\ OpOf(c).kind = "create" => TrustedCreateTarget(call[c].op)
      /\ Verified(c, chats[OpOf(c).target], "finish") \/ Goto(c, "unknown")
  BY DEF Readback, At, Attempted
<1>2. OpOf(c).target \in Chats /\ chats[OpOf(c).target] # None /\ "finish" \in Proven
  BY <1>1, TargetIsChat DEF Proven
<1> QED
  BY <1>1, <1>2, ProofLands, UnknownLands

LEMMA ReconcileCreateLands ==
  ASSUME ServiceInv, NEW c \in Callers, ReconcileCreate(c)
  PROVE  Lands(c) /\ ~At(c, "post")'
<1>1. /\ call[c].at \in Attempted /\ UNCHANGED <<storeVars, owuVars>>
      /\ TrustedCreateTarget(call[c].op)
      /\ Verified(c, chats[OpOf(c).target], "resume") \/ Goto(c, "unknown")
  BY DEF ReconcileCreate, At, Attempted
<1>2. OpOf(c).target \in Chats /\ chats[OpOf(c).target] # None /\ "resume" \in Proven
  BY <1>1, TargetIsChat DEF Proven
<1> QED
  BY <1>1, <1>2, ProofLands, UnknownLands

LEMMA ReconcileUpdateLands ==
  ASSUME ServiceInv, NEW c \in Callers, ReconcileUpdate(c)
  PROVE  Lands(c) /\ ~At(c, "post")'
<1> DEFINE b == PlanOf(c).binding
           doc == chats[bindings[b].target]
<1>1. call \in [Callers -> CallRow]
  BY DEF ServiceInv, ServiceTypeOK
<1>2. /\ At(c, "reconcile") /\ OpOf(c).kind = "update" /\ Proves(doc, c)
      /\ UNCHANGED <<plans, ops, bindings, landed>>
  BY DEF ReconcileUpdate, storeVars, owuVars
<1>3. /\ call[c].op # None /\ Present(call[c].op) /\ call[c].plan = ops[call[c].op].plan
      /\ ops[call[c].op].attempts = 1
  BY <1>2, AttemptKnown DEF At, Attempted
<1>4. b \in Bindings /\ Bound(b)
  BY <1>2, TargetsExist DEF At, Attempted, Operating
<1>5. /\ doc \in Docs /\ bindings[b].target \in Chats
      /\ bindings[b].version \in Nat
  BY <1>4, BoundChat DEF ServiceInv, ServiceTypeOK, StoreTypeOK, BindingRow
<1>6. call' = [call EXCEPT ![c] = [call[c] EXCEPT !.at = "resume", !.doc = doc,
                                                  !.version = bindings[b].version]]
  BY DEF ReconcileUpdate
<1>7. /\ HasOperationMarker(doc, call[c].op, ops[call[c].op].kind = "create")
      /\ MatchesPlanned(doc, plans[call[c].plan].desired)
  BY <1>2 DEF Proves, OpOf, PlanOf
<1>8. doc # None
  BY <1>5, AbsentAssumption
<1>9. call[c].op \in landed
  BY <1>5, <1>7, <1>8 DEF HasOperationMarker, ServiceInv, ChatsFit
<1> HIDE DEF doc
<1>10. /\ call' \in [Callers -> CallRow]
       /\ \A d \in Callers : d # c => call'[d] = call[d]
       /\ call'[c].at = "resume" /\ call'[c].plan = call[c].plan
       /\ call'[c].op = call[c].op /\ call'[c].doc = doc
  BY <1>1, <1>5, <1>6 DEF CallRow, Steps
<1>11. CallFits(c)'
  BY <1>2, <1>3, <1>7, <1>8, <1>9, <1>10
     DEF CallFits, Drafting, Planned, Updating, Attempted, Operating, Proven, Present,
         HasOperationMarker, MatchesPlanned
<1> QED
  BY <1>10, <1>11 DEF Lands, At

LEMMA RecoveryGoes ==
  ASSUME NEW o, NEW step \in {RecoveryStep(o)} \cup UnreadBinding(o)
  PROVE  step = RecoveryStep(o) \/ (step = "fail" /\ ops[o].status = "prepared")
BY DEF UnreadBinding

LEMMA RecoverStartLands ==
  ASSUME ServiceInv, NEW c \in Callers, NEW o \in Operations, RecoverStart(c, o)
  PROVE  Lands(c) /\ ~At(c, "post")'
<1> DEFINE plan == plans[ops[o].plan]
<1>0. PICK step \in {RecoveryStep(o)} \cup UnreadBinding(o) :
        call' = [call EXCEPT ![c].at = step, ![c].plan = ops[o].plan, ![c].op = o]
  BY DEF RecoverStart
<1>1. call \in [Callers -> CallRow]
  BY DEF ServiceInv, ServiceTypeOK
<1>2. IsUnresolved(o) /\ UNCHANGED <<plans, ops, bindings, landed>>
  BY DEF RecoverStart, storeVars, owuVars
<1>3. Present(o) /\ OpFits(o) /\ o # None
  BY <1>2, NoneAssumption DEF IsUnresolved, Unresolved, Present, ServiceInv, OpsFit, OpStands
<1>4. /\ ops[o].plan \in Plans /\ plan # None /\ plan.status \in Settled
      /\ ops[o].kind # "create" => ops[o].kind = "update"
      /\ ops[o].kind = "create" => plan.binding = None
      /\ ops[o].status \in Uncertain => ops[o].attempts = 1
  BY <1>3 DEF OpFits
<1>5. PlanFits(plan)
  BY <1>4 DEF ServiceInv, PlansFit
<1>6. ops[o].kind = "create" => plan.status = "ready"
  BY <1>4, <1>5 DEF PlanFits, Settled
<1>7. \/ step \in {"interrupt", "reconcile"} /\ ops[o].attempts = 1
      \/ step = "fail"
      \/ step = "begin" /\ ops[o].kind = "create"
      \/ step = "load" /\ ops[o].kind = "update"
  BY <1>2, <1>4, RecoveryGoes DEF RecoveryStep, ResumeStep, IsUnresolved, Unresolved, Uncertain
<1>8. call' = [call EXCEPT ![c] = [call[c] EXCEPT !.at = step, !.plan = ops[o].plan, !.op = o]]
  BY <1>0
<1>9. /\ call' \in [Callers -> CallRow]
      /\ \A d \in Callers : d # c => call'[d] = call[d]
      /\ call'[c].at = step /\ call'[c].plan = ops[o].plan /\ call'[c].op = o
  <2>1. step \in Steps
    BY <1>7 DEF Steps
  <2>2. [call[c] EXCEPT !.at = step, !.plan = ops[o].plan, !.op = o] \in CallRow
    BY <1>1, <1>4, <2>1 DEF CallRow
  <2>3. call[c] \in CallRow
    BY <1>1
  <2>4. call'[c] = [call[c] EXCEPT !.at = step, !.plan = ops[o].plan, !.op = o]
    BY <1>1, <1>8
  <2> QED
    BY <1>1, <1>8, <2>2, <2>3, <2>4 DEF CallRow
<1>10. CallFits(c)'
  BY <1>2, <1>3, <1>4, <1>6, <1>7, <1>9
     DEF CallFits, Drafting, Planned, Updating, Attempted, Operating, Proven, Present
<1> QED
  BY <1>7, <1>9, <1>10 DEF Lands, At

LEMMA QuietLands ==
  ASSUME ServiceInv, NEW c \in Callers, Quiet(c)
  PROVE  Lands(c) /\ ~At(c, "post")'
<1>1. GiveUp(c) => Lands(c) /\ ~At(c, "post")'
  BY ReturnLands DEF GiveUp, At, ServiceInv, ServiceTypeOK
<1> QED
  BY <1>1, PreviewCreateLands, PreviewUpdateLands, PreviewReadLands, ApplyStartLands,
     LoadBindingLands, RereadLands, PostLands, AwaitLands, ReadbackLands,
     RecoverStartLands, ReconcileCreateLands, ReconcileUpdateLands DEF Quiet

-------------------------------------------------------------------------------
(* Open WebUI and its user *)

\* Write r lands in chat t.
WriteLands(r, t) ==
  /\ wire' = wire \ {r} /\ landed' = landed \cup {r.op} /\ sent' = sent
  /\ chats'[t] \in Docs /\ chats'[t].by = r.doc.by /\ chats'[t].last = r.op
  /\ \A u \in Chats : u # t => chats'[u] = chats[u]
  /\ IF r.target = None THEN chats[t] = None
     ELSE t = r.target /\ chats[t] # None /\ chats[t].by = r.doc.by

\* The user edits chat t.
UserEdits(t) ==
  /\ UNCHANGED <<wire, landed, sent>>
  /\ chats[t] # None
  /\ chats'[t] \in Docs /\ chats'[t].by = chats[t].by /\ chats'[t].last = chats[t].last
  /\ \A u \in Chats : u # t => chats'[u] = chats[u]

\* A document with another edit mark.
LEMMA EditType ==
  ASSUME NEW d \in Docs, NEW edit \in Edits \cup {Pristine}
  PROVE  /\ [d EXCEPT !.edit = edit] \in Docs
         /\ [d EXCEPT !.edit = edit].by = d.by
         /\ [d EXCEPT !.edit = edit].last = d.last
BY DEF Docs

LEMMA OutsideSplits ==
  ASSUME ServiceInv, Outside
  PROVE  /\ chats' \in [Chats -> Docs \cup {None}]
         /\ \/ \E r \in wire, t \in Chats : WriteLands(r, t)
            \/ \E t \in Chats : UserEdits(t)
<1>1. chats \in [Chats -> Docs \cup {None}] /\ wire \subseteq Requests
  BY DEF ServiceInv, ServiceTypeOK
<1>2. ASSUME NEW r \in wire
      PROVE  r.doc \in Docs /\ r.target \in Chats \cup {None} /\ WireFits(r)
  BY <1>1, <1>2 DEF Requests, ServiceInv, WritesFit
<1>3. ASSUME NEW r \in wire, LandCreate(r)
      PROVE  chats' \in [Chats -> Docs \cup {None}] /\ \E t \in Chats : WriteLands(r, t)
  <2> DEFINE t == CHOOSE t \in Chats : chats[t] = None
  <2>1. t \in Chats /\ chats[t] = None
    BY <1>3 DEF LandCreate
  <2>2. chats' = [chats EXCEPT ![t] = r.doc]
    BY <1>3 DEF LandCreate
  <2> HIDE DEF t
  <2>3. /\ wire' = wire \ {r} /\ landed' = landed \cup {r.op} /\ sent' = sent
        /\ r.target = None
    BY <1>3 DEF LandCreate
  <2>4. WriteLands(r, t)
    BY <1>1, <1>2, <2>1, <2>2, <2>3 DEF WriteLands, WireFits
  <2> QED
    BY <1>1, <1>2, <2>1, <2>2, <2>4
<1>4. ASSUME NEW r \in wire, LandUpdate(r)
      PROVE  chats' \in [Chats -> Docs \cup {None}] /\ \E t \in Chats : WriteLands(r, t)
  <2> DEFINE t == r.target
  <2>1. r.target # None /\ t \in Chats
    BY <1>2, <1>4 DEF LandUpdate
  <2>2. chats[t] # None /\ chats[t].by = r.doc.by /\ r.doc.last = r.op
    BY <1>2, <2>1 DEF WireFits, Made
  <2>3. chats[t] \in Docs
    BY <1>1, <2>1, <2>2
  <2>4. PICK edit \in {r.doc.edit, chats[t].edit} :
          chats' = [chats EXCEPT ![t] = [r.doc EXCEPT !.edit = edit]]
    BY <1>4 DEF LandUpdate
  <2>5. edit \in Edits \cup {Pristine}
    BY <1>2, <2>3, <2>4 DEF Docs
  <2>6. /\ [r.doc EXCEPT !.edit = edit] \in Docs
        /\ [r.doc EXCEPT !.edit = edit].by = r.doc.by
        /\ [r.doc EXCEPT !.edit = edit].last = r.doc.last
    BY <1>2, <2>5, EditType
  <2>7. chats'[t] = [r.doc EXCEPT !.edit = edit]
    BY <1>1, <2>1, <2>4
  <2>8. /\ chats' \in [Chats -> Docs \cup {None}]
        /\ \A u \in Chats : u # t => chats'[u] = chats[u]
    BY <1>1, <2>1, <2>4, <2>6
  <2>9. /\ wire' = wire \ {r} /\ landed' = landed \cup {r.op} /\ sent' = sent
    BY <1>4 DEF LandUpdate
  <2>10. WriteLands(r, t)
    BY <2>1, <2>2, <2>6, <2>7, <2>8, <2>9 DEF WriteLands
  <2> QED
    BY <2>1, <2>8, <2>10
<1>5. ASSUME NEW t \in Chats, NEW edit \in Edits \cup {Pristine}, HumanEdit(t, edit)
      PROVE  chats' \in [Chats -> Docs \cup {None}] /\ UserEdits(t)
  <2>1. chats[t] # None /\ chats[t] \in Docs
    BY <1>1, <1>5 DEF HumanEdit
  <2>2. chats' = [chats EXCEPT ![t] = [chats[t] EXCEPT !.edit = edit]]
    BY <1>5 DEF HumanEdit
  <2>3. /\ [chats[t] EXCEPT !.edit = edit] \in Docs
        /\ [chats[t] EXCEPT !.edit = edit].by = chats[t].by
        /\ [chats[t] EXCEPT !.edit = edit].last = chats[t].last
    BY <2>1, EditType
  <2>4. chats'[t] = [chats[t] EXCEPT !.edit = edit]
    BY <1>1, <2>2
  <2>5. /\ chats' \in [Chats -> Docs \cup {None}]
        /\ \A u \in Chats : u # t => chats'[u] = chats[u]
    BY <1>1, <2>2, <2>3
  <2> QED
    BY <1>5, <2>1, <2>3, <2>4, <2>5 DEF UserEdits, HumanEdit
<1> QED
  BY <1>3, <1>4, <1>5 DEF Outside

\* No step unmakes a chat, changes who made it, or takes a landed write back.
Persists ==
  /\ StorePersists
  /\ \A t \in Chats : chats[t] # None => chats'[t] # None /\ chats'[t].by = chats[t].by
  /\ landed \subseteq landed'

\* Apart from Open WebUI and its user, only Post and Await touch the wire.
LEMMA OwuStep ==
  ASSUME ServiceInv, Next
  PROVE  \/ Outside
         \/ UNCHANGED owuVars
         \/ UNCHANGED <<chats, landed>> /\ \E c \in Callers : Post(c) \/ Await(c)
<1>1. ASSUME NEW c \in Callers, Quiet(c)
      PROVE  \/ UNCHANGED owuVars
             \/ UNCHANGED <<chats, landed>> /\ (Post(c) \/ Await(c))
  <2>1. Post(c) \/ Await(c) => UNCHANGED <<chats, landed>>
    BY DEF Post, Await
  <2>2. Quiet(c) => UNCHANGED owuVars \/ Post(c) \/ Await(c)
    BY DEF Quiet, PreviewCreate, PreviewUpdate, PreviewRead, ApplyStart, LoadBinding,
       Reread, Readback, RecoverStart, ReconcileCreate, ReconcileUpdate, GiveUp
  <2> QED
    BY <1>1, <2>1, <2>2
<1>2. ASSUME NEW c \in Callers, Planning(c) \/ Preparing(c) \/ Moving(c) \/ Finishing(c)
      PROVE  UNCHANGED owuVars
  <2>1. Planning(c) \/ Preparing(c) => UNCHANGED owuVars
    BY DEF Planning, Preparing, PersistSource, PersistPlan, Confirm, ApplyCreate, ApplyUpdate
  <2>2. Moving(c) => UNCHANGED owuVars
    BY DEF Moving, FinishNoChange, Begin, RecordReceipt, MarkUnknown, MarkFailed,
           Interrupt, Resume
  <2>3. Finishing(c) => UNCHANGED owuVars
    BY DEF Finishing, FinishCreate, FinishUpdate
  <2> QED
    BY <1>2, <2>1, <2>2, <2>3
<1>3. (\E p \in Plans : PlanExpires(p)) \/ Restart => UNCHANGED owuVars
  BY DEF PlanExpires, Restart
<1> QED
  BY <1>1, <1>2, <1>3, NextSplits

LEMMA StepPersists == DigestsCovered /\ ServiceInv /\ [Next]_vars => Persists
<1> SUFFICES ASSUME DigestsCovered, ServiceInv, [Next]_vars
             PROVE  Persists
  OBVIOUS
<1>1. StorePersists
  BY StepStore
<1>2. CASE UNCHANGED <<chats, landed>>
  BY <1>1, <1>2 DEF Persists
<1>3. CASE Outside
  <2>1. CASE \E r \in wire, t \in Chats : WriteLands(r, t)
    BY <1>1, <2>1, AbsentAssumption DEF Persists, WriteLands
  <2>2. CASE \E t \in Chats : UserEdits(t)
    BY <1>1, <2>2, AbsentAssumption DEF Persists, UserEdits
  <2> QED
    BY <1>3, <2>1, <2>2, OutsideSplits
<1> QED
  BY <1>2, <1>3, OwuStep DEF owuVars, vars

-------------------------------------------------------------------------------
(* The operations *)

\* What an operation stands on outlives every step.
LEMMA OpContext ==
  ASSUME ServiceInv, Persists, NEW o \in Operations, Present(o)
  PROVE  LET p == ops[o].plan
             b == ops[o].binding
             t == ops[o].target
         IN /\ p \in Plans /\ plans[p] # None /\ plans'[p] # None
            /\ plans'[p].status = plans[p].status
            /\ plans'[p].binding = plans[p].binding
            /\ plans'[p].src = plans[p].src
            /\ plans'[p].version = plans[p].version
            /\ OpFits(o) /\ PlanFits(plans[p]) /\ plans[p] \in PlanRow
            /\ ops[o].kind = "create" /\ t # None => chats'[t] # None /\ chats'[t].by = o
            /\ ops[o].kind = "update" =>
                 b \in Bindings /\ Bound(b) /\ bindings'[b].target = bindings[b].target
            /\ intents'[o] = intents[o]
            /\ o \in landed => o \in landed'
<1> DEFINE p == ops[o].plan
           b == ops[o].binding
           t == ops[o].target
<1>1. OpFits(o)
  BY DEF ServiceInv, OpsFit, OpStands
<1>2. p \in Plans /\ plans[p] # None
  BY <1>1 DEF OpFits
<1>3. plans[p] \in PlanRow /\ PlanFits(plans[p])
  BY <1>2 DEF ServiceInv, ServiceTypeOK, StoreTypeOK, PlansFit
<1>4. PICK flag \in BOOLEAN : plans'[p] # None /\ plans'[p] = [plans[p] EXCEPT !.confirmed = flag]
  BY <1>2 DEF Persists, StorePersists
<1>5. /\ plans'[p].status = plans[p].status
      /\ plans'[p].binding = plans[p].binding
      /\ plans'[p].src = plans[p].src
      /\ plans'[p].version = plans[p].version
  BY <1>3, <1>4 DEF PlanRow
<1>6. ASSUME ops[o].kind = "create", t # None
      PROVE  chats'[t] # None /\ chats'[t].by = o
  <2>1. t \in Chats
    BY <1>6 DEF ServiceInv, ServiceTypeOK, StoreTypeOK, OpRow
  <2> QED
    BY <1>1, <1>6, <2>1 DEF OpFits, Made, Persists
<1>7. ASSUME ops[o].kind = "update"
      PROVE  b \in Bindings /\ Bound(b) /\ bindings'[b].target = bindings[b].target
  <2>1. b \in Bindings /\ plans[p].binding = b
    BY <1>1, <1>7 DEF OpFits
  <2>2. Bound(b)
    BY <1>3, <2>1, NoneAssumption DEF PlanFits
  <2> QED
    BY <2>1, <2>2 DEF Persists, StorePersists
<1> QED
  BY <1>1, <1>2, <1>3, <1>4, <1>5, <1>6, <1>7 DEF Persists, StorePersists

\* An operation that no call touched still stands.
LEMMA OpKept ==
  ASSUME ServiceInv, Persists, NEW o \in Operations,
         ops'[o] = ops[o], baselines'[o].version = baselines[o].version,
         ~Present(o) => intents'[o] = intents[o]
  PROVE  OpStands(o)'
<1>1. CASE Present(o)
  <2>1. OpFits(o)'
    BY <1>1, OpContext DEF OpFits, Made
  <2> QED
    BY <1>1, <2>1 DEF OpStands, Present
<1>2. CASE ~Present(o)
  BY <1>2 DEF ServiceInv, OpsFit, OpStands, Present
<1> QED
  BY <1>1, <1>2

LEMMA PreparedStands ==
  ASSUME ServiceInv, Persists, NEW q \in Operations, NEW p \in Plans,
         NEW b \in Bindings \cup {None}, NEW kind \in {"create", "update"}, NEW lock,
         Prepares(q, p, b, kind, lock), kind = "create" <=> b = None,
         kind = "create" => intents'[q] = plans[p].src,
         plans[p].status \in Settled
  PROVE  OpStands(q)'
<1>1. /\ ops'[q].status = "prepared" /\ ops'[q].kind = kind /\ ops'[q].plan = p
      /\ ops'[q].binding = IF kind = "create" THEN None ELSE b
      /\ ops'[q].attempts = 0 /\ ops'[q].target = None
      /\ plans' = plans /\ plans[p] # None /\ plans[p].binding = b
      /\ ~Present(q) /\ baselines' = baselines
  BY DEF Prepares, planVars
<1>2. baselines'[q].version = 0
  BY <1>1 DEF ServiceInv, OpsFit, OpStands
<1>3. OpFits(q)'
  BY <1>1, <1>2 DEF OpFits, Uncertain
<1> QED
  BY <1>1, <1>3 DEF OpStands, Present

LEMMA MovedStands ==
  ASSUME ServiceInv, Persists, NEW c \in Callers, call[c].at \in Operating,
         NEW q \in Operations, call[c].op = q, NEW next \in Statuses, NEW patch \in Patch,
         Moves(q, next, patch), Recordable(ops[q].target, patch.target),
         Advance(c, next, patch)
  PROVE  OpStands(q)'
<1>0. PICK p, b : p = ops[q].plan /\ b = ops[q].binding
  OBVIOUS
<1>1. /\ Present(q) /\ call[c].plan = p
      /\ PlanOf(c) = plans[p] /\ OpOf(c) = ops[q]
  BY <1>0, HeldOperation DEF PlanOf, OpOf
<1>2. /\ p \in Plans /\ plans[p] # None /\ plans'[p] # None
      /\ plans'[p].status = plans[p].status
      /\ plans'[p].binding = plans[p].binding
      /\ plans'[p].src = plans[p].src
      /\ OpFits(q)
      /\ ops[q].kind = "create" /\ ops[q].target # None =>
           chats'[ops[q].target] # None /\ chats'[ops[q].target].by = q
      /\ ops[q].kind = "update" =>
           b \in Bindings /\ Bound(b) /\ bindings'[b].target = bindings[b].target
      /\ intents'[q] = intents[q]
  BY <1>0, <1>1, OpContext
<1>3. /\ ops'[q].status = next /\ ops'[q].kind = ops[q].kind
      /\ ops'[q].plan = p /\ ops'[q].binding = b
      /\ ops'[q].attempts = IF next = "applying" THEN ops[q].attempts + 1 ELSE ops[q].attempts
      /\ ops'[q].target = Recorded(ops[q].target, patch.target)
      /\ ops[q].kind = "create" /\ next = "verifying" => ops'[q].target # None
      /\ ops'[q].verified = (ops[q].verified \/ patch.verified)
      /\ baselines' = baselines
  BY <1>0 DEF Moves, bindingVars
<1>4. ops[q].status \in Unresolved
  BY DEF Advance, Unresolved, Uncertain
<1>5. baselines'[q].version = 0 /\ baselines[q].version \in Nat
  BY <1>1, <1>2, <1>3, <1>4
     DEF OpFits, Unresolved, ServiceInv, ServiceTypeOK, StoreTypeOK, BaselineRow
<1>6. next # "absent"
  BY DEF Statuses, Unresolved, Terminal
<1>a. ops[q].attempts \in Nat
  BY DEF ServiceInv, ServiceTypeOK, StoreTypeOK, OpRow
<1>7. /\ ops[q].kind \in {"create", "update"}
      /\ ops[q].kind = "create" => plans[p].binding = None /\ intents[q] = plans[p].src
      /\ ops[q].kind = "update" => plans[p].binding = b
      /\ plans[p].status \in Settled /\ ops[q].attempts <= 1
      /\ ops[q].status = "prepared" => ops[q].attempts = 0
      /\ ops[q].status \in Uncertain => ops[q].attempts = 1 /\ plans[p].status = "ready"
      /\ ops[q].kind = "update" /\ ops[q].attempts = 1 => ops[q].target = bindings[b].target
  BY <1>0, <1>2 DEF OpFits
<1>8. next \in Uncertain => ops'[q].attempts = 1 /\ plans[p].status = "ready"
  <2>1. ASSUME Begin(c)
        PROVE  plans[p].status = "ready"
    <3>1. At(c, "begin")
      BY <2>1 DEF Begin
    <3> QED
      BY <1>1, <3>1 DEF At, ServiceInv, CallsFit, CallFits
  <2> QED
    BY <1>3, <1>7, <2>1 DEF Advance, Uncertain
<1>9. /\ ops'[q].attempts <= 1
      /\ next # "prepared"
      /\ next = "succeeded" => ops'[q].verified /\ ops'[q].attempts = 0
  <2>1. /\ next = "applying" => ops[q].status = "prepared"
        /\ next # "prepared"
        /\ next = "succeeded" => ops[q].status = "prepared" /\ patch.verified
    BY DEF Advance
  <2>2. ops'[q].attempts <= 1
    BY <1>3, <1>7, <1>a, <2>1
  <2>3. next = "succeeded" => ops'[q].verified /\ ops'[q].attempts = 0
    BY <1>3, <1>7, <2>1
  <2> QED
    BY <2>1, <2>2, <2>3
<1>10. next = "succeeded" => plans[p].status = "no_change"
  <2>1. ASSUME FinishNoChange(c)
        PROVE  plans[p].status = "no_change"
    <3>1. At(c, "no_change")
      BY <2>1 DEF FinishNoChange
    <3> QED
      BY <1>1, <3>1 DEF At, ServiceInv, CallsFit, CallFits
  <2> QED
    BY <2>1 DEF Advance
<1>11. ASSUME ops[q].kind = "create", ops'[q].target # None
       PROVE  chats'[ops'[q].target] # None /\ chats'[ops'[q].target].by = q
  <2>1. CASE patch.target = None
    BY <1>2, <1>3, <1>11, <2>1 DEF Recorded
  <2>2. CASE patch.target # None
    <3>1. RecordReceipt(c) /\ patch.target = CreatedChat(q)
      BY <1>11, <2>2 DEF Advance
    <3>2. CreatedChat(q) \in Chats /\ Made(CreatedChat(q), q)
      BY <1>1, <1>11, <3>1, TargetsExist DEF RecordReceipt
    <3> QED
      BY <1>3, <2>2, <3>1, <3>2 DEF Recorded, Made, Persists
  <2> QED
    BY <2>1, <2>2
<1>12. ASSUME ops[q].kind = "update", ops'[q].attempts = 1
       PROVE  ops'[q].target = bindings'[b].target
  <2>1. CASE Begin(c)
    <3>1. patch.target = bindings[b].target /\ bindings[b].target \in Chats
      <4>1. next = "applying" => patch.target = TargetOf(c)
        BY <1>12 DEF Advance
      <4>2. At(c, "begin")
        BY <2>1 DEF Begin
      <4>3. TargetOf(c) = bindings[b].target /\ TargetOf(c) \in Chats
        BY <1>1, <1>7, <1>12, TargetsExist DEF TargetOf
      <4>4. next = "applying"
        BY <2>1, <4>2 DEF Advance, FinishNoChange, RecordReceipt, MarkUnknown, Interrupt,
                     MarkFailed, Resume, At
      <4> QED
        BY <4>1, <4>3, <4>4
    <3> QED
      BY <1>2, <1>3, <1>12, <3>1, NoneAssumption DEF Recorded
  <2>2. CASE ~Begin(c)
    <3>1. patch.target = None /\ ops[q].attempts = 1
      BY <1>3, <1>12, <2>2 DEF Advance
    <3> QED
      BY <1>2, <1>3, <1>7, <1>12, <3>1 DEF Recorded
  <2> QED
    BY <2>1, <2>2
<1>13. OpFits(q)'
  BY <1>2, <1>3, <1>5, <1>7, <1>8, <1>9, <1>10, <1>11, <1>12 DEF OpFits, Made
<1> QED
  BY <1>3, <1>6, <1>13 DEF OpStands, Present

\* What a finisher installs: the next version of binding b, with the source of the plan
\* and the document the call has read.
Finishes(q, b, doc) ==
  LET plan == plans[ops[q].plan] IN
  /\ Succeeds(q)
  /\ ops[q].kind \in {"create", "update"}
  /\ baselines'[q].binding = b
  /\ baselines'[q].version = plan.version + 1
  /\ baselines'[q].src = plan.src
  /\ baselines'[q].doc = doc
  /\ \A o \in Operations : o # q => baselines'[o] = baselines[o]
  /\ \A d \in Bindings : d # b => bindings'[d] = bindings[d]
  /\ IF ops[q].kind = "create"
       THEN /\ ~Bound(b)
            /\ bindings'[b].creator = q
            /\ bindings'[b].target = ops[q].target
            /\ ops[q].target \in Chats
       ELSE /\ Bound(b) /\ b = ops[q].binding /\ b = plan.binding
            /\ bindings'[b].target = bindings[b].target
            /\ bindings'[b].creator = bindings[b].creator

LEMMA FinishingFinishes ==
  ASSUME ServiceInv, NEW c \in Callers, Finishing(c)
  PROVE  \E b \in Bindings : Finishes(call[c].op, b, call[c].doc)
<1> DEFINE q == call[c].op
           doc == call[c].doc
           plan == plans[ops[q].plan]
<1>1. StoreTypeOK /\ At(c, "finish")
  BY FinishingIsCall DEF ServiceInv, ServiceTypeOK
<1>2. /\ q \in Operations /\ doc \in Docs /\ call[c].version \in Nat
      /\ OpFits(q) /\ PlanFits(plan) /\ plan \in PlanRow
  BY <1>1, FinishHolds DEF PlanOf, OpOf
<1>3. CASE FinishCreate(c)
  <2> DEFINE b == FreshBinding
             t == OpOf(c).target
  <2>1. b \in Bindings /\ t \in Chats /\ FinalizeVerifiedCreate(q, b, t, doc)
    <3>1. ~FinishUpdate(c)
      BY <1>3 DEF FinishCreate, FinishUpdate
    <3> QED
      BY <3>1, FinishingIsCall
  <2> HIDE DEF b, t
  <2>2. Succeeds(q) /\ ops[q].kind = "create" /\ ops[q].target = t
    BY <1>1, <1>2, <2>1, FinalizeSucceeds
  <2>3. Installs(q, b, t, doc)
    BY <1>1, <1>2, <2>1, FinalizeBindings
  <2>4. /\ plan.version = 0 /\ intents[q] = plan.src
    BY <1>2, <2>2 DEF OpFits, PlanFits
  <2>5. Finishes(q, b, doc)
    BY <2>1, <2>2, <2>3, <2>4 DEF Installs, Finishes
  <2> QED
    BY <2>1, <2>5
<1>4. CASE FinishUpdate(c)
  <2> DEFINE b == ops[q].binding
             version == call[c].version
  <2>1. CompleteVerifiedUpdate(q, version, doc)
    BY <1>4 DEF FinishUpdate
  <2>2. /\ b \in Bindings /\ plan.version = version /\ plan.binding = b
    BY <2>1 DEF CompleteVerifiedUpdate
  <2>3. Succeeds(q) /\ ops[q].kind = "update"
    BY <1>1, <1>2, <2>1, CompleteSucceeds
  <2>4. Advances(q, b, version, doc)
    BY <1>1, <1>2, <2>1, <2>2, CompleteBindings
  <2> HIDE DEF b, version, doc
  <2>5. /\ baselines'[q].binding = b /\ baselines'[q].version = plan.version + 1
        /\ baselines'[q].src = plan.src /\ baselines'[q].doc = doc
        /\ \A o \in Operations : o # q => baselines'[o] = baselines[o]
        /\ \A d \in Bindings : d # b => bindings'[d] = bindings[d]
        /\ Bound(b)
        /\ bindings'[b].target = bindings[b].target
        /\ bindings'[b].creator = bindings[b].creator
    BY <2>2, <2>4 DEF Advances
  <2>6. Finishes(q, b, doc)
    BY <2>2, <2>3, <2>5 DEF Finishes, b
  <2> QED
    BY <2>2, <2>6 DEF doc
<1> QED
  BY <1>3, <1>4 DEF Finishing

LEMMA FinishedStands ==
  ASSUME ServiceInv, Persists, NEW q \in Operations, NEW b \in Bindings, NEW doc,
         Finishes(q, b, doc), q \in landed, Present(q)
  PROVE  OpStands(q)'
<1>0. PICK p, e : p = ops[q].plan /\ e = ops[q].binding
  OBVIOUS
<1>1. /\ p \in Plans /\ plans[p] # None /\ plans'[p] # None
      /\ plans'[p].status = plans[p].status
      /\ plans'[p].binding = plans[p].binding
      /\ plans'[p].src = plans[p].src
      /\ plans'[p].version = plans[p].version
      /\ OpFits(q)
      /\ ops[q].kind = "create" /\ ops[q].target # None =>
           chats'[ops[q].target] # None /\ chats'[ops[q].target].by = q
      /\ ops[q].kind = "update" =>
           e \in Bindings /\ Bound(e) /\ bindings'[e].target = bindings[e].target
      /\ intents'[q] = intents[q]
      /\ q \in landed'
  BY <1>0, OpContext
<1>2. /\ ops[q].status = "verifying"
      /\ ops'[q].status = "succeeded"
      /\ ops'[q].kind = ops[q].kind
      /\ ops'[q].plan = p
      /\ ops[q].kind # "create" => ops'[q].binding = e
      /\ ops'[q].attempts = ops[q].attempts
      /\ ops'[q].target = ops[q].target
      /\ ops'[q].verified
      /\ baselines'[q].version = plans[p].version + 1
  BY <1>0 DEF Finishes, Succeeds
<1>3. plans[p].status = "ready"
  BY <1>0, <1>1, <1>2 DEF OpFits, Uncertain
<1>4. OpFits(q)'
  BY <1>0, <1>1, <1>2, <1>3 DEF OpFits, Made, Uncertain
<1> QED
  BY <1>2, <1>4 DEF OpStands, Present

LEMMA SweptStands ==
  ASSUME ServiceInv, Persists, Sweeps, NEW o \in Operations
  PROVE  OpStands(o)'
<1>1. /\ ops'[o].status = IF WasWriting(o) THEN "needs_reconciliation" ELSE ops[o].status
      /\ ops'[o].kind = ops[o].kind
      /\ ops'[o].plan = ops[o].plan
      /\ ops'[o].binding = ops[o].binding
      /\ ops'[o].attempts = ops[o].attempts
      /\ ops'[o].target = ops[o].target
      /\ ops'[o].verified = ops[o].verified
      /\ baselines' = baselines /\ intents' = intents
  BY DEF Sweeps, bindingVars
<1>2. CASE Present(o)
  <2>1. OpFits(o)'
    BY <1>1, <1>2, OpContext DEF OpFits, Made, WasWriting, Uncertain
  <2>2. Present(o)'
    BY <1>1, <1>2 DEF Present
  <2> QED
    BY <2>1, <2>2 DEF OpStands
<1>3. CASE ~Present(o)
  <2>1. ~Present(o)'
    BY <1>1, <1>3 DEF Present, WasWriting
  <2> QED
    BY <1>1, <1>3, <2>1 DEF ServiceInv, OpsFit, OpStands
<1> QED
  BY <1>2, <1>3

\* What preparing leaves: a fresh operation, and a call that goes on to carry it out.
LockOf(row, kind) ==
  IF kind = "create" THEN CreateLock(row.src) ELSE BindingLock(row.binding)

Readies(c, q, kind) ==
  LET p == call[c].plan
      lock == LockOf(plans[p], kind)
  IN
  /\ p \in Plans
  /\ Prepares(q, p, plans[p].binding, kind, lock)
  /\ LockFree(lock)
  /\ kind = "create" <=> plans[p].binding = None
  /\ kind = "create" => intents'[q] = plans[p].src
  /\ kind # "create" => intents' = intents
  /\ call' = [call EXCEPT ![c].at = IF kind = "create" THEN "begin" ELSE "load",
                          ![c].op = q]

LEMMA PreparingReadies ==
  ASSUME ServiceInv, NEW c \in Callers, Preparing(c)
  PROVE  /\ At(c, "prepare")
         /\ \E q \in Operations, kind \in {"create", "update"} : Readies(c, q, kind)
<1> DEFINE p == call[c].plan
           q == FreshOperation
<1>1. At(c, "prepare") /\ q \in Operations
  BY DEF Preparing, ApplyCreate, ApplyUpdate, SpareOperation, FreshOperation
<1>2. p \in Plans /\ plans[p] \in PlanRow /\ StoreTypeOK
  BY <1>1, PlannedPlan DEF At, Planned, PlanOf, ServiceInv, ServiceTypeOK
<1>3. CASE ApplyCreate(c)
  <2> DEFINE lock == CreateLock(plans[p].src)
  <2>1. /\ plans[p].binding = None
        /\ PrepareCreate(q, p, KeyOf(plans[p]), PayloadOf(plans[p]))
        /\ call' = [call EXCEPT ![c].at = "begin", ![c].op = q]
    BY <1>3 DEF ApplyCreate, PlanOf
  <2> HIDE DEF q
  <2>2. /\ Prepares(q, p, None, "create", lock) /\ intents'[q] = plans[p].src
        /\ LockFree(lock)
    BY <1>1, <1>2, <2>1, PrepareCreatePrepares
  <2>3. Readies(c, q, "create")
    BY <1>2, <2>1, <2>2 DEF Readies, LockOf
  <2> QED
    BY <1>1, <2>3
<1>4. CASE ApplyUpdate(c)
  <2> DEFINE b == plans[p].binding
             lock == BindingLock(b)
  <2>1. /\ b # None
        /\ PrepareBindingOperation(q, p, b, "update", KeyOf(plans[p]), PayloadOf(plans[p]))
        /\ call' = [call EXCEPT ![c].at = "load", ![c].op = q]
    BY <1>4 DEF ApplyUpdate, PlanOf
  <2> HIDE DEF q
  <2>2. b \in Bindings
    BY <1>2, <2>1 DEF PlanRow
  <2>3. Prepares(q, p, b, "update", lock) /\ intents' = intents /\ LockFree(lock)
    BY <1>1, <1>2, <2>1, <2>2, PrepareBindingPrepares
  <2>4. Readies(c, q, "update")
    BY <1>2, <2>1, <2>3 DEF Readies, LockOf
  <2> QED
    BY <1>1, <2>4
<1> QED
  BY <1>3, <1>4 DEF Preparing

\* The tables a plan, a chat or a clock never touches.
Resting == UNCHANGED <<ops, bindingVars>>

LEMMA StepRests ==
  ASSUME ServiceInv, [Next]_vars
  PROVE  \/ Resting
         \/ \E c \in Callers : Preparing(c) \/ Moving(c) \/ Finishing(c)
         \/ Restart
<1>1. ASSUME NEW c \in Callers, Planning(c) PROVE Resting
  BY <1>1 DEF Planning, PersistSource, PersistPlan, Confirm, PutSourceSnapshot, SavePlan,
              ConfirmPlan, Resting
<1>2. ASSUME NEW p \in Plans, PlanExpires(p) PROVE Resting
  BY <1>2 DEF PlanExpires, Expire, Resting
<1>3. UNCHANGED storeVars => Resting
  BY DEF storeVars, Resting, bindingVars
<1>4. ASSUME NEW c \in Callers, Quiet(c) PROVE Resting
  BY <1>3, <1>4, QuietStore
<1>5. Outside => Resting
  BY <1>3, OutsideStore
<1>6. UNCHANGED vars => Resting
  BY <1>3 DEF vars
<1> QED
  BY <1>1, <1>2, <1>4, <1>5, <1>6, NextSplits

LEMMA StepOps == DigestsCovered /\ ServiceInv /\ [Next]_vars => OpsFit'
<1> SUFFICES ASSUME DigestsCovered, ServiceInv, [Next]_vars, NEW o \in Operations
             PROVE  OpStands(o)'
  BY DEF OpsFit
<1>1. Persists
  BY StepPersists
<1>2. CASE Resting
  BY <1>1, <1>2, OpKept DEF Resting, bindingVars
<1>3. ASSUME NEW c \in Callers, Preparing(c)
      PROVE  OpStands(o)'
  <2>1. PICK q \in Operations, kind \in {"create", "update"} : Readies(c, q, kind)
    BY <1>3, PreparingReadies
  <2> DEFINE p == call[c].plan
  <2>2. p \in Plans /\ plans[p].status \in Settled /\ plans[p].binding \in Bindings \cup {None}
    BY <1>3, PreparingReadies, PlannedPlan DEF At, Planned, PlanOf, PlanRow
  <2>3. CASE o = q
    BY <1>1, <2>1, <2>2, <2>3, PreparedStands DEF Readies
  <2>4. CASE o # q
    BY <1>1, <2>1, <2>4, OpKept DEF Readies, Prepares
  <2> QED
    BY <2>3, <2>4
<1>4. ASSUME NEW c \in Callers, Moving(c)
      PROVE  OpStands(o)'
  <2>1. PICK next \in Statuses, patch \in Patch :
          /\ Moves(call[c].op, next, patch)
          /\ Recordable(ops[call[c].op].target, patch.target)
          /\ Advance(c, next, patch)
    BY <1>4, MovingMoves
  <2>2. call[c].at \in Operating
    BY <1>4, MovingMoves
  <2>3. CASE o = call[c].op
    BY <1>1, <2>1, <2>2, <2>3, MovedStands
  <2>4. CASE o # call[c].op
    BY <1>1, <2>1, <2>4, OpKept DEF Moves, bindingVars
  <2> QED
    BY <2>3, <2>4
<1>5. ASSUME NEW c \in Callers, Finishing(c)
      PROVE  OpStands(o)'
  <2>1. PICK b \in Bindings : Finishes(call[c].op, b, call[c].doc)
    BY <1>5, FinishingFinishes
  <2>2. /\ call[c].op \in landed /\ Present(call[c].op)
    BY <1>5, <2>1, FinishingIsCall, FinishHolds DEF Finishes, Succeeds, Present
  <2>3. CASE o = call[c].op
    BY <1>1, <2>1, <2>2, <2>3, FinishedStands
  <2>4. CASE o # call[c].op
    BY <1>1, <2>1, <2>4, OpKept DEF Finishes, Succeeds
  <2> QED
    BY <2>3, <2>4
<1>6. CASE Restart
  BY <1>1, <1>6, SweptStands, RecoverSweeps DEF Restart, ServiceInv, ServiceTypeOK
<1> QED
  BY <1>2, <1>3, <1>4, <1>5, <1>6, StepRests

-------------------------------------------------------------------------------
(* Plans, bindings and baselines *)

\* What a plan wants does not depend on what happens to its binding later.
LEMMA PlanFitsPersists ==
  ASSUME Persists, NEW row \in PlanRow, PlanFits(row), NEW flag \in BOOLEAN,
         NEW p, plans'[p] = [row EXCEPT !.confirmed = flag]
  PROVE  PlanFits(plans[p])'
<1>1. /\ plans'[p].binding = row.binding /\ plans'[p].version = row.version
      /\ plans'[p].desired = row.desired /\ plans'[p].src = row.src
      /\ plans'[p].status = row.status
      /\ row.binding \in Bindings \cup {None}
  BY DEF PlanRow
<1>2. row.binding # None =>
        Bound(row.binding)' /\ bindings'[row.binding].creator = bindings[row.binding].creator
  BY <1>1 DEF PlanFits, Persists, StorePersists
<1> QED
  BY <1>1, <1>2 DEF PlanFits

LEMMA StepPlans == DigestsCovered /\ ServiceInv /\ [Next]_vars => PlansFit'
<1> SUFFICES ASSUME DigestsCovered, ServiceInv, [Next]_vars, NEW p \in Plans, plans'[p] # None
             PROVE  PlanFits(plans[p])'
  BY DEF PlansFit
<1>1. Persists
  BY StepPersists
<1>2. CASE plans[p] # None
  <2>1. plans[p] \in PlanRow /\ PlanFits(plans[p])
    BY <1>2 DEF ServiceInv, ServiceTypeOK, StoreTypeOK, PlansFit
  <2>2. PICK flag \in BOOLEAN : plans'[p] = [plans[p] EXCEPT !.confirmed = flag]
    BY <1>1, <1>2 DEF Persists, StorePersists
  <2> QED
    BY <1>1, <2>1, <2>2, PlanFitsPersists
<1>3. CASE plans[p] = None
  <2>1. PICK c \in Callers : PersistPlan(c)
    <3>1. plans' # plans
      BY <1>3
    <3>2. UNCHANGED storeVars => plans' = plans
      BY DEF storeVars
    <3>3. ASSUME NEW c \in Callers, Preparing(c) PROVE plans' = plans
      BY <3>3, PreparingReadies DEF Readies, Prepares, planVars
    <3>4. ASSUME NEW c \in Callers, Moving(c) PROVE plans' = plans
      BY <3>4, MovingMoves DEF Moves, planVars
    <3>5. ASSUME NEW c \in Callers, Finishing(c) PROVE plans' = plans
      BY <3>5, FinishingFinishes DEF Finishes, Succeeds, planVars
    <3>6. Restart => plans' = plans
      BY DEF Restart, RecoverInterrupted, planVars
    <3>7. ASSUME NEW q \in Plans, PlanExpires(q) PROVE plans' = plans
      BY <3>7 DEF PlanExpires, Expire
    <3>8. ASSUME NEW c \in Callers, PersistSource(c) PROVE plans' = plans
      BY <3>8 DEF PersistSource, PutSourceSnapshot
    <3>9. ASSUME NEW c \in Callers, Confirm(c) PROVE plans'[p] = None
      <4>1. plans' = [plans EXCEPT ![call[c].plan] = [plans[call[c].plan] EXCEPT !.confirmed = TRUE]]
            /\ plans[call[c].plan] # None
        BY <3>9 DEF Confirm, ConfirmPlan
      <4> QED
        BY <1>3, <4>1 DEF ServiceInv, ServiceTypeOK, StoreTypeOK
    <3>10. ASSUME NEW c \in Callers, Quiet(c) PROVE plans' = plans
      BY <3>2, <3>10, QuietStore
    <3>11. Outside => plans' = plans
      BY <3>2, OutsideStore
    <3>12. UNCHANGED vars => plans' = plans
      BY <3>2 DEF vars
    <3> QED
      BY <1>3, <3>1, <3>3, <3>4, <3>5, <3>6, <3>7, <3>8, <3>9, <3>10, <3>11, <3>12,
         NextSplits DEF Planning
  <2>2. /\ At(c, "save") /\ plans' = [plans EXCEPT ![FreshPlan] =
                                        [call[c].draft EXCEPT !.confirmed = FALSE]]
    BY <2>1 DEF PersistPlan, SavePlan
  <2>3. call[c].draft \in PlanRow /\ PlanFits(call[c].draft)
    BY <2>2 DEF At, Drafting, ServiceInv, ServiceTypeOK, CallsFit, CallFits, CallRow
  <2>4. plans'[p] = [call[c].draft EXCEPT !.confirmed = FALSE]
    BY <1>3, <2>2 DEF ServiceInv, ServiceTypeOK, StoreTypeOK
  <2> QED
    BY <1>1, <2>3, <2>4, PlanFitsPersists
<1> QED
  BY <1>2, <1>3

LEMMA StepBindings == DigestsCovered /\ ServiceInv /\ [Next]_vars => BindingsFit'
<1> SUFFICES ASSUME DigestsCovered, ServiceInv, [Next]_vars, NEW b \in Bindings, Bound(b)'
             PROVE  Made(bindings[b].target, bindings[b].creator)'
  BY DEF BindingsFit
<1>1. Persists
  BY StepPersists
<1>2. CASE Bound(b)
  <2>1. /\ bindings'[b].target = bindings[b].target
        /\ bindings'[b].creator = bindings[b].creator
    BY <1>1, <1>2 DEF Persists, StorePersists
  <2>2. Made(bindings[b].target, bindings[b].creator) /\ bindings[b].target \in Chats
    BY <1>2, BoundChat DEF ServiceInv, BindingsFit
  <2> QED
    BY <1>1, <2>1, <2>2 DEF Made, Persists
<1>3. CASE ~Bound(b)
  <2>1. bindings'[b] # bindings[b]
    BY <1>3 DEF Bound
  <2>2. PICK c \in Callers : Finishing(c)
    <3>1. Resting => bindings' = bindings
      BY DEF Resting, bindingVars
    <3>2. ASSUME NEW c \in Callers, Preparing(c) PROVE bindings' = bindings
      BY <3>2, PreparingReadies DEF Readies, Prepares
    <3>3. ASSUME NEW c \in Callers, Moving(c) PROVE bindings' = bindings
      BY <3>3, MovingMoves DEF Moves, bindingVars
    <3>4. Restart => bindings' = bindings
      BY DEF Restart, RecoverInterrupted, bindingVars
    <3> QED
      BY <2>1, <3>1, <3>2, <3>3, <3>4, StepRests
  <2>3. PICK d \in Bindings : Finishes(call[c].op, d, call[c].doc)
    BY <2>2, FinishingFinishes
  <2>4. /\ d = b /\ ops[call[c].op].kind = "create"
        /\ bindings'[b].creator = call[c].op
        /\ bindings'[b].target = ops[call[c].op].target
        /\ ops[call[c].op].target \in Chats
    BY <1>3, <2>1, <2>3 DEF Finishes
  <2>5. OpFits(call[c].op)
    BY <2>2, FinishingIsCall, FinishHolds
  <2>6. Made(ops[call[c].op].target, call[c].op)
    BY <2>4, <2>5, NoneAssumption DEF OpFits
  <2> QED
    BY <1>1, <2>4, <2>6 DEF Made, Persists
<1> QED
  BY <1>2, <1>3

LEMMA StepBaselines == DigestsCovered /\ ServiceInv /\ [Next]_vars => BaselinesFit'
<1> SUFFICES ASSUME DigestsCovered, ServiceInv, [Next]_vars, NEW o \in Operations,
                    baselines'[o].version > 0
             PROVE  /\ baselines'[o].binding # None /\ baselines'[o].src # None
                    /\ baselines'[o].doc # None
                    /\ baselines'[o].doc.last = o
                    /\ baselines'[o].doc.by = bindings'[baselines'[o].binding].creator
                    /\ baselines'[o].doc.edit = Pristine
                    /\ baselines'[o].doc.messages = baselines'[o].src.messages
                    /\ baselines'[o].doc.text = baselines'[o].src.text
  BY DEF BaselinesFit
<1>1. Persists
  BY StepPersists
<1>2. CASE baselines'[o] = baselines[o]
  <2> DEFINE b == baselines[o].binding
  <2>1. baselines[o] \in BaselineRow
    BY DEF ServiceInv, ServiceTypeOK, StoreTypeOK
  <2>2. /\ b # None /\ baselines[o].src # None /\ baselines[o].doc # None
        /\ baselines[o].doc.last = o
        /\ baselines[o].doc.by = bindings[b].creator
        /\ baselines[o].doc.edit = Pristine
        /\ baselines[o].doc.messages = baselines[o].src.messages
        /\ baselines[o].doc.text = baselines[o].src.text
    BY <1>2 DEF ServiceInv, BaselinesFit
  <2>3. b \in Bindings
    BY <2>1, <2>2 DEF BaselineRow
  <2>4. baselines[o].version \in 1 .. bindings[b].version /\ bindings[b].version \in Nat
    BY <2>3 DEF ServiceInv, StoreInv, BaselineHistory, ServiceTypeOK, StoreTypeOK, BindingRow
  <2>5. Bound(b)
    BY <2>4 DEF Bound
  <2>6. bindings'[b].creator = bindings[b].creator
    BY <1>1, <2>3, <2>5 DEF Persists, StorePersists
  <2> QED
    BY <1>2, <2>2, <2>6
<1>3. CASE baselines'[o] # baselines[o]
  <2>1. PICK c \in Callers : Finishing(c)
    <3>1. Resting => baselines' = baselines
      BY DEF Resting, bindingVars
    <3>2. ASSUME NEW c \in Callers, Preparing(c) PROVE baselines' = baselines
      BY <3>2, PreparingReadies DEF Readies, Prepares
    <3>3. ASSUME NEW c \in Callers, Moving(c) PROVE baselines' = baselines
      BY <3>3, MovingMoves DEF Moves, bindingVars
    <3>4. Restart => baselines' = baselines
      BY DEF Restart, RecoverInterrupted, bindingVars
    <3> QED
      BY <1>3, <3>1, <3>2, <3>3, <3>4, StepRests
  <2> DEFINE q == call[c].op
             doc == call[c].doc
             plan == plans[ops[q].plan]
  <2>2. PICK b \in Bindings : Finishes(q, b, doc)
    BY <2>1, FinishingFinishes
  <2>3. o = q
    BY <1>3, <2>2 DEF Finishes
  <2>4. /\ doc \in Docs /\ plan \in PlanRow /\ PlanFits(plan) /\ OpFits(q)
        /\ HasOperationMarker(doc, q, ops[q].kind = "create")
        /\ MatchesPlanned(doc, plan.desired)
    BY <2>1, FinishingIsCall, FinishHolds DEF PlanOf, OpOf
  <2>5. /\ baselines'[q].binding = b /\ baselines'[q].src = plan.src
        /\ baselines'[q].doc = doc
    BY <2>2 DEF Finishes
  <2>6. plan.src \in Sources /\ b # None /\ plan.src # None /\ doc # None
    BY <2>4, NoneAssumption, AbsentAssumption DEF PlanRow
  <2>7. doc.last = q
    BY <2>4 DEF HasOperationMarker
  <2>8. CASE ops[q].kind = "create"
    <3>1. plan.desired = BuildFresh(plan.src)
      BY <2>4, <2>8 DEF OpFits, PlanFits
    <3>2. /\ doc.messages = plan.src.messages /\ doc.text = plan.src.text
          /\ doc.edit = Pristine
      BY <2>4, <3>1 DEF MatchesPlanned, BuildFresh
    <3>3. doc.by = q /\ bindings'[b].creator = q
      BY <2>2, <2>4, <2>8 DEF HasOperationMarker, Finishes
    <3> QED
      BY <2>3, <2>5, <2>6, <2>7, <3>2, <3>3
  <2>9. CASE ops[q].kind # "create"
    <3>1. Bound(b) /\ b = plan.binding /\ bindings'[b].creator = bindings[b].creator
      BY <2>2, <2>9 DEF Finishes
    <3>2. plan.status \in Settled
      BY <2>4 DEF OpFits
    <3>3. /\ plan.desired.messages = plan.src.messages
          /\ plan.desired.text = plan.src.text
          /\ plan.desired.edit = Pristine
          /\ plan.desired.by = bindings[b].creator
      BY <2>4, <2>6, <3>1, <3>2 DEF PlanFits
    <3>4. bindings[b].creator # None
      BY <3>1, BoundChat, NoneAssumption
    <3>5. /\ doc.messages = plan.src.messages /\ doc.text = plan.src.text
          /\ doc.edit = Pristine /\ doc.by = bindings[b].creator
      BY <2>4, <3>3, <3>4 DEF MatchesPlanned
    <3> QED
      BY <2>3, <2>5, <2>6, <2>7, <3>1, <3>5
  <2> QED
    BY <2>8, <2>9
<1> QED
  BY <1>2, <1>3

-------------------------------------------------------------------------------
(* Writes and chats *)

\* What was sent belongs to a present operation, attempted once, whose kind and claim
\* every step keeps.
LEMMA SentIsKept ==
  ASSUME ServiceInv, StorePersists, NEW o \in Operations, sent[o] = 1
  PROVE  /\ Present(o)
         /\ OpFits(o)
         /\ ops[o].attempts = 1
         /\ ops'[o].kind = ops[o].kind
         /\ intents'[o] = intents[o]
<1>1. sent[o] <= ops[o].attempts /\ ops[o].attempts \in Nat
  BY DEF ServiceInv, WritesFit, ServiceTypeOK, StoreTypeOK, OpRow
<1>2. Present(o)
  BY <1>1 DEF ServiceInv, OpsFit, OpStands
<1>3. OpFits(o)
  BY <1>2 DEF ServiceInv, OpsFit, OpStands
<1>4. ops[o].attempts <= 1
  BY <1>3 DEF OpFits
<1> QED
  BY <1>1, <1>2, <1>3, <1>4 DEF StorePersists

\* What Post puts on the wire.
LEMMA PostWrites ==
  ASSUME ServiceInv, NEW c \in Callers, Post(c)
  PROVE  /\ call[c].op \in Operations
         /\ ops[call[c].op].attempts = 1
         /\ sent[call[c].op] = 0
         /\ sent'[call[c].op] = 1
         /\ \A o \in Operations : o # call[c].op => sent'[o] = sent[o]
         /\ wire' = wire \cup {Write(c)}
         /\ Write(c) \in Requests
         /\ Write(c).op = call[c].op
         /\ Write(c).doc.last = call[c].op
         /\ IF Write(c).target = None
              THEN ops[call[c].op].kind = "create" /\ Write(c).doc.by = call[c].op
              ELSE ops[call[c].op].kind = "update" /\ Made(Write(c).target, Write(c).doc.by)
<1> DEFINE q == call[c].op
           plan == PlanOf(c)
<1>1. At(c, "post") /\ sent' = [sent EXCEPT ![q] = sent[q] + 1] /\ wire' = wire \cup {Write(c)}
  BY DEF Post
<1>2. /\ q \in Operations /\ OpFits(q) /\ plan \in PlanRow /\ call[c].plan = ops[q].plan
  BY <1>1, HeldOperation DEF At, Operating, Attempted, PlanOf
<1>3. ops[q].attempts = 1 /\ sent[q] = 0
  BY <1>1, AttemptKnown DEF At, Attempted, ServiceInv, PostsFit
<1>4. /\ sent'[q] = 1
      /\ \A o \in Operations : o # q => sent'[o] = sent[o]
  BY <1>1, <1>2, <1>3 DEF ServiceInv, ServiceTypeOK
<1>5. plan.src \in Sources /\ Write(c).op = q
  BY <1>2 DEF PlanRow, Write
<1>6. CASE ops[q].kind = "create"
  <2> DEFINE doc == Stamp(BuildFresh(plan.src), q, TRUE)
  <2>1. Write(c) = [op |-> q, target |-> None, doc |-> doc]
    BY <1>6 DEF Write
  <2>2. BuildFresh(plan.src) \in Docs
    BY <1>5, BuildFreshType
  <2>3. doc \in Docs /\ doc.last = q /\ doc.by = q
    BY <1>2, <2>2, StampType
  <2> HIDE DEF doc, q
  <2>4. /\ Write(c) \in Requests /\ Write(c).doc.last = q
        /\ Write(c).target = None /\ Write(c).doc.by = q
    BY <1>2, <2>1, <2>3 DEF Requests
  <2> USE DEF q
  <2> QED
    BY <1>1, <1>2, <1>3, <1>4, <1>5, <1>6, <2>4
<1>7. CASE ops[q].kind # "create"
  <2> DEFINE current == call[c].doc
             built == BuildFrom(plan.src, current)
  <2>1. ops[q].kind = "update"
    BY <1>2, <1>7 DEF OpFits
  <2>2. current # None /\ current.by = bindings[plan.binding].creator
    BY <1>1, <2>1 DEF At, ServiceInv, CallsFit, CallFits, PlanOf
  <2>3. current \in Docs
    BY <2>2 DEF ServiceInv, ServiceTypeOK, CallRow
  <2>4. plan.binding \in Bindings /\ Bound(plan.binding) /\ TargetOf(c) \in Chats
    BY <1>1, <1>7, TargetsExist DEF At, Operating, Attempted, OpOf
  <2>5. Made(TargetOf(c), bindings[plan.binding].creator)
    BY <2>4 DEF ServiceInv, BindingsFit, TargetOf
  <2>6. built \in Docs /\ built.by = current.by
    BY <1>5, <2>3, BuildFromType
  <2> HIDE DEF built
  <2> DEFINE doc == Stamp(built, q, FALSE)
  <2>7. doc \in Docs /\ doc.last = q /\ doc.by = built.by
    BY <1>2, <2>6, StampType
  <2>8. Write(c) = [op |-> q, target |-> TargetOf(c), doc |-> doc]
    BY <1>7 DEF Write, built
  <2>9. TargetOf(c) # None
    BY <2>4, NoneAssumption
  <2> HIDE DEF doc, q
  <2>10. /\ Write(c) \in Requests /\ Write(c).doc.last = q
         /\ Write(c).target = TargetOf(c) /\ Write(c).doc.by = bindings[plan.binding].creator
    BY <1>2, <2>2, <2>4, <2>6, <2>7, <2>8 DEF Requests
  <2> USE DEF q
  <2> QED
    BY <1>1, <1>2, <1>3, <1>4, <1>5, <2>1, <2>5, <2>9, <2>10
<1> QED
  BY <1>6, <1>7

\* A write that stays on the wire still fits.
LEMMA WireFitsPersists ==
  ASSUME ServiceInv, Persists, NEW r \in wire, sent'[r.op] = sent[r.op], r.op \notin landed'
  PROVE  WireFits(r)'
<1>1. WireFits(r) /\ r \in Requests
  BY DEF ServiceInv, WritesFit, ServiceTypeOK
<1>2. r.op \in Operations /\ r.target \in Chats \cup {None} /\ sent[r.op] = 1
  BY <1>1 DEF Requests, WireFits
<1>3. ops'[r.op].kind = ops[r.op].kind
  BY <1>2, SentIsKept DEF Persists
<1>4. r.target # None => Made(r.target, r.doc.by)'
  BY <1>1, <1>2 DEF WireFits, Made, Persists
<1> QED
  BY <1>1, <1>2, <1>3, <1>4 DEF WireFits

LEMMA StepWrites == DigestsCovered /\ ServiceInv /\ [Next]_vars => WritesFit'
<1> SUFFICES ASSUME DigestsCovered, ServiceInv, [Next]_vars
             PROVE  WritesFit'
  OBVIOUS
<1>1. Persists /\ StoreTypeOK'
  BY StepPersists, StepStore
<1>2. /\ WritesFit /\ wire \subseteq Requests /\ landed \subseteq Operations
      /\ \A o \in Operations : sent[o] \in Nat
  BY DEF ServiceInv, ServiceTypeOK
<1>3. ASSUME NEW o \in Operations
      PROVE  sent[o] <= ops'[o].attempts
  <2>1. ops[o].attempts \in Nat /\ ops'[o].attempts \in Nat
    BY <1>1 DEF ServiceInv, ServiceTypeOK, StoreTypeOK, OpRow
  <2>2. CASE Present(o)
    BY <1>1, <1>2, <2>1, <2>2 DEF Persists, StorePersists, WritesFit
  <2>3. CASE ~Present(o)
    BY <1>2, <2>1, <2>3 DEF WritesFit, ServiceInv, OpsFit, OpStands
  <2> QED
    BY <2>2, <2>3
<1>4. CASE wire' \subseteq wire /\ sent' = sent /\ landed' = landed
  <2>1. \A r \in wire' : WireFits(r)'
    BY <1>1, <1>2, <1>4, WireFitsPersists DEF WritesFit, WireFits
  <2> QED
    BY <1>2, <1>3, <1>4, <2>1 DEF WritesFit
<1>5. ASSUME NEW c \in Callers, Post(c)
      PROVE  WritesFit'
  <2>0. PICK q \in Operations, w \in Requests : q = call[c].op /\ w = Write(c)
    BY <1>5, PostWrites
  <2>1. /\ ops[q].attempts = 1 /\ sent[q] = 0 /\ sent'[q] = 1
        /\ \A o \in Operations : o # q => sent'[o] = sent[o]
        /\ wire' = wire \cup {w} /\ w.op = q /\ w.doc.last = q
        /\ IF w.target = None THEN ops[q].kind = "create" /\ w.doc.by = q
           ELSE ops[q].kind = "update" /\ Made(w.target, w.doc.by)
        /\ ops' = ops /\ chats' = chats /\ landed' = landed
    BY <1>5, <2>0, PostWrites DEF Post, storeVars
  <2>2. q \notin landed
    BY <1>2, <2>1 DEF WritesFit
  <2>3. WireFits(w)'
    BY <2>1, <2>2 DEF WireFits, Made
  <2>4. ASSUME NEW r \in wire
        PROVE  r.op # q /\ r.op \in Operations /\ WireFits(r)'
    <3>1. r.op \in Operations /\ sent[r.op] = 1 /\ r.op \notin landed
      BY <1>2 DEF WritesFit, WireFits, Requests
    <3>2. r.op # q
      BY <2>1, <3>1
    <3> QED
      BY <1>1, <2>1, <3>1, <3>2, WireFitsPersists
  <2>5. \A o \in Operations : sent'[o] <= ops'[o].attempts
    BY <1>3, <2>1
  <2>6. \A o \in landed' : sent'[o] = 1
    BY <1>2, <2>1, <2>2 DEF WritesFit
  <2>7. \A r1, r2 \in wire' : r1.op = r2.op => r1 = r2
    BY <1>2, <2>1, <2>4 DEF WritesFit
  <2>8. \A r \in wire' : WireFits(r)'
    BY <2>1, <2>3, <2>4
  <2> QED
    BY <2>5, <2>6, <2>7, <2>8 DEF WritesFit
<1>6. ASSUME NEW r \in wire, NEW t \in Chats, WriteLands(r, t)
      PROVE  WritesFit'
  <2>1. /\ wire' = wire \ {r} /\ landed' = landed \cup {r.op} /\ sent' = sent
    BY <1>6 DEF WriteLands
  <2>2. sent[r.op] = 1
    BY <1>2 DEF WritesFit, WireFits
  <2>3. ASSUME NEW w \in wire'
        PROVE  WireFits(w)'
    <3>1. w \in wire /\ w.op # r.op /\ w.op \notin landed
      BY <1>2, <2>1 DEF WritesFit, WireFits
    <3> QED
      BY <1>1, <2>1, <3>1, WireFitsPersists
  <2>4. \A o \in landed' : sent'[o] = 1
    BY <1>2, <2>1, <2>2 DEF WritesFit
  <2>5. \A r1, r2 \in wire' : r1.op = r2.op => r1 = r2
    BY <1>2, <2>1 DEF WritesFit
  <2> QED
    BY <1>3, <2>1, <2>3, <2>4, <2>5 DEF WritesFit
<1>7. ASSUME NEW c \in Callers, Await(c)
      PROVE  wire' \subseteq wire /\ sent' = sent /\ landed' = landed
  BY <1>7 DEF Await
<1>8. UNCHANGED owuVars => wire' \subseteq wire /\ sent' = sent /\ landed' = landed
  BY DEF owuVars
<1>9. CASE Outside
  BY <1>4, <1>6, <1>9, OutsideSplits DEF UserEdits
<1> QED
  BY <1>4, <1>5, <1>7, <1>8, <1>9, OwuStep DEF vars

LEMMA StepChats == DigestsCovered /\ ServiceInv /\ [Next]_vars => ChatsFit'
<1> SUFFICES ASSUME DigestsCovered, ServiceInv, [Next]_vars
             PROVE  ChatsFit'
  OBVIOUS
<1>1. Persists
  BY StepPersists
<1>2. /\ ChatsFit /\ WritesFit /\ wire \subseteq Requests /\ landed \subseteq Operations
      /\ chats \in [Chats -> Docs \cup {None}]
  BY DEF ServiceInv, ServiceTypeOK
<1>3. ASSUME NEW o \in landed
      PROVE  /\ o \in Operations
             /\ ops'[o].kind = ops[o].kind
             /\ intents'[o] = intents[o]
  BY <1>1, <1>2, SentIsKept DEF WritesFit, Persists
<1>4. CASE UNCHANGED <<chats, landed>>
  BY <1>2, <1>3, <1>4 DEF ChatsFit, Made
<1>5. ASSUME NEW t \in Chats, UserEdits(t)
      PROVE  ChatsFit'
  <2>1. /\ landed' = landed /\ chats[t] # None /\ chats'[t] # None
        /\ chats'[t].by = chats[t].by /\ chats'[t].last = chats[t].last
        /\ \A u \in Chats : u # t => chats'[u] = chats[u]
    BY <1>5, AbsentAssumption DEF UserEdits
  <2>2. \A u \in Chats : /\ chats'[u] # None <=> chats[u] # None
                         /\ chats'[u].by = chats[u].by
                         /\ chats'[u].last = chats[u].last
    BY <2>1
  <2> QED
    BY <1>2, <1>3, <2>1, <2>2 DEF ChatsFit, Made
<1>6. ASSUME NEW r \in wire, NEW t \in Chats, WriteLands(r, t)
      PROVE  ChatsFit'
  <2>1. /\ landed' = landed \cup {r.op} /\ chats'[t] # None
        /\ chats'[t].by = r.doc.by /\ chats'[t].last = r.op
        /\ \A u \in Chats : u # t => chats'[u] = chats[u]
    BY <1>6, AbsentAssumption DEF WriteLands
  <2>2. r.op \in Operations /\ sent[r.op] = 1 /\ r.op \notin landed /\ WireFits(r)
    BY <1>2 DEF Requests, WritesFit, WireFits
  <2>3. /\ OpFits(r.op) /\ ops'[r.op].kind = ops[r.op].kind
        /\ intents'[r.op] = intents[r.op] /\ Present(r.op)
    BY <1>1, <2>2, SentIsKept DEF Persists
  <2>4. CASE r.target = None
    <3>1. /\ chats[t] = None /\ r.doc.by = r.op /\ ops[r.op].kind = "create"
      BY <1>6, <2>2, <2>4 DEF WriteLands, WireFits
    <3>2. intents[r.op] # None
      <4>1. intents[r.op] = plans[ops[r.op].plan].src /\ plans[ops[r.op].plan] \in PlanRow
        BY <1>1, <2>2, <2>3, <3>1, OpContext DEF OpFits
      <4> QED
        BY <4>1, NoneAssumption DEF PlanRow
    <3>3. ASSUME NEW u \in Chats, chats'[u] # None
          PROVE  /\ chats'[u].by \in landed' /\ intents'[chats'[u].by] # None
                 /\ chats'[u].last \in landed'
      BY <1>2, <1>3, <2>1, <2>3, <3>1, <3>2, <3>3 DEF ChatsFit
    <3>4. ASSUME NEW t1 \in Chats, NEW t2 \in Chats, chats'[t1] # None, chats'[t2] # None,
                 chats'[t1].by = chats'[t2].by
          PROVE  t1 = t2
      BY <1>2, <2>1, <2>2, <3>1, <3>4 DEF ChatsFit
    <3>5. ASSUME NEW o \in landed', ops'[o].kind = "create"
          PROVE  \E u \in Chats : Made(u, o)'
      <4>1. CASE o = r.op
        BY <2>1, <3>1, <4>1 DEF Made
      <4>2. CASE o \in landed
        <5>1. PICK u \in Chats : Made(u, o)
          BY <1>2, <1>3, <3>5, <4>2 DEF ChatsFit
        <5> QED
          BY <1>1, <5>1 DEF Made, Persists
      <4> QED
        BY <2>1, <4>1, <4>2
    <3> QED
      BY <3>3, <3>4, <3>5 DEF ChatsFit
  <2>5. CASE r.target # None
    <3>1. /\ t = r.target /\ chats[t] # None /\ r.doc.by = chats[t].by
          /\ ops[r.op].kind = "update"
      BY <1>6, <2>2, <2>5 DEF WriteLands, WireFits
    <3>2. \A u \in Chats : /\ chats'[u] # None <=> chats[u] # None
                           /\ chats'[u].by = chats[u].by
      BY <2>1, <3>1
    <3>3. ASSUME NEW u \in Chats, chats'[u] # None
          PROVE  /\ chats'[u].by \in landed' /\ intents'[chats'[u].by] # None
                 /\ chats'[u].last \in landed'
      BY <1>2, <1>3, <2>1, <3>2, <3>3 DEF ChatsFit
    <3>4. ASSUME NEW t1 \in Chats, NEW t2 \in Chats, chats'[t1] # None, chats'[t2] # None,
                 chats'[t1].by = chats'[t2].by
          PROVE  t1 = t2
      BY <1>2, <3>2, <3>4 DEF ChatsFit
    <3>5. ASSUME NEW o \in landed', ops'[o].kind = "create"
          PROVE  \E u \in Chats : Made(u, o)'
      <4>1. o \in landed
        BY <2>1, <2>3, <3>1, <3>5
      <4>2. PICK u \in Chats : Made(u, o)
        BY <1>2, <1>3, <3>5, <4>1 DEF ChatsFit
      <4> QED
        BY <1>1, <4>2 DEF Made, Persists
    <3> QED
      BY <3>3, <3>4, <3>5 DEF ChatsFit
  <2> QED
    BY <2>4, <2>5
<1>7. CASE Outside
  BY <1>5, <1>6, <1>7, OutsideSplits
<1> QED
  BY <1>4, <1>7, OwuStep DEF owuVars, vars

-------------------------------------------------------------------------------
(* The calls *)

\* The place step asks a call for nothing that it did not know at the place from, but
\* that the attempt is made.
Follows(from, step, attempted) ==
  /\ step \in Drafting => from \in Drafting
  /\ step = "read_target" => from = "read_target"
  /\ step \in Planned => from \in Planned
  /\ step \in Operating => from \in Operating
  /\ step \in Updating => from \in Updating
  /\ step = "no_change" => from = "no_change"
  /\ step = "reread" => from = "reread"
  /\ step \in {"begin", "post"} => from \in {"begin", "post"}
  /\ step \in Attempted => from \in Attempted \/ attempted
  /\ step = "receipt" => from = "receipt"
  /\ step \in Proven => from \in Proven

\* What a call knows stays true, whatever the store and Open WebUI do.
LEMMA KnowledgePersists ==
  ASSUME ServiceInv, Persists, OpsFit', StoreTypeOK', NEW c \in Callers,
         call'[c].draft = call[c].draft, call'[c].plan = call[c].plan,
         call'[c].op = call[c].op, call'[c].doc = call[c].doc,
         NEW attempted \in BOOLEAN, attempted => ops'[call[c].op].attempts = 1,
         Follows(call[c].at, call'[c].at, attempted)
  PROVE  CallFits(c)'
<1>0. PICK from, step, draft, p, o, doc :
        /\ from = call[c].at /\ step = call'[c].at /\ draft = call[c].draft
        /\ p = call[c].plan /\ o = call[c].op /\ doc = call[c].doc
  OBVIOUS
<1>1. /\ call'[c].draft = draft /\ call'[c].plan = p /\ call'[c].op = o
      /\ call'[c].doc = doc /\ call'[c].at = step
      /\ Follows(from, step, attempted)
  BY <1>0
<1>2. CallFits(c) /\ call[c] \in CallRow
  BY DEF ServiceInv, ServiceTypeOK, CallsFit
<1>3. step \in Drafting => draft # None /\ PlanFits(call[c].draft)'
  <2>1. ASSUME step \in Drafting
        PROVE  draft # None /\ draft \in PlanRow /\ PlanFits(draft)
    BY <1>0, <1>1, <1>2, <2>1 DEF Follows, CallFits, CallRow
  <2>2. ASSUME step \in Drafting, draft.binding # None
        PROVE  Bound(draft.binding)' /\ bindings'[draft.binding].creator
                                          = bindings[draft.binding].creator
    BY <2>1, <2>2 DEF PlanFits, PlanRow, Persists, StorePersists
  <2> QED
    BY <1>1, <2>1, <2>2 DEF PlanFits
<1>4. step = "read_target" => draft # None /\ DraftFits(call[c].draft)'
  <2>1. ASSUME step = "read_target"
        PROVE  draft # None /\ draft \in PlanRow /\ DraftFits(draft)
    BY <1>0, <1>1, <1>2, <2>1 DEF Follows, CallFits, CallRow
  <2>2. ASSUME step = "read_target"
        PROVE  Bound(draft.binding)' /\ bindings'[draft.binding].creator
                                          = bindings[draft.binding].creator
    BY <2>1, <2>2 DEF DraftFits, PlanRow, Persists, StorePersists
  <2> QED
    BY <1>1, <2>1, <2>2 DEF DraftFits
<1>5. step \in Planned => p # None /\ plans'[p] # None /\ plans'[p].status \in Settled
  <2>1. ASSUME step \in Planned
        PROVE  p \in Plans /\ p # None /\ plans[p] # None /\ plans[p].status \in Settled
    BY <1>0, <1>1, <1>2, <2>1 DEF Follows, CallFits, CallRow
  <2>2. ASSUME step \in Planned
        PROVE  plans'[p] # None /\ plans'[p].status = plans[p].status
    <3>1. PICK flag \in BOOLEAN : plans'[p] # None /\ plans'[p] = [plans[p] EXCEPT !.confirmed = flag]
      BY <2>1, <2>2 DEF Persists, StorePersists
    <3>2. plans[p] \in PlanRow
      BY <2>1, <2>2 DEF ServiceInv, ServiceTypeOK, StoreTypeOK
    <3> QED
      BY <3>1, <3>2 DEF PlanRow
  <2> QED
    BY <2>1, <2>2
<1>6. ASSUME step \in Operating
      PROVE  /\ o \in Operations /\ o # None /\ Present(o) /\ Present(o)' /\ p = ops[o].plan
             /\ ops'[o].plan = ops[o].plan /\ ops'[o].kind = ops[o].kind
             /\ p \in Plans /\ plans'[p].status = plans[p].status
             /\ plans'[p].binding = plans[p].binding
             /\ plans'[p].desired = plans[p].desired
             /\ ops[o].kind = "update" =>
                  bindings'[plans[p].binding].creator = bindings[plans[p].binding].creator
             /\ ops[o].attempts = 1 => ops'[o].attempts = 1
             /\ o \in landed => o \in landed'
  <2>1. o # None /\ Present(o) /\ p = ops[o].plan /\ o \in Operations
    BY <1>0, <1>1, <1>2, <1>6 DEF Follows, CallFits, CallRow
  <2>2. /\ p \in Plans /\ plans[p] # None /\ plans[p] \in PlanRow /\ OpFits(o)
        /\ PlanFits(plans[p])
    BY <2>1, OpContext
  <2>3. PICK flag \in BOOLEAN : plans'[p] # None /\ plans'[p] = [plans[p] EXCEPT !.confirmed = flag]
    BY <2>2 DEF Persists, StorePersists
  <2>4. /\ plans'[p].status = plans[p].status
        /\ plans'[p].binding = plans[p].binding
        /\ plans'[p].desired = plans[p].desired
    BY <2>2, <2>3 DEF PlanRow
  <2>5. ops[o].kind = "update" =>
          bindings'[plans[p].binding].creator = bindings[plans[p].binding].creator
    BY <2>1, <2>2, NoneAssumption DEF OpFits, PlanFits, Persists, StorePersists
  <2>6. /\ Present(o)' /\ ops'[o].plan = ops[o].plan /\ ops'[o].kind = ops[o].kind
        /\ ops'[o].attempts >= ops[o].attempts
    BY <2>1 DEF Persists, StorePersists
  <2>7. ops'[o].attempts <= 1 /\ ops'[o].attempts \in Nat
    BY <2>1, <2>6 DEF OpsFit, OpStands, OpFits, StoreTypeOK, OpRow
  <2> QED
    BY <2>1, <2>2, <2>4, <2>5, <2>6, <2>7 DEF Persists
<1>7. step \in Updating \cup Attempted \cup {"begin"} => step \in Operating
  BY DEF Operating
<1>8. step \in Updating => ops'[o].kind = "update"
  BY <1>0, <1>1, <1>2, <1>6, <1>7 DEF Follows, CallFits
<1>9. step = "no_change" => plans'[p].status = "no_change"
  BY <1>0, <1>1, <1>2, <1>6, <1>7 DEF Follows, CallFits, Updating
<1>10. step = "reread" =>
         doc # None /\ doc.by = bindings'[plans'[p].binding].creator
  BY <1>0, <1>1, <1>2, <1>6, <1>7 DEF Follows, CallFits, Updating
<1>11. step \in {"begin", "post"} =>
         /\ plans'[p].status = "ready"
         /\ ops'[o].kind = "update" =>
              doc # None /\ doc.by = bindings'[plans'[p].binding].creator
  BY <1>0, <1>1, <1>2, <1>6, <1>7 DEF Follows, CallFits, Attempted
<1>12. step \in Attempted => ops'[o].attempts = 1
  BY <1>0, <1>1, <1>2, <1>6, <1>7 DEF Follows, CallFits
<1>13. step = "receipt" => o \in landed'
  BY <1>0, <1>1, <1>2, <1>6, <1>7 DEF Follows, CallFits, Attempted
<1>14. step \in Proven =>
         /\ o \in landed' /\ doc # None
         /\ HasOperationMarker(doc, o, ops'[o].kind = "create")
         /\ MatchesPlanned(doc, plans'[p].desired)
  BY <1>0, <1>1, <1>2, <1>6, <1>7 DEF Follows, CallFits, Attempted, Proven
<1>15. step \in Operating => o # None /\ Present(o)' /\ p = ops'[o].plan
  BY <1>6
<1> QED
  BY <1>1, <1>3, <1>4, <1>5, <1>8, <1>9, <1>10, <1>11, <1>12, <1>13, <1>14, <1>15
     DEF CallFits, Present, HasOperationMarker, MatchesPlanned

\* A call that goes on after one of its store methods.
LEMMA GoesOn ==
  ASSUME ServiceInv, Persists, OpsFit', StoreTypeOK', NEW c \in Callers, NEW step \in Steps,
         Goto(c, step), NEW attempted \in BOOLEAN,
         attempted => ops'[call[c].op].attempts = 1, Follows(call[c].at, step, attempted)
  PROVE  Lands(c) /\ call'[c].at = step /\ call'[c].op = call[c].op
<1>1. /\ call' \in [Callers -> CallRow]
      /\ \A d \in Callers : d # c => call'[d] = call[d]
      /\ call'[c].at = step
      /\ call'[c].draft = call[c].draft /\ call'[c].plan = call[c].plan
      /\ call'[c].op = call[c].op /\ call'[c].doc = call[c].doc
  BY GotoMoves DEF ServiceInv, ServiceTypeOK
<1>2. CallFits(c)'
  BY <1>1, KnowledgePersists
<1> QED
  BY <1>1, <1>2 DEF Lands

LEMMA PlanningLands ==
  ASSUME ServiceInv, Persists, OpsFit', StoreTypeOK', NEW c \in Callers, Planning(c)
  PROVE  Lands(c) /\ call'[c].at # "post"
<1>1. CASE PersistSource(c)
  <2>1. At(c, "put") /\ Goto(c, "save")
    BY <1>1 DEF PersistSource
  <2>2. Follows("put", "save", FALSE) /\ "save" \in Steps
    BY DEF Follows, Steps, Drafting, Planned, Updating, Attempted, Operating, Proven
  <2> QED
    BY <2>1, <2>2, GoesOn DEF At
<1>2. CASE PersistPlan(c)
  BY <1>2, ReturnLands DEF PersistPlan, ServiceInv, ServiceTypeOK
<1>3. CASE Confirm(c)
  <2>1. At(c, "confirm") /\ Goto(c, "prepare")
    BY <1>3 DEF Confirm
  <2>2. Follows("confirm", "prepare", FALSE) /\ "prepare" \in Steps
    BY DEF Follows, Steps, Drafting, Planned, Updating, Attempted, Operating, Proven
  <2> QED
    BY <2>1, <2>2, GoesOn DEF At
<1> QED
  BY <1>1, <1>2, <1>3 DEF Planning

LEMMA PreparingLands ==
  ASSUME ServiceInv, NEW c \in Callers, Preparing(c)
  PROVE  Lands(c) /\ call'[c].at # "post"
<1>1. PICK q \in Operations, kind \in {"create", "update"} : Readies(c, q, kind)
  BY PreparingReadies
<1> DEFINE p == call[c].plan
           step == IF kind = "create" THEN "begin" ELSE "load"
<1>2. /\ p \in Plans /\ plans[p] # None /\ plans[p].status \in Settled /\ PlanFits(plans[p])
  BY PreparingReadies, PlannedPlan DEF At, Planned, PlanOf
<1>3. /\ ops'[q].status = "prepared" /\ ops'[q].kind = kind /\ ops'[q].plan = p
      /\ plans' = plans
      /\ kind = "create" <=> plans[p].binding = None
  BY <1>1 DEF Readies, Prepares, planVars
<1>4. kind = "create" => plans[p].status = "ready"
  BY <1>2, <1>3 DEF PlanFits, Settled
<1>5. call \in [Callers -> CallRow] /\ step \in Steps
  BY DEF ServiceInv, ServiceTypeOK, Steps
<1>6. call' = [call EXCEPT ![c] = [call[c] EXCEPT !.at = step, !.op = q]]
  BY <1>1 DEF Readies
<1>7. step \in {"begin", "load"} /\ (step = "begin" <=> kind = "create")
  OBVIOUS
<1> HIDE DEF step
<1>8. [call[c] EXCEPT !.at = step, !.op = q] \in CallRow
  BY <1>5 DEF CallRow
<1>9. /\ call' \in [Callers -> CallRow]
      /\ \A d \in Callers : d # c => call'[d] = call[d]
  BY <1>5, <1>6, <1>8
<1>10. call'[c] = [call[c] EXCEPT !.at = step, !.op = q] /\ call[c] \in CallRow
  BY <1>5, <1>6
<1>11. call'[c].at = step /\ call'[c].op = q /\ call'[c].plan = p
  BY <1>10 DEF CallRow
<1>12. q # None
  BY NoneAssumption
<1>13. CallFits(c)'
  BY <1>3, <1>4, <1>7, <1>11, <1>12
     DEF CallFits, Drafting, Planned, Updating, Attempted, Operating, Proven, Present
<1> QED
  BY <1>7, <1>9, <1>11, <1>13 DEF Lands

LEMMA MovingLands ==
  ASSUME ServiceInv, Persists, OpsFit', StoreTypeOK', NEW c \in Callers, Moving(c)
  PROVE  /\ Lands(c)
         /\ call'[c].at = "post" =>
              Begin(c) /\ call'[c].op = call[c].op /\ ops[call[c].op].status = "prepared"
<1>1. PICK next \in Statuses, patch \in Patch :
        Moves(call[c].op, next, patch) /\ Advance(c, next, patch)
  BY MovingMoves
<1>2. /\ call \in [Callers -> CallRow]
      /\ "post" \in Steps /\ "readback" \in Steps /\ "reconcile" \in Steps /\ "finish" \in Steps
  BY DEF ServiceInv, ServiceTypeOK, Steps
<1>3. CASE Begin(c)
  <2>1. At(c, "begin") /\ Goto(c, "post") /\ call[c].op \in Operations
    BY <1>3, MovingMoves DEF Begin
  <2>2. next = "applying" /\ ops[call[c].op].status = "prepared"
    BY <1>1, <2>1 DEF Advance, FinishNoChange, RecordReceipt, MarkUnknown, Interrupt,
                      MarkFailed, Resume, At
  <2>3. OpFits(call[c].op)
    BY <2>1, HeldOperation DEF At, Operating
  <2>4. ops[call[c].op].attempts = 0
    BY <2>2, <2>3 DEF OpFits
  <2>5. ops'[call[c].op].attempts = 1
    BY <1>1, <2>2, <2>4 DEF Moves
  <2>6. Follows("begin", "post", TRUE)
    BY DEF Follows, Drafting, Planned, Updating, Attempted, Operating, Proven
  <2>7. Lands(c) /\ call'[c].op = call[c].op
    BY <1>2, <2>1, <2>5, <2>6, GoesOn DEF At
  <2> QED
    BY <1>3, <2>2, <2>7
<1>4. CASE RecordReceipt(c)
  <2>1. At(c, "receipt") /\ Goto(c, "readback")
    BY <1>4 DEF RecordReceipt
  <2>2. Follows("receipt", "readback", FALSE)
    BY DEF Follows, Drafting, Planned, Updating, Attempted, Operating, Proven
  <2> QED
    BY <1>2, <2>1, <2>2, GoesOn DEF At
<1>5. CASE Interrupt(c)
  <2>1. At(c, "interrupt") /\ Goto(c, "reconcile")
    BY <1>5 DEF Interrupt
  <2>2. Follows("interrupt", "reconcile", FALSE)
    BY DEF Follows, Drafting, Planned, Updating, Attempted, Operating, Proven
  <2> QED
    BY <1>2, <2>1, <2>2, GoesOn DEF At
<1>6. CASE Resume(c)
  <2>1. At(c, "resume") /\ Goto(c, "finish")
    BY <1>6 DEF Resume
  <2>2. Follows("resume", "finish", FALSE)
    BY DEF Follows, Drafting, Planned, Updating, Attempted, Operating, Proven
  <2> QED
    BY <1>2, <2>1, <2>2, GoesOn DEF At
<1>7. CASE FinishNoChange(c) \/ MarkUnknown(c) \/ MarkFailed(c)
  <2>1. Return(c)
    BY <1>7 DEF FinishNoChange, MarkUnknown, MarkFailed
  <2> QED
    BY <1>2, <2>1, ReturnLands
<1> QED
  BY <1>3, <1>4, <1>5, <1>6, <1>7 DEF Moving

LEMMA FinishingLands ==
  ASSUME ServiceInv, NEW c \in Callers, Finishing(c)
  PROVE  Lands(c) /\ call'[c].at # "post"
<1>1. Return(c)
  BY DEF Finishing, FinishCreate, FinishUpdate
<1> QED
  BY <1>1, ReturnLands DEF ServiceInv, ServiceTypeOK

\* Every step moves one call, none, or sends them all home.
LEMMA StepMovesOne ==
  ASSUME DigestsCovered, ServiceInv, [Next]_vars
  PROVE  \/ \E c \in Callers :
              /\ Lands(c)
              /\ \/ call'[c].at # "post"
                 \/ /\ Begin(c) /\ call'[c].op = call[c].op
                    /\ ops[call[c].op].status = "prepared"
         \/ call' = call
         \/ call' = [c \in Callers |-> Idle]
<1>1. Persists /\ OpsFit' /\ StoreTypeOK'
  BY StepPersists, StepOps, StepStore
<1>2. ASSUME NEW c \in Callers, Quiet(c)
      PROVE  Lands(c) /\ call'[c].at # "post"
  BY <1>2, QuietLands DEF At
<1>3. ASSUME NEW c \in Callers, Planning(c)
      PROVE  Lands(c) /\ call'[c].at # "post"
  BY <1>1, <1>3, PlanningLands
<1>4. ASSUME NEW c \in Callers, Preparing(c)
      PROVE  Lands(c) /\ call'[c].at # "post"
  BY <1>4, PreparingLands
<1>5. ASSUME NEW c \in Callers, Moving(c)
      PROVE  /\ Lands(c)
             /\ call'[c].at = "post" =>
                  Begin(c) /\ call'[c].op = call[c].op /\ ops[call[c].op].status = "prepared"
  BY <1>1, <1>5, MovingLands
<1>6. ASSUME NEW c \in Callers, Finishing(c)
      PROVE  Lands(c) /\ call'[c].at # "post"
  BY <1>6, FinishingLands
<1>7. Outside => call' = call
  BY OutsideStore
<1>8. ASSUME NEW p \in Plans, PlanExpires(p) PROVE call' = call
  BY <1>8 DEF PlanExpires
<1>9. Restart => call' = [c \in Callers |-> Idle]
  BY DEF Restart
<1>10. UNCHANGED vars => call' = call
  BY DEF vars
<1> QED
  BY <1>2, <1>3, <1>4, <1>5, <1>6, <1>7, <1>8, <1>9, <1>10, NextSplits

LEMMA StepCalls ==
  DigestsCovered /\ ServiceInv /\ [Next]_vars => call' \in [Callers -> CallRow] /\ CallsFit'
<1> SUFFICES ASSUME DigestsCovered, ServiceInv, [Next]_vars
             PROVE  call' \in [Callers -> CallRow] /\ CallsFit'
  OBVIOUS
<1>1. Persists /\ OpsFit' /\ StoreTypeOK' /\ call \in [Callers -> CallRow]
  BY StepPersists, StepOps, StepStore DEF ServiceInv, ServiceTypeOK
<1>2. ASSUME NEW d \in Callers, call'[d] = call[d]
      PROVE  CallFits(d)'
  <2>1. Follows(call[d].at, call'[d].at, FALSE)
    BY <1>2 DEF Follows
  <2> QED
    BY <1>1, <1>2, <2>1, KnowledgePersists
<1>3. CASE \E c \in Callers : Lands(c)
  BY <1>2, <1>3 DEF Lands, CallsFit
<1>4. CASE call' = call
  BY <1>1, <1>2, <1>4 DEF CallsFit
<1>5. CASE call' = [c \in Callers |-> Idle]
  <2>1. Idle \in CallRow /\ Idle.at = "idle"
    BY DEF Idle, CallRow, Steps
  <2>2. ASSUME NEW c \in Callers PROVE CallFits(c)'
    <3>1. call'[c].at = "idle"
      BY <1>5, <2>1
    <3> QED
      BY <3>1 DEF CallFits, Drafting, Planned, Updating, Attempted, Operating, Proven
  <2> QED
    BY <1>5, <2>1, <2>2 DEF CallsFit
<1> QED
  BY <1>3, <1>4, <1>5, StepMovesOne

LEMMA StepPosts == DigestsCovered /\ ServiceInv /\ [Next]_vars => PostsFit'
<1> SUFFICES ASSUME DigestsCovered, ServiceInv, [Next]_vars
             PROVE  PostsFit'
  OBVIOUS
<1>1. ASSUME NEW c \in Callers, At(c, "post")
      PROVE  /\ call[c].op \in Operations /\ ops[call[c].op].attempts = 1
             /\ sent[call[c].op] = 0
  BY <1>1, AttemptKnown, HeldOperation DEF At, Attempted, Operating, ServiceInv, PostsFit
<1>2. \A c, d \in Callers :
        At(c, "post") /\ At(d, "post") /\ call[c].op = call[d].op => c = d
  BY DEF ServiceInv, PostsFit
<1>3. ASSUME NEW c \in Callers, Lands(c), call'[c].at # "post"
      PROVE  PostsFit'
  <2>1. ASSUME NEW d \in Callers, At(d, "post")'
        PROVE  /\ At(d, "post") /\ call'[d] = call[d] /\ d # c
               /\ sent'[call[d].op] = 0
    <3>1. d # c /\ call'[d] = call[d] /\ At(d, "post")
      BY <1>3, <2>1 DEF At, Lands
    <3>2. CASE sent' = sent
      BY <1>1, <3>1, <3>2
    <3>3. ASSUME NEW e \in Callers, Post(e)
          PROVE  sent'[call[d].op] = 0
      <4>1. e # d
        <5>1. At(e, "post") /\ call'[e].at # "post"
          <6>1. call' = [call EXCEPT ![e] = [call[e] EXCEPT !.at = "await", !.doc = None]]
                /\ At(e, "post")
            BY <3>3 DEF Post
          <6> QED
            BY <6>1 DEF ServiceInv, ServiceTypeOK, CallRow
        <5> QED
          BY <2>1, <5>1 DEF At
      <4>2. call[d].op # call[e].op
        BY <1>2, <3>1, <3>3, <4>1 DEF Post
      <4> QED
        BY <1>1, <3>1, <3>3, <4>2, PostWrites
    <3>4. sent' = sent \/ \E e \in Callers : Post(e)
      BY OwuStep, OutsideSplits DEF owuVars, vars, WriteLands, UserEdits, Await
    <3> QED
      BY <3>1, <3>2, <3>3, <3>4
  <2> QED
    BY <1>2, <2>1 DEF PostsFit, At
<1>4. ASSUME NEW c \in Callers, Lands(c), Begin(c), call'[c].op = call[c].op,
             ops[call[c].op].status = "prepared"
      PROVE  PostsFit'
  <2> DEFINE q == call[c].op
  <2>1. q \in Operations /\ OpFits(q)
    BY <1>4, HeldOperation DEF Begin, At, Operating
  <2>2. ops[q].attempts = 0
    BY <1>4, <2>1 DEF OpFits
  <2>3. sent[q] = 0
    BY <2>1, <2>2 DEF ServiceInv, WritesFit, ServiceTypeOK
  <2>4. sent' = sent
    BY <1>4 DEF Begin, owuVars
  <2>5. ASSUME NEW d \in Callers, d # c, At(d, "post")'
        PROVE  At(d, "post") /\ call'[d] = call[d] /\ call[d].op # q
    BY <1>1, <1>4, <2>2, <2>5 DEF At, Lands
  <2> QED
    BY <1>1, <1>2, <1>4, <2>3, <2>4, <2>5 DEF PostsFit, At
<1>5. CASE call' = call
  <2>1. sent' = sent \/ \E e \in Callers : Post(e)
    BY OwuStep, OutsideSplits DEF owuVars, vars, WriteLands, UserEdits, Await
  <2>2. ASSUME NEW e \in Callers, Post(e) PROVE FALSE
    <3>1. call' = [call EXCEPT ![e] = [call[e] EXCEPT !.at = "await", !.doc = None]]
          /\ At(e, "post")
      BY <2>2 DEF Post
    <3> QED
      BY <1>5, <3>1 DEF ServiceInv, ServiceTypeOK, CallRow, At
  <2> QED
    BY <1>5, <2>1, <2>2 DEF ServiceInv, PostsFit, At
<1>6. CASE call' = [c \in Callers |-> Idle]
  BY <1>6 DEF PostsFit, At, Idle
<1> QED
  BY <1>3, <1>4, <1>5, <1>6, StepMovesOne

LEMMA StepTypes == DigestsCovered /\ ServiceInv /\ [Next]_vars => ServiceTypeOK'
<1> SUFFICES ASSUME DigestsCovered, ServiceInv, [Next]_vars
             PROVE  ServiceTypeOK'
  OBVIOUS
<1>1. StoreTypeOK' /\ call' \in [Callers -> CallRow]
  BY StepStore, StepCalls
<1>2. /\ chats \in [Chats -> Docs \cup {None}] /\ wire \subseteq Requests
      /\ landed \subseteq Operations /\ sent \in [Operations -> Nat]
  BY DEF ServiceInv, ServiceTypeOK
<1>3. CASE wire' \subseteq wire /\ UNCHANGED <<chats, landed, sent>>
  BY <1>1, <1>2, <1>3 DEF ServiceTypeOK
<1>4. UNCHANGED owuVars => wire' \subseteq wire /\ UNCHANGED <<chats, landed, sent>>
  BY DEF owuVars
<1>5. ASSUME NEW c \in Callers, Await(c)
      PROVE  wire' \subseteq wire /\ UNCHANGED <<chats, landed, sent>>
  BY <1>5 DEF Await
<1>6. ASSUME NEW c \in Callers, Post(c)
      PROVE  ServiceTypeOK'
  <2>1. wire' = wire \cup {Write(c)} /\ Write(c) \in Requests
    BY <1>6, PostWrites
  <2>2. sent' = [sent EXCEPT ![call[c].op] = sent[call[c].op] + 1] /\ UNCHANGED <<chats, landed>>
    BY <1>6 DEF Post
  <2>3. sent' \in [Operations -> Nat]
    BY <1>2, <1>6, <2>2, PostWrites
  <2> QED
    BY <1>1, <1>2, <2>1, <2>2, <2>3 DEF ServiceTypeOK
<1>7. CASE Outside
  <2>1. chats' \in [Chats -> Docs \cup {None}]
    BY <1>7, OutsideSplits
  <2>2. wire' \subseteq wire /\ landed' \subseteq Operations /\ sent' = sent
    BY <1>2, <1>7, OutsideSplits DEF WriteLands, UserEdits, Requests
  <2> QED
    BY <1>1, <1>2, <2>1, <2>2 DEF ServiceTypeOK
<1> QED
  BY <1>3, <1>4, <1>5, <1>6, <1>7, OwuStep DEF vars

-------------------------------------------------------------------------------
(* The theorems, for any number of calls at once *)

LEMMA InitInv == Init => ServiceInv
<1> SUFFICES ASSUME Init
             PROVE  ServiceInv
  OBVIOUS
<1>1. StoreTypeOK
  BY InitTypeCorrect DEF Init
<1>2. ServiceTypeOK
  BY <1>1 DEF Init, ServiceTypeOK, Idle, CallRow, Steps
<1>3. /\ \A p \in Plans : plans[p] = None
      /\ \A o \in Operations : ops[o].status = "absent" /\ ops[o].attempts = 0
      /\ \A o \in Operations : intents[o] = None
      /\ \A b \in Bindings : bindings[b].version = 0
      /\ \A o \in Operations : baselines[o].version = 0 /\ baselines[o].binding = None
      /\ \A t \in Chats : allow[t] = None
      /\ \A c \in Callers : call[c].at = "idle"
      /\ \A t \in Chats : chats[t] = None
      /\ wire = {} /\ landed = {} /\ \A o \in Operations : sent[o] = 0
  BY DEF Init, StoreInit, NoOperation, NoBinding, NoBaseline, Idle
<1>4. StoreInv
  <2>1. EvidenceKept /\ AllowlistIsBacked /\ ShareClaimedOnce
    BY <1>3 DEF EvidenceKept, AllowlistIsBacked, ShareClaimedOnce, Bound
  <2>2. BaselineHistory
    <3>1. \A b \in Bindings : 1 .. bindings[b].version = {}
      BY <1>3
    <3>2. \A b \in Bindings, o \in Operations : baselines[o].binding # b
      BY <1>3, NoneAssumption
    <3> QED
      BY <3>1, <3>2 DEF BaselineHistory
  <2> QED
    BY <2>1, <2>2 DEF StoreInv
<1>5. PlansFit /\ OpsFit /\ BindingsFit /\ BaselinesFit
  BY <1>3 DEF PlansFit, OpsFit, OpStands, Present, BindingsFit, Bound, BaselinesFit
<1>6. WritesFit /\ ChatsFit
  BY <1>3 DEF WritesFit, ChatsFit
<1>7. CallsFit
  BY <1>3, IdleFits DEF CallsFit
<1>8. PostsFit
  BY <1>3 DEF PostsFit, At
<1> QED
  BY <1>2, <1>4, <1>5, <1>6, <1>7, <1>8 DEF ServiceInv

LEMMA StepInv == DigestsCovered /\ ServiceInv /\ [Next]_vars => ServiceInv'
BY StepTypes, StepStore, StepPlans, StepOps, StepWrites, StepChats, StepBindings,
   StepBaselines, StepCalls, StepPosts DEF ServiceInv

\* The engine never leaves the states of the inductive invariant.
THEOREM ServiceInvariant == DigestsCovered => (Spec => []ServiceInv)
<1> SUFFICES ASSUME DigestsCovered
             PROVE  Spec => []ServiceInv
  OBVIOUS
<1>1. ServiceInv /\ [Next]_vars => ServiceInv'
  BY StepInv
<1> QED
  BY <1>1, InitInv, PTL DEF Spec

\* Every call, every request and every chat has its own shape.
THEOREM ServiceTypeCorrect == DigestsCovered => (Spec => []ServiceTypeOK)
<1>1. ServiceInv => ServiceTypeOK
  BY DEF ServiceInv
<1> QED
  BY <1>1, ServiceInvariant, PTL

\* "Recover never retries an uncertain write": whatever calls race, crash and
\* recover, an operation is sent at most once and only after its attempt was made
\* durable.
THEOREM NothingIsSentTwice == DigestsCovered => (Spec => []SentOnceAfterRecorded)
<1> SUFFICES ASSUME DigestsCovered
             PROVE  Spec => []SentOnceAfterRecorded
  OBVIOUS
<1>1. ServiceInv => SentOnceAfterRecorded
  <2> SUFFICES ASSUME ServiceInv, NEW o \in Operations
               PROVE  /\ sent[o] <= 1
                      /\ sent[o] = 1 => /\ ops[o].attempts = 1
                                        /\ ops[o].status \notin {"absent", "prepared"}
    BY DEF SentOnceAfterRecorded
  <2>1. sent[o] \in Nat /\ ops[o].attempts \in Nat /\ sent[o] <= ops[o].attempts
    BY DEF ServiceInv, ServiceTypeOK, StoreTypeOK, OpRow, WritesFit
  <2>2. ops[o].status = "absent" => ops[o].attempts = 0
    BY DEF ServiceInv, OpsFit, OpStands, Present
  <2>3. ops[o].status # "absent" =>
          ops[o].attempts <= 1 /\ (ops[o].status = "prepared" => ops[o].attempts = 0)
    BY DEF ServiceInv, OpsFit, OpStands, Present, OpFits
  <2> QED
    BY <2>1, <2>2, <2>3
<1>2. Spec => []ServiceInv
  BY ServiceInvariant
<1> QED
  BY <1>1, <1>2, PTL

\* However often a share is previewed, applied and recovered, one chat comes of it.
THEOREM SharesMakeOneChat == DigestsCovered => (Spec => []OneChatPerShare)
<1> SUFFICES ASSUME DigestsCovered
             PROVE  Spec => []OneChatPerShare
  OBVIOUS
<1>1. ServiceInv => OneChatPerShare
  <2> SUFFICES ASSUME ServiceInv, NEW t1 \in Chats, NEW t2 \in Chats, t1 # t2,
                      chats[t1] # None, chats[t2] # None
               PROVE  intents[chats[t1].by].share # intents[chats[t2].by].share
    BY DEF OneChatPerShare
  <2>1. \A t \in {t1, t2} : chats[t].by \in Operations /\ intents[chats[t].by] # None
    BY DEF ServiceInv, ServiceTypeOK, ChatsFit
  <2>2. chats[t1].by # chats[t2].by
    BY DEF ServiceInv, ChatsFit
  <2> QED
    BY <2>1, <2>2 DEF ServiceInv, StoreInv, ShareClaimedOnce
<1>2. Spec => []ServiceInv
  BY ServiceInvariant
<1> QED
  BY <1>1, <1>2, PTL

\* The gate never adopts a chat: a binding names one its own create made, and no
\* other binding names it.
THEOREM ChatsAreNeverAdopted == DigestsCovered => (Spec => []BindingsOwnTheirChat)
<1> SUFFICES ASSUME DigestsCovered
             PROVE  Spec => []BindingsOwnTheirChat
  OBVIOUS
<1>1. ServiceInv => BindingsOwnTheirChat
  <2> SUFFICES ASSUME ServiceInv, NEW b \in Bindings, Bound(b)
               PROVE  /\ chats[bindings[b].target].by = bindings[b].creator
                      /\ \A other \in Bindings :
                           Bound(other) /\ bindings[other].target = bindings[b].target
                             => other = b
    BY DEF BindingsOwnTheirChat
  <2>1. chats[bindings[b].target].by = bindings[b].creator
    BY DEF ServiceInv, BindingsFit, Made
  <2>2. ASSUME NEW other \in Bindings, Bound(other)
        PROVE  allow[bindings[other].target].binding = other
    <3>1. Allowed(other)
      BY <2>2 DEF ServiceInv, StoreInv, EvidenceKept
    <3> QED
      BY <3>1 DEF Allowed
  <2> QED
    BY <2>1, <2>2
<1>2. Spec => []ServiceInv
  BY ServiceInvariant
<1> QED
  BY <1>1, <1>2, PTL

\* What the next preview is compared with is a document the gate wrote itself and no
\* human touched, with the content of the source recorded beside it.
THEOREM BaselinesAreOwnWrites == DigestsCovered => (Spec => []BaselineIsOwnWrite)
<1> SUFFICES ASSUME DigestsCovered
             PROVE  Spec => []BaselineIsOwnWrite
  OBVIOUS
<1>1. ServiceInv => BaselineIsOwnWrite
  BY DEF ServiceInv, BaselinesFit, BaselineIsOwnWrite
<1>2. Spec => []ServiceInv
  BY ServiceInvariant
<1> QED
  BY <1>1, <1>2, PTL

\* An operation reported as succeeded landed and became a version, or sent nothing.
THEOREM SuccessIsVerified == DigestsCovered => (Spec => []SucceededIsVerified)
<1> SUFFICES ASSUME DigestsCovered
             PROVE  Spec => []SucceededIsVerified
  OBVIOUS
<1>1. ServiceInv => SucceededIsVerified
  <2> SUFFICES ASSUME ServiceInv, NEW o \in Operations, ops[o].status = "succeeded"
               PROVE  /\ ops[o].verified
                      /\ IF plans[ops[o].plan].status = "no_change"
                           THEN sent[o] = 0 /\ baselines[o].version = 0
                           ELSE /\ o \in landed
                                /\ baselines[o].version = plans[ops[o].plan].version + 1
    BY DEF SucceededIsVerified
  <2>1. OpFits(o)
    BY DEF ServiceInv, OpsFit, OpStands, Present
  <2>2. sent[o] \in Nat /\ sent[o] <= ops[o].attempts
    BY DEF ServiceInv, ServiceTypeOK, WritesFit
  <2> QED
    BY <2>1, <2>2 DEF OpFits
<1>2. Spec => []ServiceInv
  BY ServiceInvariant
<1> QED
  BY <1>1, <1>2, PTL

-------------------------------------------------------------------------------
(* The engine is a client of the store *)

\* Two operations that may still write never hold the same lock, whatever calls
\* prepare, send and recover at once.
THEOREM EngineLocksExclude == DigestsCovered => (Spec => []OneUnresolvedPerLock)
<1> SUFFICES ASSUME DigestsCovered
             PROVE  Spec => []OneUnresolvedPerLock
  OBVIOUS
<1>1. Init => OneUnresolvedPerLock
  BY DEF Init, StoreInit, OneUnresolvedPerLock, IsUnresolved, NoOperation, Unresolved
<1>2. ServiceInv /\ OneUnresolvedPerLock /\ [Next]_vars => OneUnresolvedPerLock'
  BY StepIsCall, StepOneUnresolved DEF ServiceInv, ServiceTypeOK
<1>3. Spec => []ServiceInv
  BY ServiceInvariant
<1> QED
  BY <1>1, <1>2, <1>3, PTL DEF Spec

\* No recovery, no late answer and no racing call ever reopens what is resolved.
THEOREM EngineNeverReopens == DigestsCovered => (Spec => TerminalIsFinal)
<1> SUFFICES ASSUME DigestsCovered
             PROVE  Spec => TerminalIsFinal
  OBVIOUS
<1>1. ServiceInv /\ [Next]_vars =>
        [\A o \in Operations : ops[o].status \in Terminal => ops'[o] = ops[o]]_storeVars
  <2> SUFFICES ASSUME ServiceInv, [Next]_vars, storeVars' # storeVars,
                      NEW o \in Operations, ops[o].status \in Terminal
               PROVE  ops'[o] = ops[o]
    OBVIOUS
  <2>1. AnyCall /\ StoreTypeOK
    BY StepIsCall DEF ServiceInv, ServiceTypeOK
  <2>2. Present(o)
    BY DEF Present, Terminal
  <2> QED
    BY <2>1, <2>2, OperationSteps DEF Continues
<1>2. Spec => []ServiceInv
  BY ServiceInvariant
<1> QED
  BY <1>1, <1>2, PTL DEF Spec, TerminalIsFinal

\* A binding the engine made keeps its chat, and moves one verified version at a
\* time.
THEOREM EngineVersionsStep == DigestsCovered => (Spec => VersionStep)
<1> SUFFICES ASSUME DigestsCovered
             PROVE  Spec => VersionStep
  OBVIOUS
<1>1. ServiceInv /\ [Next]_vars =>
        [\A b \in Bindings : Bound(b) /\ bindings'[b] # bindings[b] =>
           /\ bindings'[b].version = bindings[b].version + 1
           /\ bindings'[b].target = bindings[b].target
           /\ bindings'[b].creator = bindings[b].creator
           /\ \E o \in Operations :
                /\ ops[o].binding = b /\ ops[o].status = "verifying"
                /\ ops'[o].status = "succeeded"
                /\ plans[ops[o].plan].version = bindings[b].version]_storeVars
  BY StepIsCall, BindingStep DEF ServiceInv, ServiceTypeOK
<1>2. Spec => []ServiceInv
  BY ServiceInvariant
<1> QED
  BY <1>1, <1>2, PTL DEF Spec, VersionStep

-------------------------------------------------------------------------------
(* One call at a time *)

\* One call at a time (connector.go:71, store.go:180).
OneCaller == \A c, d \in Callers : c = d

-------------------------------------------------------------------------------
(* The inductive invariant *)

\* Nothing of operation o is in Open WebUI or on its way there.
Traceless(o) == o \notin landed /\ \A r \in wire : r.op # o

\* Where a call stands tells how far its operation is: nobody else moves it.
Waiting == {"load", "reread", "no_change", "begin"}

CallInStep(c) ==
  /\ call[c].at \in Waiting => ops[call[c].op].status = "prepared"
  /\ call[c].at \in {"post", "await"} => ops[call[c].op].status = "applying"
  /\ call[c].at = "fail" => Traceless(call[c].op)

CallsInStep == \A c \in Callers : CallInStep(c)

\* An operation holds the lock of its plan: its share, or its binding.
LocksFit ==
  \A o \in Operations : Present(o) =>
    ops[o].lock = LockOf(plans[ops[o].plan], ops[o].kind)

SerialInv ==
  /\ OneUnresolvedPerLock
  /\ LocksFit
  /\ CallsInStep
  /\ OutstandingHoldsLock
  /\ FailedLeftNoTrace

-------------------------------------------------------------------------------
(* What a step does to the life of an operation *)

\* Every operation stays where it was: absent, unresolved, or resolved.
Steady ==
  \A o \in Operations :
    /\ ops'[o].lock = ops[o].lock
    /\ \/ ops'[o].status = ops[o].status
       \/ ops[o].status \in Unresolved /\ ops'[o].status \in Unresolved

\* Operation q is opened under the lock of its plan, which nobody holds.
Opening(q) ==
  /\ ~Present(q)
  /\ ops'[q].status = "prepared"
  /\ ops'[q].plan \in Plans
  /\ ops'[q].lock = LockOf(plans'[ops'[q].plan], ops'[q].kind)
  /\ ops'[q].lock \in Locks
  /\ LockFree(ops'[q].lock)
  /\ \A o \in Operations : o # q => ops'[o] = ops[o]
  /\ UNCHANGED owuVars

\* Operation q is resolved: a failed one left no trace, one that succeeded has
\* landed, or was never sent.
Ending(q) ==
  /\ IsUnresolved(q)
  /\ ops'[q].lock = ops[q].lock
  /\ \/ ops'[q].status = "failed" /\ Traceless(q)
     \/ ops'[q].status = "succeeded" /\ (q \in landed \/ (Traceless(q) /\ sent[q] = 0))
  /\ \A o \in Operations : o # q => ops'[o] = ops[o]
  /\ UNCHANGED owuVars

\* What was never sent has left no trace.
LEMMA UnsentIsTraceless ==
  ASSUME ServiceInv, NEW o \in Operations, sent[o] = 0
  PROVE  Traceless(o)
BY DEF ServiceInv, WritesFit, WireFits, Traceless

\* What was never attempted was never sent.
LEMMA PreparedIsUnsent ==
  ASSUME ServiceInv, NEW o \in Operations, ops[o].status \in {"absent", "prepared"}
  PROVE  sent[o] = 0
<1>1. ops[o].attempts = 0
  BY DEF ServiceInv, OpsFit, OpStands, OpFits, Present
<1>2. sent[o] <= ops[o].attempts /\ sent[o] \in Nat
  BY DEF ServiceInv, ServiceTypeOK, WritesFit
<1> QED
  BY <1>1, <1>2

LEMMA PreparingOpens ==
  ASSUME ServiceInv, NEW c \in Callers, Preparing(c)
  PROVE  \E q \in Operations : Opening(q)
<1>1. PICK q \in Operations, kind \in {"create", "update"} : Readies(c, q, kind)
  BY PreparingReadies
<1>2. /\ call[c].plan \in Plans /\ PlanOf(c) \in PlanRow /\ PlanOf(c) = plans[call[c].plan]
  BY PreparingReadies, PlannedPlan DEF At, Planned, PlanOf
<1> DEFINE plan == PlanOf(c)
           lock == LockOf(plan, kind)
<1>3. lock \in Locks
  <2>1. plan.src.share \in Shares
    BY <1>2, SourcesAssumption DEF PlanRow, SourceRow
  <2>2. CASE kind = "create"
    BY <2>1, <2>2 DEF LockOf, CreateLock, Locks
  <2>3. CASE kind # "create"
    BY <1>1, <1>2, <2>3 DEF Readies, LockOf, BindingLock, Locks, PlanRow
  <2> QED
    BY <2>2, <2>3
<1>4. /\ ~Present(q) /\ ops'[q].status = "prepared" /\ ops'[q].lock = lock
      /\ \A o \in Operations : o # q => ops'[o] = ops[o]
      /\ LockFree(lock)
      /\ ops'[q].plan \in Plans /\ lock = LockOf(plans'[ops'[q].plan], ops'[q].kind)
  BY <1>1, <1>2 DEF Readies, Prepares, planVars
<1>5. UNCHANGED owuVars
  BY DEF Preparing, ApplyCreate, ApplyUpdate
<1> QED
  BY <1>3, <1>4, <1>5 DEF Opening

LEMMA MovingSettles ==
  ASSUME ServiceInv, CallsInStep, NEW c \in Callers, Moving(c)
  PROVE  Steady \/ \E q \in Operations : Ending(q)
<1> DEFINE q == call[c].op
<1>1. PICK next \in Statuses, patch \in Patch : Moves(q, next, patch) /\ Advance(c, next, patch)
  BY MovingMoves
<1>2. q \in Operations
  BY MovingMoves
<1>3. /\ ops'[q].status = next /\ ops'[q].lock = ops[q].lock
      /\ \A o \in Operations : o # q => ops'[o] = ops[o]
  BY <1>1 DEF Moves
<1>4. ops[q].status \in Unresolved
  BY <1>1 DEF Advance, Unresolved, Uncertain
<1>5. UNCHANGED owuVars
  BY DEF Moving, FinishNoChange, Begin, RecordReceipt, MarkUnknown, MarkFailed, Interrupt, Resume
<1>6. CASE next \in Unresolved
  BY <1>3, <1>4, <1>6 DEF Steady
<1>7. CASE FinishNoChange(c) /\ ops[q].status = "prepared" /\ next = "succeeded"
  <2>1. Traceless(q) /\ sent[q] = 0
    BY <1>2, <1>7, PreparedIsUnsent, UnsentIsTraceless
  <2> QED
    BY <1>2, <1>3, <1>4, <1>5, <1>7, <2>1 DEF Ending, IsUnresolved
<1>8. CASE MarkFailed(c) /\ next = "failed"
  <2>1. Traceless(q)
    BY <1>8 DEF MarkFailed, At, CallsInStep, CallInStep
  <2> QED
    BY <1>2, <1>3, <1>4, <1>5, <1>8, <2>1 DEF Ending, IsUnresolved
<1>9. \/ next \in Unresolved
      \/ FinishNoChange(c) /\ ops[q].status = "prepared" /\ next = "succeeded"
      \/ MarkFailed(c) /\ next = "failed"
  BY <1>1 DEF Advance, Unresolved
<1> QED
  BY <1>6, <1>7, <1>8, <1>9

LEMMA FinishingEnds ==
  ASSUME ServiceInv, NEW c \in Callers, Finishing(c)
  PROVE  \E q \in Operations : Ending(q)
<1> DEFINE q == call[c].op
<1>1. PICK b \in Bindings : Finishes(q, b, call[c].doc)
  BY FinishingFinishes
<1>2. At(c, "finish")
  BY FinishingIsCall
<1>3. q \in Operations /\ q \in landed
  BY <1>2, FinishHolds
<1>4. /\ ops[q].status = "verifying" /\ ops'[q].status = "succeeded"
      /\ ops'[q].lock = ops[q].lock
      /\ \A o \in Operations : o # q => ops'[o] = ops[o]
  BY <1>1 DEF Finishes, Succeeds
<1>5. UNCHANGED owuVars
  BY DEF Finishing, FinishCreate, FinishUpdate
<1> QED
  BY <1>3, <1>4, <1>5 DEF Ending, IsUnresolved, Unresolved

\* Every step leaves every operation where it was, opens one or ends one.
LEMMA StepSettles ==
  ASSUME DigestsCovered, ServiceInv, CallsInStep, [Next]_vars
  PROVE  \/ Steady
         \/ \E q \in Operations : Opening(q) \/ Ending(q)
<1>1. ops' = ops => Steady
  BY DEF Steady
<1>2. ASSUME NEW c \in Callers, Quiet(c) PROVE ops' = ops
  BY <1>2, QuietStore DEF storeVars
<1>3. ASSUME NEW c \in Callers, Planning(c) PROVE ops' = ops
  BY <1>3 DEF Planning, PersistSource, PersistPlan, Confirm, PutSourceSnapshot, SavePlan,
              ConfirmPlan
<1>4. ASSUME NEW p \in Plans, PlanExpires(p) PROVE ops' = ops
  BY <1>4 DEF PlanExpires, Expire
<1>5. Outside => ops' = ops
  BY OutsideStore DEF storeVars
<1>6. CASE Restart
  <2>1. Sweeps
    BY <1>6, RecoverSweeps DEF Restart, ServiceInv, ServiceTypeOK
  <2> QED
    BY <2>1 DEF Sweeps, WasWriting, Steady, Unresolved
<1>7. UNCHANGED vars => ops' = ops
  BY DEF vars, storeVars
<1> QED
  BY <1>1, <1>2, <1>3, <1>4, <1>5, <1>6, <1>7, PreparingOpens, MovingSettles, FinishingEnds,
     NextSplits

-------------------------------------------------------------------------------
(* Where the one call goes *)

Watched == Waiting \cup {"post", "await", "fail"}

\* A call that leaves the store alone gets to a watched place only like this.
QuietSteps(c) ==
  \/ call'[c].at \notin Watched
  \/ /\ call'[c].op = call[c].op
     /\ \/ /\ call[c].at \in {"load", "reread"}
           /\ call'[c].at \in {"reread", "no_change", "begin", "fail"}
           /\ UNCHANGED owuVars
        \/ call[c].at = "post" /\ call'[c].at = "await"
        \/ call[c].at = "await" /\ call'[c].at = "fail" /\ Traceless(call[c].op)'
  \/ /\ call'[c].at \in {"load", "begin", "fail"}
     /\ call'[c].op \in Operations
     /\ ops[call'[c].op].status = "prepared"
     /\ UNCHANGED owuVars

LEMMA GotoSteps ==
  ASSUME ServiceInv, NEW c \in Callers, NEW step \in Steps, Goto(c, step)
  PROVE  call'[c].at = step /\ call'[c].op = call[c].op
BY GotoMoves DEF ServiceInv, ServiceTypeOK

LEMMA ReturnSteps ==
  ASSUME ServiceInv, NEW c \in Callers, Return(c)
  PROVE  call'[c].at = "idle"
BY ReturnLands DEF ServiceInv, ServiceTypeOK

LEMMA QuietGoes ==
  ASSUME ServiceInv, NEW c \in Callers, Quiet(c)
  PROVE  QuietSteps(c)
<1> USE DEF At
<1>1. call \in [Callers -> CallRow] /\ landed \subseteq Operations
  BY DEF ServiceInv, ServiceTypeOK
<1>2. ASSUME \E s \in Sources : PreviewCreate(c, s) \/ \E b \in Bindings : PreviewUpdate(c, s, b)
      PROVE  call'[c].at \notin Watched
  <2>1. call'[c].at \in {"put", "read_target"}
    BY <1>1, <1>2 DEF PreviewCreate, PreviewUpdate, CallRow
  <2> QED
    BY <2>1 DEF Watched, Waiting
<1>3. ASSUME PreviewRead(c) PROVE call'[c].at \notin Watched
  <2>1. call'[c].at = "put"
    BY <1>1, <1>3 DEF PreviewRead, CallRow
  <2> QED
    BY <2>1 DEF Watched, Waiting
<1>4. ASSUME NEW p \in Plans, ApplyStart(c, p) PROVE call'[c].at \notin Watched
  <2>1. call'[c].at \in {"prepare", "confirm"}
    BY <1>1, <1>4 DEF ApplyStart, CallRow
  <2> QED
    BY <2>1 DEF Watched, Waiting
<1>5. ASSUME LoadBinding(c)
      PROVE  /\ call[c].at = "load" /\ call'[c].at \in {"reread", "fail"} /\ call'[c].op = call[c].op
             /\ UNCHANGED owuVars
  <2>1. Goto(c, "fail") => call'[c].at = "fail" /\ call'[c].op = call[c].op
    BY GotoSteps DEF Steps
  <2> QED
    BY <1>1, <1>5, <2>1 DEF LoadBinding, CallRow
<1>6. ASSUME Reread(c)
      PROVE  /\ call[c].at = "reread" /\ call'[c].at \in {"no_change", "begin", "fail"}
             /\ call'[c].op = call[c].op /\ UNCHANGED owuVars
  <2>1. \A step \in {"no_change", "begin", "fail"} :
          Goto(c, step) => call'[c].at = step /\ call'[c].op = call[c].op
    BY GotoSteps DEF Steps
  <2> QED
    BY <1>6, <2>1 DEF Reread
<1>7. ASSUME Post(c)
      PROVE  call[c].at = "post" /\ call'[c].at = "await" /\ call'[c].op = call[c].op
  BY <1>1, <1>7 DEF Post, CallRow
<1>8. ASSUME Await(c)
      PROVE  \/ call'[c].at \in {"receipt", "unknown"}
             \/ /\ call[c].at = "await" /\ call'[c].at = "fail" /\ call'[c].op = call[c].op
                /\ Traceless(call[c].op)'
  <2>1. \A step \in {"receipt", "fail", "unknown"} :
          Goto(c, step) => call'[c].at = step /\ call'[c].op = call[c].op
    BY GotoSteps DEF Steps
  <2>2. call[c].at = "await" /\ landed' = landed
    BY <1>8 DEF Await
  <2>3. CASE Goto(c, "fail") /\ call[c].op \notin landed
               /\ wire' = wire \ {r \in wire : r.op = call[c].op}
    <3>1. Traceless(call[c].op)'
      BY <2>1, <2>2, <2>3 DEF Traceless
    <3> QED
      BY <2>1, <2>2, <2>3, <3>1
  <2> QED
    BY <1>8, <2>1, <2>3 DEF Await
<1>9. ASSUME Readback(c) \/ ReconcileCreate(c) \/ ReconcileUpdate(c) \/ GiveUp(c)
      PROVE  call'[c].at \notin Watched
  <2>1. \A step \in {"unknown"} : Goto(c, step) => call'[c].at = step
    BY GotoSteps DEF Steps
  <2>2. ASSUME NEW doc, NEW step, Verified(c, doc, step) PROVE call'[c].at = step
    BY <1>1, <2>2 DEF Verified, CallRow
  <2>3. Return(c) => call'[c].at = "idle"
    BY ReturnSteps
  <2>4. ReconcileUpdate(c) => call'[c].at = "resume"
    BY <1>1 DEF ReconcileUpdate, CallRow
  <2>5. call'[c].at \in {"unknown", "finish", "resume", "idle"}
    BY <1>9, <2>1, <2>2, <2>3, <2>4 DEF Readback, ReconcileCreate, GiveUp
  <2> QED
    BY <2>5 DEF Watched, Waiting
<1>10. ASSUME NEW o \in Operations, RecoverStart(c, o)
       PROVE  QuietSteps(c)
  <2>1. /\ call'[c].at \in {RecoveryStep(o)} \cup UnreadBinding(o)
        /\ call'[c].op = o /\ UNCHANGED owuVars
    BY <1>1, <1>10 DEF RecoverStart, CallRow
  <2>2. CASE ops[o].status = "prepared"
    <3>1. RecoveryStep(o) \in {"load", "begin", "fail"}
      BY <2>2 DEF RecoveryStep, ResumeStep
    <3> QED
      BY <2>1, <2>2, <3>1, RecoveryGoes DEF QuietSteps
  <2>3. CASE ops[o].status # "prepared"
    <3>1. RecoveryStep(o) \in {"interrupt", "reconcile"}
      BY <2>3 DEF RecoveryStep
    <3> QED
      BY <2>1, <2>3, <3>1, RecoveryGoes DEF QuietSteps, Watched, Waiting
  <2> QED
    BY <2>2, <2>3
<1>11. {"receipt", "unknown"} \cap Watched = {}
  BY DEF Watched, Waiting
<1> QED
  BY <1>2, <1>3, <1>4, <1>5, <1>6, <1>7, <1>8, <1>9, <1>10, <1>11 DEF Quiet, QuietSteps

\* The call that prepares, moves or finishes an operation.
LEMMA PreparingGoes ==
  ASSUME ServiceInv, NEW c \in Callers, Preparing(c)
  PROVE  /\ call'[c].at \in {"begin", "load"}
         /\ ops'[call'[c].op].status = "prepared"
<1>1. PICK q \in Operations, kind \in {"create", "update"} : Readies(c, q, kind)
  BY PreparingReadies
<1>2. call'[c].at \in {"begin", "load"} /\ call'[c].op = q
  BY <1>1 DEF Readies, ServiceInv, ServiceTypeOK, CallRow
<1> QED
  BY <1>1, <1>2 DEF Readies, Prepares

LEMMA MovingGoes ==
  ASSUME ServiceInv, NEW c \in Callers, Moving(c)
  PROVE  \/ call'[c].at \notin Watched
         \/ call'[c].at = "post" /\ ops'[call'[c].op].status = "applying"
<1>1. PICK next \in Statuses, patch \in Patch :
        Moves(call[c].op, next, patch) /\ Advance(c, next, patch)
  BY MovingMoves
<1>2. CASE Begin(c)
  <2>1. call'[c].at = "post" /\ call'[c].op = call[c].op /\ At(c, "begin")
    BY <1>2, GotoSteps DEF Begin, Steps
  <2>2. next = "applying"
    BY <1>1, <2>1 DEF Advance, FinishNoChange, RecordReceipt, MarkUnknown, Interrupt,
                      MarkFailed, Resume, At
  <2> QED
    BY <1>1, <2>1, <2>2 DEF Moves
<1>3. CASE RecordReceipt(c) \/ Interrupt(c) \/ Resume(c)
  <2>1. call'[c].at \in {"readback", "reconcile", "finish"}
    BY <1>3, GotoSteps DEF RecordReceipt, Interrupt, Resume, Steps
  <2> QED
    BY <2>1 DEF Watched, Waiting
<1>4. CASE FinishNoChange(c) \/ MarkUnknown(c) \/ MarkFailed(c)
  <2>1. call'[c].at = "idle"
    BY <1>4, ReturnSteps DEF FinishNoChange, MarkUnknown, MarkFailed
  <2> QED
    BY <2>1 DEF Watched, Waiting
<1> QED
  BY <1>2, <1>3, <1>4 DEF Moving

LEMMA PlanningGoes ==
  ASSUME ServiceInv, NEW c \in Callers, Planning(c) \/ Finishing(c)
  PROVE  call'[c].at \notin Watched
<1>1. call'[c].at \in {"save", "prepare", "idle"}
  BY GotoSteps, ReturnSteps
     DEF Planning, Finishing, PersistSource, PersistPlan, Confirm, FinishCreate, FinishUpdate,
         Steps
<1> QED
  BY <1>1 DEF Watched, Waiting

LEMMA StepCallsInStep ==
  ASSUME DigestsCovered, ServiceInv, CallsInStep, OneCaller, [Next]_vars
  PROVE  CallsInStep'
<1> SUFFICES ASSUME NEW d \in Callers, call'[d].at \in Watched
             PROVE  CallInStep(d)'
  BY DEF CallsInStep, CallInStep, Watched
<1>1. CallInStep(d)
  BY DEF CallsInStep
<1>2. CASE Quiet(d)
  <2>1. ops' = ops /\ QuietSteps(d)
    BY <1>2, QuietStore, QuietGoes DEF storeVars
  <2>2. UNCHANGED owuVars => \A o : Traceless(o) => Traceless(o)'
    BY DEF owuVars, Traceless
  <2>3. CASE /\ call'[d].op = call[d].op
             /\ call[d].at \in {"load", "reread"}
             /\ call'[d].at \in {"reread", "no_change", "begin", "fail"}
             /\ UNCHANGED owuVars
    <3>1. ops[call[d].op].status = "prepared"
      BY <1>1, <2>3 DEF CallInStep, Waiting
    <3>2. call[d].op \in Operations
      BY <2>3, HeldOperation DEF Operating, Updating
    <3>3. Traceless(call[d].op)'
      BY <2>2, <2>3, <3>1, <3>2, PreparedIsUnsent, UnsentIsTraceless
    <3> QED
      BY <2>1, <2>3, <3>1, <3>3 DEF CallInStep, Traceless
  <2>4. CASE call'[d].op = call[d].op /\ call[d].at = "post" /\ call'[d].at = "await"
    BY <1>1, <2>1, <2>4 DEF CallInStep, Waiting
  <2>5. CASE /\ call'[d].op = call[d].op /\ call[d].at = "await" /\ call'[d].at = "fail"
             /\ Traceless(call[d].op)'
    BY <2>5 DEF CallInStep, Waiting, Traceless
  <2>6. CASE /\ call'[d].at \in {"load", "begin", "fail"}
             /\ call'[d].op \in Operations
             /\ ops[call'[d].op].status = "prepared"
             /\ UNCHANGED owuVars
    <3>1. PICK o \in Operations : o = call'[d].op
      BY <2>6
    <3>2. ops[o].status = "prepared" /\ Traceless(o)'
      BY <2>2, <2>6, <3>1, PreparedIsUnsent, UnsentIsTraceless
    <3> QED
      BY <2>1, <2>6, <3>1, <3>2 DEF CallInStep, Traceless
  <2> QED
    BY <2>1, <2>3, <2>4, <2>5, <2>6 DEF QuietSteps
<1>3. CASE Preparing(d)
  BY <1>3, PreparingGoes DEF CallInStep, Waiting
<1>4. CASE Moving(d)
  BY <1>4, MovingGoes DEF CallInStep, Waiting
<1>5. ~(Planning(d) \/ Finishing(d))
  BY PlanningGoes
<1>6. CASE Outside
  <2>1. call' = call /\ ops' = ops
    BY <1>6, OutsideStore DEF storeVars
  <2>2. \A o : Traceless(o) => Traceless(o)'
    BY <1>6, OutsideSplits DEF WriteLands, UserEdits, Traceless
  <2> QED
    BY <1>1, <2>1, <2>2 DEF CallInStep, Traceless
<1>7. CASE (\E p \in Plans : PlanExpires(p)) \/ UNCHANGED vars
  <2>1. call' = call /\ ops' = ops /\ UNCHANGED owuVars
    BY <1>7 DEF PlanExpires, Expire, vars, storeVars
  <2> QED
    BY <1>1, <2>1 DEF CallInStep, Traceless, owuVars
<1>8. ~Restart
  <2>1. Restart => call'[d].at = "idle"
    BY DEF Restart, Idle
  <2> QED
    BY <2>1 DEF Watched, Waiting
<1> QED
  BY <1>2, <1>3, <1>4, <1>5, <1>6, <1>7, <1>8, NextSplits DEF OneCaller

-------------------------------------------------------------------------------
(* The invariant is inductive *)

LEMMA StepLocksFit ==
  ASSUME DigestsCovered, ServiceInv, SerialInv, [Next]_vars
  PROVE  LocksFit'
<1> SUFFICES ASSUME NEW o \in Operations, Present(o)'
             PROVE  ops'[o].lock = LockOf(plans'[ops'[o].plan], ops'[o].kind)
  BY DEF LocksFit
<1>1. StorePersists
  BY StepStore
<1>2. CASE Present(o)
  <2>0. PICK p : p = ops[o].plan
    OBVIOUS
  <2>1. /\ p \in Plans /\ plans[p] # None
        /\ ops[o].lock = LockOf(plans[p], ops[o].kind)
    BY <1>2, <2>0 DEF ServiceInv, OpsFit, OpStands, OpFits, SerialInv, LocksFit
  <2>2. ops'[o].plan = p /\ ops'[o].kind = ops[o].kind
    BY <1>1, <1>2, <2>0 DEF StorePersists
  <2>3. plans'[p].src = plans[p].src /\ plans'[p].binding = plans[p].binding
    <3>1. plans[p] \in PlanRow
      BY <2>1 DEF ServiceInv, ServiceTypeOK, StoreTypeOK
    <3> QED
      BY <1>1, <2>1, <3>1 DEF StorePersists, PlanRow
  <2>4. ops'[o].lock = ops[o].lock
    BY <1>2, StepSettles DEF SerialInv, Steady, Opening, Ending
  <2> QED
    BY <2>1, <2>2, <2>3, <2>4 DEF LockOf
<1>3. CASE ~Present(o)
  <2>1. Opening(o)
    <3>1. ~Steady
      BY <1>3 DEF Steady, Present, Unresolved
    <3>2. PICK q \in Operations : Opening(q) \/ Ending(q)
      BY <3>1, StepSettles DEF SerialInv
    <3>3. o = q
      BY <1>3, <3>2 DEF Opening, Ending, Present
    <3>4. ~Ending(o)
      BY <1>3 DEF Ending, IsUnresolved, Present, Unresolved
    <3> QED
      BY <3>2, <3>3, <3>4
  <2> QED
    BY <2>1 DEF Opening
<1> QED
  BY <1>2, <1>3

LEMMA StepOutstanding ==
  ASSUME DigestsCovered, ServiceInv, SerialInv, [Next]_vars
  PROVE  OutstandingHoldsLock' /\ FailedLeftNoTrace'
<1>1. /\ wire \subseteq Requests /\ landed \subseteq Operations
      /\ \A r \in wire : r.op \in Operations /\ IsUnresolved(r.op) /\ r.op \notin landed
  BY DEF ServiceInv, ServiceTypeOK, WritesFit, WireFits, SerialInv, OutstandingHoldsLock, Requests
<1>2. \A o \in Operations : ops[o].status = "failed" => Traceless(o)
  BY DEF SerialInv, FailedLeftNoTrace, Traceless
<1>3. SUFFICES /\ \A r \in wire' : IsUnresolved(r.op)'
               /\ \A o \in Operations : ops'[o].status = "failed" => Traceless(o)'
  BY DEF OutstandingHoldsLock, FailedLeftNoTrace, Traceless
<1>4. CASE \E q \in Operations : Opening(q) \/ Ending(q)
  <2>1. PICK q \in Operations : Opening(q) \/ Ending(q)
    BY <1>4
  <2>2. /\ wire' = wire /\ landed' = landed
        /\ \A o \in Operations : o # q => ops'[o] = ops[o]
    BY <2>1 DEF Opening, Ending, owuVars
  <2>3. \A r \in wire : r.op # q
    <3>1. CASE Opening(q)
      BY <1>1, <3>1 DEF Opening, Present, IsUnresolved, Unresolved
    <3>2. CASE Ending(q)
      BY <1>1, <3>2 DEF Ending, Traceless
    <3> QED
      BY <2>1, <3>1, <3>2
  <2>4. ops'[q].status = "failed" => Traceless(q)
    BY <2>1 DEF Opening, Ending
  <2> QED
    BY <1>1, <1>2, <2>2, <2>3, <2>4 DEF IsUnresolved, Traceless
<1>5. CASE Steady
  <2>1. ASSUME NEW o \in Operations
        PROVE  /\ IsUnresolved(o) => IsUnresolved(o)'
               /\ ops'[o].status = "failed" => ops[o].status = "failed"
    BY <1>5 DEF Steady, IsUnresolved, Unresolved
  <2>2. CASE wire' \subseteq wire /\ landed' = landed
    BY <1>1, <1>2, <2>1, <2>2 DEF Traceless
  <2>3. ASSUME NEW c \in Callers, Post(c)
        PROVE  /\ \A r \in wire' : IsUnresolved(r.op)'
               /\ \A o \in Operations : ops'[o].status = "failed" => Traceless(o)'
    <3>0. PICK q \in Operations, w \in Requests : q = call[c].op /\ w = Write(c)
      BY <2>3, PostWrites
    <3>1. w.op = q /\ wire' = wire \cup {w} /\ landed' = landed /\ ops' = ops
      BY <2>3, <3>0, PostWrites DEF Post, storeVars
    <3>2. ops[q].status = "applying"
      BY <2>3, <3>0 DEF Post, At, SerialInv, CallsInStep, CallInStep
    <3> QED
      BY <1>1, <1>2, <3>1, <3>2 DEF IsUnresolved, Unresolved, Traceless
  <2>4. CASE Outside
    <3>1. \A o : Traceless(o) => Traceless(o)'
      BY <2>4, OutsideSplits DEF WriteLands, UserEdits, Traceless
    <3>2. wire' \subseteq wire
      BY <2>4, OutsideSplits DEF WriteLands, UserEdits
    <3> QED
      BY <1>1, <1>2, <2>1, <3>1, <3>2
  <2>5. UNCHANGED owuVars \/ (\E c \in Callers : Await(c)) => wire' \subseteq wire /\ landed' = landed
    BY DEF owuVars, Await
  <2> QED
    BY <2>2, <2>3, <2>4, <2>5, OwuStep DEF vars
<1> QED
  BY <1>4, <1>5, StepSettles DEF SerialInv

LEMMA StepSerial ==
  DigestsCovered /\ OneCaller /\ ServiceInv /\ SerialInv /\ [Next]_vars => SerialInv'
<1> SUFFICES ASSUME DigestsCovered, OneCaller, ServiceInv, SerialInv, [Next]_vars
             PROVE  SerialInv'
  OBVIOUS
<1>1. OneUnresolvedPerLock'
  BY StepIsCall, StepOneUnresolved DEF ServiceInv, ServiceTypeOK, SerialInv
<1> QED
  BY <1>1, StepLocksFit, StepCallsInStep, StepOutstanding DEF SerialInv

LEMMA InitSerial == Init => SerialInv
<1> SUFFICES ASSUME Init
             PROVE  SerialInv
  OBVIOUS
<1>1. /\ \A o \in Operations : ops[o].status = "absent"
      /\ wire = {} /\ \A c \in Callers : call[c].at = "idle"
  BY DEF Init, StoreInit, NoOperation, Idle
<1> QED
  BY <1>1 DEF SerialInv, OneUnresolvedPerLock, IsUnresolved, Unresolved, LocksFit, Present,
              CallsInStep, CallInStep, Waiting, OutstandingHoldsLock, FailedLeftNoTrace

\* With one call at a time the engine never leaves the states of both invariants.
THEOREM SerialInvariant == DigestsCovered /\ OneCaller => (Spec => [](ServiceInv /\ SerialInv))
<1> SUFFICES ASSUME DigestsCovered, OneCaller
             PROVE  Spec => [](ServiceInv /\ SerialInv)
  OBVIOUS
<1>1. ServiceInv /\ SerialInv /\ [Next]_vars => SerialInv'
  BY StepSerial
<1>2. Spec => []ServiceInv
  BY ServiceInvariant
<1> QED
  BY <1>1, <1>2, InitSerial, PTL DEF Spec

\* A write that may still land belongs to an operation that holds its lock, through
\* crashes, lost answers and recoveries.
THEOREM OutstandingWritesAreLocked ==
  DigestsCovered /\ OneCaller => (Spec => []OutstandingHoldsLock)
<1> SUFFICES ASSUME DigestsCovered, OneCaller
             PROVE  Spec => []OutstandingHoldsLock
  OBVIOUS
<1>1. SerialInv => OutstandingHoldsLock
  BY DEF SerialInv
<1>2. Spec => [](ServiceInv /\ SerialInv)
  BY SerialInvariant
<1> QED
  BY <1>1, <1>2, PTL

\* An operation reported as failed never touched Open WebUI and never will.
THEOREM FailureLeavesNoTrace ==
  DigestsCovered /\ OneCaller => (Spec => []FailedLeftNoTrace)
<1> SUFFICES ASSUME DigestsCovered, OneCaller
             PROVE  Spec => []FailedLeftNoTrace
  OBVIOUS
<1>1. SerialInv => FailedLeftNoTrace
  BY DEF SerialInv
<1>2. Spec => [](ServiceInv /\ SerialInv)
  BY SerialInvariant
<1> QED
  BY <1>1, <1>2, PTL

-------------------------------------------------------------------------------
(* One call at a time implements WriteOnce *)

intent == [o \in Operations |-> IntentOf(o)]
write == [o \in Operations |-> WriteOf(o)]
holds == [o \in Operations |-> ops[o].lock]

\* The lives of the other operations do not change.
OthersRest(q) ==
  \A o \in Operations : o # q => intent'[o] = intent[o] /\ holds'[o] = holds[o]

LEMMA IntentRests ==
  ASSUME StoreTypeOK, StoreTypeOK', NEW o \in Operations, ops'[o].lock = ops[o].lock,
         \/ ops'[o].status = ops[o].status
         \/ ops[o].status \in Unresolved /\ ops'[o].status \in Unresolved
  PROVE  intent'[o] = intent[o] /\ holds'[o] = holds[o]
<1>1. IntentOf(o)' = IntentOf(o)
  BY DEF IntentOf, Unresolved
<1> QED
  BY <1>1 DEF intent, holds

LEMMA WriteRests ==
  ASSUME UNCHANGED owuVars
  PROVE  write' = write
BY DEF owuVars, write, WriteOf

\* Opening an operation opens its intent on a resource nobody has open.
LEMMA OpeningOpens ==
  ASSUME StoreTypeOK, StoreTypeOK', NEW q \in Operations, Opening(q)
  PROVE  Promise!Open(q)
<1>1. intent[q] = "none"
  BY DEF Opening, Present, intent, IntentOf, Unresolved
<1>2. intent' = [intent EXCEPT ![q] = "open"]
  <2>1. intent'[q] = "open"
    BY DEF Opening, intent, IntentOf, Unresolved
  <2>2. \A o \in Operations : o # q => intent'[o] = intent[o]
    BY IntentRests DEF Opening
  <2> QED
    BY <2>1, <2>2 DEF intent
<1>3. holds' = [holds EXCEPT ![q] = ops'[q].lock]
  <2>1. holds'[q] = ops'[q].lock
    BY DEF holds
  <2>2. \A o \in Operations : o # q => holds'[o] = holds[o]
    BY IntentRests DEF Opening
  <2> QED
    BY <2>1, <2>2 DEF holds
<1>4. ASSUME NEW other \in Operations, intent[other] = "open"
      PROVE  holds[other] # ops'[q].lock
  <2>1. IsUnresolved(other)
    BY <1>4 DEF intent, IntentOf, IsUnresolved, StoreTypeOK, OpRow, Statuses, Terminal
  <2> QED
    BY <2>1 DEF Opening, LockFree, holds
<1>5. ops'[q].lock \in Locks /\ UNCHANGED write
  BY WriteRests DEF Opening
<1> QED
  BY <1>1, <1>2, <1>3, <1>4, <1>5 DEF Promise!Open, intent, holds, write

\* Ending an operation ends its intent, written or not.
LEMMA EndingEnds ==
  ASSUME ServiceInv, StoreTypeOK', NEW q \in Operations, Ending(q)
  PROVE  Promise!Succeed(q) \/ Promise!Fail(q)
<1>0. StoreTypeOK
  BY DEF ServiceInv, ServiceTypeOK
<1>1. intent[q] = "open"
  BY DEF Ending, IsUnresolved, intent, IntentOf, Unresolved
<1>2. UNCHANGED <<write, holds>>
  <2>1. \A o \in Operations : holds'[o] = holds[o]
    BY DEF Ending, holds
  <2> QED
    BY <2>1, WriteRests DEF Ending, holds
<1>3. ASSUME NEW how, intent'[q] = how
      PROVE  intent' = [intent EXCEPT ![q] = how]
  <2>1. \A o \in Operations : o # q => intent'[o] = intent[o]
    BY <1>0, IntentRests DEF Ending
  <2> QED
    BY <1>3, <2>1 DEF intent
<1>4. CASE ops'[q].status = "failed" /\ Traceless(q)
  <2>1. intent'[q] = "failed"
    BY <1>4 DEF intent, IntentOf, Unresolved
  <2>2. write[q] \in {"unsent", "refused"}
    BY <1>4 DEF write, WriteOf, Traceless
  <2> QED
    BY <1>1, <1>2, <1>3, <2>1, <2>2 DEF Promise!Fail, Promise!Ends, intent, holds, write
<1>5. CASE ops'[q].status = "succeeded" /\ (q \in landed \/ (Traceless(q) /\ sent[q] = 0))
  <2>1. intent'[q] = "ok"
    BY <1>5 DEF intent, IntentOf, Unresolved
  <2>2. write[q] \in {"in", "unsent"}
    BY <1>5 DEF write, WriteOf, Traceless
  <2> QED
    BY <1>1, <1>2, <1>3, <2>1, <2>2 DEF Promise!Succeed, Promise!Ends, intent, holds, write
<1> QED
  BY <1>4, <1>5 DEF Ending

\* The writes: a step of Open WebUI or of the exchange moves one write, whose intent
\* is open.
LEMMA WriteMoves ==
  ASSUME NEW q \in Operations, NEW from, NEW to, UNCHANGED <<intent, holds>>,
         intent[q] = "open", write[q] = from, write'[q] = to,
         \A o \in Operations : o # q => write'[o] = write[o]
  PROVE  Promise!Moves(q, from, to)
<1>1. write' = [write EXCEPT ![q] = to]
  BY DEF write
<1> QED
  BY <1>1 DEF Promise!Moves, intent, write, holds

LEMMA UnresolvedIsOpen ==
  ASSUME NEW o \in Operations, IsUnresolved(o)
  PROVE  intent[o] = "open"
BY DEF IsUnresolved, intent, IntentOf, Unresolved

LEMMA SteadyWrites ==
  ASSUME ServiceInv, SerialInv, UNCHANGED <<intent, holds>>, Next
  PROVE  \/ UNCHANGED write
         \/ \E q \in Operations : Promise!Send(q) \/ Promise!Land(q) \/ Promise!Refuse(q)
<1>1. /\ \A r \in wire : r.op \in Operations /\ IsUnresolved(r.op) /\ r.op \notin landed
                         /\ sent[r.op] = 1
      /\ \A r1, r2 \in wire : r1.op = r2.op => r1 = r2
      /\ \A o \in Operations : sent[o] \in Nat
  BY DEF ServiceInv, ServiceTypeOK, WritesFit, WireFits, SerialInv, OutstandingHoldsLock, Requests
<1>2. ASSUME NEW c \in Callers, Post(c)
      PROVE  \E q \in Operations : Promise!Send(q)
  <2>0. PICK q \in Operations, w \in Requests : q = call[c].op /\ w = Write(c)
    BY <1>2, PostWrites
  <2>1. /\ w.op = q /\ wire' = wire \cup {w} /\ landed' = landed
        /\ sent[q] = 0 /\ sent'[q] = 1
        /\ \A o \in Operations : o # q => sent'[o] = sent[o]
    BY <1>2, <2>0, PostWrites DEF Post
  <2>2. Traceless(q)
    BY <2>1, UnsentIsTraceless
  <2>3. write[q] = "unsent" /\ write'[q] = "out"
    BY <2>1, <2>2 DEF write, WriteOf, Traceless
  <2>4. \A o \in Operations : o # q => write'[o] = write[o]
    BY <2>1 DEF write, WriteOf
  <2>5. intent[q] = "open"
    <3>1. ops[q].status = "applying"
      BY <1>2, <2>0 DEF Post, At, SerialInv, CallsInStep, CallInStep
    <3> QED
      BY <3>1, UnresolvedIsOpen DEF IsUnresolved, Unresolved
  <2> QED
    BY <2>3, <2>4, <2>5, WriteMoves DEF Promise!Send
<1>3. ASSUME NEW c \in Callers, Await(c)
      PROVE  UNCHANGED write \/ \E q \in Operations : Promise!Refuse(q)
  <2>1. /\ landed' = landed /\ sent' = sent
        /\ wire' = wire \/ wire' = wire \ {r \in wire : r.op = call[c].op}
    BY <1>3 DEF Await
  <2>2. CASE wire' = wire
    BY <2>1, <2>2 DEF write, WriteOf
  <2>3. CASE wire' # wire
    <3>1. PICK r \in wire : r.op = call[c].op
      BY <2>1, <2>3
    <3>2. PICK q \in Operations : q = r.op
      BY <1>1
    <3>3. wire' = wire \ {x \in wire : x.op = q} /\ q \notin landed /\ sent[q] = 1
      BY <1>1, <2>1, <2>3, <3>1, <3>2
    <3>4. write[q] = "out" /\ write'[q] = "refused"
      BY <2>1, <3>2, <3>3 DEF write, WriteOf
    <3>5. \A o \in Operations : o # q => write'[o] = write[o]
      BY <2>1, <3>3 DEF write, WriteOf
    <3>6. intent[q] = "open"
      BY <1>1, <3>2, UnresolvedIsOpen
    <3> QED
      BY <3>4, <3>5, <3>6, WriteMoves DEF Promise!Refuse
  <2> QED
    BY <2>2, <2>3
<1>4. ASSUME NEW r \in wire, NEW t \in Chats, WriteLands(r, t)
      PROVE  \E q \in Operations : Promise!Land(q)
  <2>1. PICK q \in Operations : q = r.op
    BY <1>1
  <2>2. wire' = wire \ {r} /\ landed' = landed \cup {q} /\ sent' = sent
    BY <1>4, <2>1 DEF WriteLands
  <2>3. write[q] = "out" /\ write'[q] = "in"
    BY <1>1, <2>1, <2>2 DEF write, WriteOf
  <2>4. \A o \in Operations : o # q => write'[o] = write[o]
    BY <2>1, <2>2 DEF write, WriteOf
  <2>5. intent[q] = "open"
    BY <1>1, <2>1, UnresolvedIsOpen
  <2> QED
    BY <2>3, <2>4, <2>5, WriteMoves DEF Promise!Land
<1>5. ASSUME NEW t \in Chats, UserEdits(t)
      PROVE  UNCHANGED write
  BY <1>5 DEF UserEdits, write, WriteOf
<1>6. UNCHANGED owuVars => UNCHANGED write
  BY WriteRests
<1> QED
  BY <1>2, <1>3, <1>4, <1>5, <1>6, OwuStep, OutsideSplits

LEMMA StepImplements ==
  DigestsCovered /\ ServiceInv /\ SerialInv /\ [Next]_vars
    => [Promise!WriteNext]_(Promise!writeVars)
<1> SUFFICES ASSUME DigestsCovered, ServiceInv, SerialInv, [Next]_vars
             PROVE  Promise!WriteNext \/ UNCHANGED <<intent, write, holds>>
  BY DEF Promise!writeVars, intent, write, holds
<1>1. StoreTypeOK /\ StoreTypeOK'
  BY StepStore DEF ServiceInv, ServiceTypeOK
<1>2. ASSUME NEW q \in Operations, Opening(q) \/ Ending(q)
      PROVE  Promise!WriteNext
  BY <1>1, <1>2, OpeningOpens, EndingEnds DEF Promise!WriteNext
<1>3. CASE Steady
  <2>1. UNCHANGED <<intent, holds>>
    <3>1. \A o \in Operations : intent'[o] = intent[o] /\ holds'[o] = holds[o]
      BY <1>1, <1>3, IntentRests DEF Steady
    <3> QED
      BY <3>1 DEF intent, holds
  <2>2. CASE Next
    BY <2>1, <2>2, SteadyWrites DEF Promise!WriteNext
  <2>3. CASE UNCHANGED vars
    BY <2>1, <2>3, WriteRests DEF vars
  <2> QED
    BY <2>2, <2>3
<1> QED
  BY <1>2, <1>3, StepSettles DEF SerialInv

LEMMA InitImplements == Init => Promise!WriteInit
<1> SUFFICES ASSUME Init
             PROVE  Promise!WriteInit
  OBVIOUS
<1>1. /\ \A o \in Operations : ops[o].status = "absent" /\ ops[o].lock = None /\ sent[o] = 0
      /\ wire = {} /\ landed = {}
  BY DEF Init, StoreInit, NoOperation
<1>2. \A o \in Operations : IntentOf(o) = "none" /\ WriteOf(o) = "unsent" /\ ops[o].lock = None
  BY <1>1 DEF IntentOf, WriteOf, Unresolved
<1> QED
  BY <1>2 DEF Promise!WriteInit

\* Through crashes, recoveries, lost answers and late writes, the operations table and
\* Open WebUI together behave as WriteOnce says.
THEOREM EngineImplementsWriteOnce ==
  DigestsCovered /\ OneCaller => (Spec => ImplementsWriteOnce)
<1> SUFFICES ASSUME DigestsCovered, OneCaller
             PROVE  Spec => ImplementsWriteOnce
  OBVIOUS
<1>1. ServiceInv /\ SerialInv /\ [Next]_vars => [Promise!WriteNext]_(Promise!writeVars)
  BY StepImplements
<1>2. Spec => [](ServiceInv /\ SerialInv)
  BY SerialInvariant
<1> QED
  BY <1>1, <1>2, InitImplements, PTL DEF Spec, ImplementsWriteOnce, Promise!WriteSpec

-------------------------------------------------------------------------------
(* An update replaces the document its plan expected *)

\* The chat an update is for, and that it still is, but for what a human did to it,
\* the document the plan expects.
ChatOf(o) == bindings[ops[o].binding].target

Core(doc) == [doc EXCEPT !.edit = Pristine]

Replaces(o) == Core(chats[ChatOf(o)]) = plans[ops[o].plan].expected

BaseInv ==
  /\ \A r \in wire : r.target # None => r.target = ChatOf(r.op) /\ Replaces(r.op)
  /\ \A c \in Callers :
       call[c].at \in {"begin", "post"} /\ ops[call[c].op].kind = "update"
         => Replaces(call[c].op)

\* The chat of an update is there, and it stays its chat.
LEMMA UpdateHasChat ==
  ASSUME ServiceInv, NEW o \in Operations, Present(o), ops[o].kind = "update"
  PROVE  /\ ops[o].binding \in Bindings
         /\ Bound(ops[o].binding)
         /\ ops[o].plan \in Plans
         /\ plans[ops[o].plan] \in PlanRow
         /\ plans[ops[o].plan].binding = ops[o].binding
         /\ ChatOf(o) \in Chats
         /\ chats[ChatOf(o)] \in Docs
         /\ allow[ChatOf(o)].binding = ops[o].binding
<1> DEFINE b == ops[o].binding
           p == ops[o].plan
<1>1. /\ p \in Plans /\ plans[p] # None /\ b \in Bindings /\ plans[p].binding = b
  BY DEF ServiceInv, OpsFit, OpStands, OpFits
<1>2. plans[p] \in PlanRow /\ PlanFits(plans[p])
  BY <1>1 DEF ServiceInv, ServiceTypeOK, StoreTypeOK, PlansFit
<1>3. Bound(b)
  BY <1>1, <1>2, NoneAssumption DEF PlanFits
<1>4. Allowed(b)
  BY <1>1, <1>3 DEF ServiceInv, StoreInv, EvidenceKept
<1>5. ChatOf(o) \in Chats /\ allow[ChatOf(o)].binding = b
  BY <1>4 DEF Allowed, ChatOf
<1>6. Made(ChatOf(o), bindings[b].creator)
  BY <1>1, <1>3 DEF ServiceInv, BindingsFit, ChatOf
<1>7. chats[ChatOf(o)] \in Docs
  BY <1>5, <1>6 DEF Made, ServiceInv, ServiceTypeOK
<1> QED
  BY <1>1, <1>2, <1>3, <1>5, <1>7

LEMMA ChatIsKept ==
  ASSUME ServiceInv, StorePersists, NEW o \in Operations, Present(o), ops[o].kind = "update"
  PROVE  /\ ops'[o].kind = "update"
         /\ ChatOf(o)' = ChatOf(o)
         /\ plans'[ops'[o].plan].expected = plans[ops[o].plan].expected
<1>0. PICK b, p : b = ops[o].binding /\ p = ops[o].plan
  OBVIOUS
<1>1. /\ b \in Bindings /\ Bound(b) /\ p \in Plans /\ plans[p] \in PlanRow
  BY <1>0, UpdateHasChat
<1>2. ops'[o].kind = "update" /\ ops'[o].binding = b /\ ops'[o].plan = p
  BY <1>0 DEF StorePersists
<1>3. bindings'[b].target = bindings[b].target
  BY <1>1 DEF StorePersists
<1>4. plans'[p].expected = plans[p].expected
  BY <1>1, AbsentAssumption DEF StorePersists, PlanRow
<1> QED
  BY <1>0, <1>2, <1>3, <1>4 DEF ChatOf

\* Two unresolved updates of one chat are one update: they hold one lock.
LEMMA OneUpdatePerChat ==
  ASSUME ServiceInv, SerialInv, NEW o1 \in Operations, NEW o2 \in Operations,
         IsUnresolved(o1), IsUnresolved(o2), ops[o1].kind = "update", ops[o2].kind = "update",
         ChatOf(o1) = ChatOf(o2)
  PROVE  o1 = o2
<1>1. Present(o1) /\ Present(o2)
  BY DEF IsUnresolved, Present, Unresolved
<1>2. ops[o1].binding = ops[o2].binding
  BY <1>1, UpdateHasChat
<1>3. ops[o1].lock = BindingLock(ops[o1].binding) /\ ops[o2].lock = BindingLock(ops[o2].binding)
  <2>1. ASSUME NEW o \in Operations, Present(o), ops[o].kind = "update"
        PROVE  ops[o].lock = BindingLock(ops[o].binding)
    BY <2>1, UpdateHasChat DEF SerialInv, LocksFit, LockOf
  <2> QED
    BY <1>1, <2>1
<1> QED
  BY <1>2, <1>3 DEF SerialInv, OneUnresolvedPerLock

\* A document that a human edits, and back, is the same but for the edit.
LEMMA CoreOfEdit ==
  ASSUME NEW d \in Docs, NEW edit
  PROVE  /\ Core([d EXCEPT !.edit = edit]) = Core(d)
         /\ d.edit = Pristine => Core(d) = d
BY DEF Core, Docs

LEMMA CoresChange ==
  ASSUME ServiceInv, Outside
  PROVE  \/ \E r \in wire, t \in Chats : WriteLands(r, t)
         \/ /\ UNCHANGED <<wire, landed, sent>>
            /\ \A t \in Chats : chats[t] # None => Core(chats'[t]) = Core(chats[t])
<1>1. chats \in [Chats -> Docs \cup {None}]
  BY DEF ServiceInv, ServiceTypeOK
<1>2. ASSUME NEW u \in Chats, NEW edit \in Edits \cup {Pristine}, HumanEdit(u, edit)
      PROVE  /\ UNCHANGED <<wire, landed, sent>>
             /\ \A t \in Chats : chats[t] # None => Core(chats'[t]) = Core(chats[t])
  <2>1. chats[u] \in Docs /\ chats' = [chats EXCEPT ![u] = [chats[u] EXCEPT !.edit = edit]]
    BY <1>1, <1>2 DEF HumanEdit
  <2>2. Core(chats'[u]) = Core(chats[u])
    BY <1>1, <2>1, CoreOfEdit
  <2> QED
    BY <1>1, <1>2, <2>1, <2>2 DEF HumanEdit
<1>3. ASSUME NEW r \in wire, LandCreate(r) \/ LandUpdate(r)
      PROVE  \E q \in wire, t \in Chats : WriteLands(q, t)
  <2>1. wire' # wire
    BY <1>3 DEF LandCreate, LandUpdate
  <2> QED
    BY <2>1, OutsideSplits DEF UserEdits
<1> QED
  BY <1>2, <1>3 DEF Outside

\* Nobody else's write changes the document under an unresolved update.
LEMMA ReplacesPersists ==
  ASSUME DigestsCovered, ServiceInv, SerialInv, BaseInv, [Next]_vars,
         NEW o \in Operations, IsUnresolved(o), ops[o].kind = "update", Replaces(o),
         \A r \in wire : r.op = o => r \in wire'
  PROVE  Replaces(o)' /\ ChatOf(o)' = ChatOf(o)
<1>1. StorePersists /\ Present(o)
  BY StepStore DEF IsUnresolved, Present, Unresolved
<1>2. PICK t \in Chats : t = ChatOf(o) /\ chats[t] \in Docs /\ chats[t] # None
  BY <1>1, UpdateHasChat, AbsentAssumption
<1>3. /\ ChatOf(o)' = t
      /\ plans'[ops'[o].plan].expected = plans[ops[o].plan].expected
  BY <1>1, <1>2, ChatIsKept
<1>4. Core(chats'[t]) = Core(chats[t])
  <2>1. CASE UNCHANGED chats
    BY <2>1
  <2>2. ASSUME NEW r \in wire, NEW u \in Chats, WriteLands(r, u)
        PROVE  chats'[t] = chats[t]
    <3>1. CASE u # t
      BY <2>2, <3>1 DEF WriteLands
    <3>2. CASE u = t
      <4>1. r.target = t /\ r.target # None
        BY <1>2, <2>2, <3>2, NoneAssumption DEF WriteLands
      <4>2. /\ r.op \in Operations /\ IsUnresolved(r.op) /\ ops[r.op].kind = "update"
            /\ ChatOf(r.op) = t
        BY <4>1 DEF ServiceInv, ServiceTypeOK, WritesFit, WireFits, Requests, SerialInv,
                    OutstandingHoldsLock, BaseInv
      <4>3. r.op = o
        BY <1>2, <4>2, OneUpdatePerChat
      <4>4. r \notin wire'
        BY <2>2 DEF WriteLands
      <4> QED
        BY <4>3, <4>4
    <3> QED
      BY <3>1, <3>2
  <2>3. CASE Outside
    BY <1>2, <2>2, <2>3, CoresChange
  <2> QED
    BY <2>1, <2>3, OwuStep DEF owuVars, vars
<1> QED
  BY <1>2, <1>3, <1>4 DEF Replaces

\* A call starts an update only from the document it has just verified.
LEMMA RereadReplaces ==
  ASSUME ServiceInv, NEW c \in Callers, Reread(c), call'[c].at = "begin",
         ops[call[c].op].kind = "update"
  PROVE  Replaces(call[c].op)
<1> DEFINE q == call[c].op
           plan == PlanOf(c)
           current == call[c].doc
<1>1. call[c].at = "reread" /\ call[c].at \in Operating
  BY DEF Reread, At, Operating, Updating
<1>2. /\ q \in Operations /\ Present(q) /\ plan = plans[ops[q].plan] /\ plan \in PlanRow
      /\ PlanFits(plan) /\ plan.status \in Settled
  BY <1>1, HeldOperation DEF PlanOf
<1>3. current \in Docs
  <2>1. current # None
    BY <1>1 DEF ServiceInv, CallsFit, CallFits
  <2> QED
    BY <2>1 DEF ServiceInv, ServiceTypeOK, CallRow
<1>4. plan.binding = ops[q].binding /\ plan.binding # None
  BY <1>2, UpdateHasChat, NoneAssumption
<1>5. \A step \in {"no_change", "fail"} : ~Goto(c, step)
  BY GotoSteps DEF Steps
<1>6. TargetUntouched(c) /\ MatchesPlanned(BuildFrom(plan.src, current), plan.desired)
  BY <1>5 DEF Reread
<1>7. chats[ChatOf(q)] = current /\ current = plan.expected
  BY <1>4, <1>6 DEF TargetUntouched, TargetOf, ChatOf, PlanOf
<1>8. current.edit = Pristine
  <2>1. BuildFrom(plan.src, current).edit = current.edit
    BY <1>3 DEF BuildFrom, Docs
  <2>2. plan.desired.edit = Pristine
    BY <1>2, <1>4 DEF PlanFits
  <2> QED
    BY <1>6, <2>1, <2>2 DEF MatchesPlanned
<1> QED
  BY <1>2, <1>3, <1>7, <1>8, CoreOfEdit DEF Replaces

\* How a call gets to a place from which it writes.
LEMMA WritersBegin ==
  ASSUME DigestsCovered, ServiceInv, CallsInStep, OneCaller, [Next]_vars,
         NEW c \in Callers, call'[c].at \in {"begin", "post"}, ops'[call'[c].op].kind = "update"
  PROVE  /\ call'[c].op = call[c].op
         /\ ops[call[c].op].kind = "update"
         /\ call[c].at \in {"begin", "post"} \/ Reread(c)
<1> USE DEF At
<1>1. call \in [Callers -> CallRow]
  BY DEF ServiceInv, ServiceTypeOK
<1>2. CASE Quiet(c)
  <2>1. ops' = ops /\ call'[c].at = "begin"
    <3>1. call'[c].at # "post"
      BY <1>2, QuietLands
    <3> QED
      BY <1>2, <3>1, QuietStore DEF storeVars
  <2>2. ASSUME NEW o \in Operations, RecoverStart(c, o) PROVE FALSE
    <3>1. call'[c].at \in {RecoveryStep(o)} \cup UnreadBinding(o) /\ call'[c].op = o
      BY <1>1, <2>2 DEF RecoverStart, CallRow
    <3> QED
      BY <2>1, <3>1, RecoveryGoes DEF RecoveryStep, ResumeStep
  <2>3. QuietSteps(c)
    BY <1>2, QuietGoes
  <2>4. CASE Reread(c)
    <3>1. call'[c].op = call[c].op
      BY <2>4, GotoSteps DEF Reread, Steps
    <3> QED
      BY <2>1, <2>4, <3>1
  <2>5. ~Reread(c) => call'[c].at # "begin"
    <3>1. call'[c].at = "begin" => ~(\E s \in Sources : PreviewCreate(c, s)
                                       \/ \E b \in Bindings : PreviewUpdate(c, s, b))
      BY <1>1 DEF PreviewCreate, PreviewUpdate, CallRow
    <3>2. ASSUME NEW p \in Plans, ApplyStart(c, p) PROVE call'[c].at \in {"prepare", "confirm"}
      BY <1>1, <3>2 DEF ApplyStart, CallRow
    <3>9. PreviewRead(c) => call'[c].at = "put"
      BY <1>1 DEF PreviewRead, CallRow
    <3>3. call'[c].at = "begin" => ~Post(c) /\ ~ReconcileUpdate(c)
      BY <1>1 DEF Post, ReconcileUpdate, CallRow
    <3>4. \A step \in {"fail", "receipt", "unknown"} : Goto(c, step) => call'[c].at = step
      BY GotoSteps DEF Steps
    <3>5. ASSUME NEW doc, NEW step, Verified(c, doc, step) PROVE call'[c].at = step
      BY <1>1, <3>5 DEF Verified, CallRow
    <3>6. call'[c].at = "begin" => ~Await(c) /\ ~Readback(c) /\ ~ReconcileCreate(c)
      BY <3>4, <3>5 DEF Await, Readback, ReconcileCreate
    <3>7. call'[c].at = "begin" => ~LoadBinding(c)
      BY <1>1, <3>4 DEF LoadBinding, CallRow
    <3>8. call'[c].at = "begin" => ~GiveUp(c)
      BY ReturnSteps DEF GiveUp
    <3> QED
      BY <1>2, <2>2, <3>1, <3>2, <3>3, <3>6, <3>7, <3>8, <3>9 DEF Quiet
  <2> QED
    BY <2>1, <2>4, <2>5
<1>3. CASE Preparing(c)
  <2>1. PICK q \in Operations, kind \in {"create", "update"} : Readies(c, q, kind)
    BY <1>3, PreparingReadies
  <2>2. call'[c].op = q /\ ops'[q].kind = kind
        /\ call'[c].at = IF kind = "create" THEN "begin" ELSE "load"
    BY <1>1, <2>1 DEF Readies, Prepares, CallRow
  <2> QED
    BY <2>2
<1>4. CASE Moving(c)
  <2>1. Begin(c) /\ call'[c].op = call[c].op
    <3>1. call'[c].at = "post"
      BY <1>4, MovingGoes DEF Watched, Waiting
    <3>2. Persists /\ OpsFit' /\ StoreTypeOK'
      BY StepPersists, StepOps, StepStore
    <3> QED
      BY <1>4, <3>1, <3>2, MovingLands
  <2>2. call[c].at = "begin"
    BY <2>1 DEF Begin
  <2>3. ops'[call[c].op].kind = ops[call[c].op].kind
    BY <1>4, MovingMoves DEF Moves
  <2> QED
    BY <2>1, <2>2, <2>3
<1>5. ~(Planning(c) \/ Finishing(c))
  BY PlanningGoes DEF Watched, Waiting
<1>6. ~Restart
  BY DEF Restart, Idle
<1>7. CASE call' = call /\ ops' = ops
  BY <1>7
<1>8. Outside \/ (\E p \in Plans : PlanExpires(p)) \/ UNCHANGED vars => call' = call /\ ops' = ops
  BY OutsideStore DEF storeVars, PlanExpires, Expire, vars
<1> QED
  BY <1>2, <1>3, <1>4, <1>5, <1>6, <1>7, <1>8, NextSplits DEF OneCaller

LEMMA StepWriters ==
  ASSUME DigestsCovered, ServiceInv, SerialInv, BaseInv, OneCaller, [Next]_vars,
         NEW c \in Callers, call'[c].at \in {"begin", "post"}, ops'[call'[c].op].kind = "update"
  PROVE  Replaces(call[c].op)'
<1>0. PICK q : q = call[c].op
  OBVIOUS
<1>1. /\ call'[c].op = q /\ ops[q].kind = "update"
      /\ call[c].at \in {"begin", "post"} \/ Reread(c)
  BY <1>0, WritersBegin DEF SerialInv
<1>2. call'[c].at = "begin" \/ call[c].at \in {"begin", "post"}
  <2>1. Reread(c) => call'[c].at \in {"no_change", "begin", "fail"}
    BY GotoSteps DEF Reread, Steps
  <2> QED
    BY <1>1, <2>1
<1>3. call[c].at \in Operating /\ call[c].at \in {"begin", "post", "reread"}
  BY <1>1 DEF Reread, At, Operating, Updating, Attempted
<1>4. q \in Operations
  BY <1>0, <1>3, HeldOperation
<1>5. Replaces(q)
  BY <1>0, <1>1, <1>2, RereadReplaces DEF BaseInv, Reread, At
<1>6. IsUnresolved(q)
  BY <1>0, <1>3 DEF SerialInv, CallsInStep, CallInStep, Waiting, IsUnresolved, Unresolved
<1>7. sent[q] = 0
  <2>1. CASE call[c].at = "post"
    BY <1>0, <2>1 DEF ServiceInv, PostsFit, At
  <2>2. CASE call[c].at # "post"
    <3>1. ops[q].status = "prepared"
      BY <1>0, <1>3, <2>2 DEF SerialInv, CallsInStep, CallInStep, Waiting
    <3> QED
      BY <1>4, <3>1, PreparedIsUnsent
  <2> QED
    BY <2>1, <2>2
<1>8. \A r \in wire : r.op # q
  BY <1>4, <1>7, UnsentIsTraceless DEF Traceless
<1>9. Replaces(q)'
  BY <1>1, <1>4, <1>5, <1>6, <1>8, ReplacesPersists
<1> QED
  BY <1>1, <1>9 DEF Replaces, ChatOf

LEMMA StepWire ==
  ASSUME DigestsCovered, ServiceInv, SerialInv, BaseInv, [Next]_vars,
         NEW r \in wire', r.target # None
  PROVE  (r.target = ChatOf(r.op) /\ Replaces(r.op))'
<1>1. ASSUME r \in wire
      PROVE  (r.target = ChatOf(r.op) /\ Replaces(r.op))'
  <2>1. PICK q \in Operations : q = r.op
    BY <1>1 DEF ServiceInv, ServiceTypeOK, Requests
  <2>2. /\ IsUnresolved(q) /\ ops[q].kind = "update"
        /\ r.target = ChatOf(q) /\ Replaces(q)
    BY <1>1, <2>1 DEF ServiceInv, WritesFit, WireFits, SerialInv, OutstandingHoldsLock, BaseInv
  <2>3. \A w \in wire : w.op = q => w = r
    BY <1>1, <2>1 DEF ServiceInv, WritesFit
  <2>4. Replaces(q)' /\ ChatOf(q)' = ChatOf(q)
    BY <2>2, <2>3, ReplacesPersists
  <2> QED
    BY <2>1, <2>2, <2>4 DEF Replaces, ChatOf
<1>2. ASSUME NEW c \in Callers, Post(c), r \notin wire
      PROVE  (r.target = ChatOf(r.op) /\ Replaces(r.op))'
  <2>0. PICK q \in Operations : q = call[c].op
    BY <1>2, PostWrites
  <2>1. r = Write(c) /\ r.op = q
    BY <1>2, <2>0, PostWrites
  <2>2. ops[q].kind = "update" /\ r.target = TargetOf(c)
    <3>1. ops[q].kind = "update"
      BY <1>2, <2>0, <2>1, PostWrites
    <3> QED
      BY <2>0, <2>1, <3>1 DEF Write
  <2>3. call[c].at = "post" /\ call[c].at \in Operating
    BY <1>2 DEF Post, At, Operating, Attempted
  <2>4. Present(q) /\ call[c].plan = ops[q].plan
    BY <2>0, <2>3, HeldOperation
  <2>5. TargetOf(c) = ChatOf(q)
    BY <2>2, <2>4, UpdateHasChat DEF TargetOf, PlanOf, ChatOf
  <2>6. Replaces(q)
    BY <2>0, <2>2, <2>3 DEF BaseInv
  <2>7. UNCHANGED <<ops, plans, bindings, chats>>
    BY <1>2 DEF Post, storeVars
  <2> QED
    BY <2>1, <2>2, <2>5, <2>6, <2>7 DEF Replaces, ChatOf
<1>3. r \in wire \/ \E c \in Callers : Post(c)
  BY OwuStep, OutsideSplits DEF Await, WriteLands, UserEdits, owuVars, vars
<1> QED
  BY <1>1, <1>2, <1>3

LEMMA StepBase ==
  DigestsCovered /\ OneCaller /\ ServiceInv /\ SerialInv /\ BaseInv /\ [Next]_vars => BaseInv'
<1> SUFFICES ASSUME DigestsCovered, OneCaller, ServiceInv, SerialInv, BaseInv, [Next]_vars
             PROVE  BaseInv'
  OBVIOUS
<1>1. \A r \in wire' : r.target # None => (r.target = ChatOf(r.op) /\ Replaces(r.op))'
  BY StepWire
<1>2. \A c \in Callers :
        call'[c].at \in {"begin", "post"} /\ ops'[call'[c].op].kind = "update"
          => Replaces(call[c].op)'
  BY StepWriters
<1> QED
  BY <1>1, <1>2 DEF BaseInv, Replaces, ChatOf

\* The gate never overwrites what it has not read: when an update lands, the chat it
\* replaces is the document the plan expected, apart from a human's edit since.
THEOREM UpdatesReplaceWhatWasRead ==
  DigestsCovered /\ OneCaller => (Spec => UpdatesReplaceTheBaseline)
<1> SUFFICES ASSUME DigestsCovered, OneCaller
             PROVE  Spec => UpdatesReplaceTheBaseline
  OBVIOUS
<1>1. Init => BaseInv
  BY DEF Init, BaseInv, Idle
<1>2. ServiceInv /\ SerialInv /\ BaseInv /\ [Next]_vars => BaseInv'
  BY StepBase
<1>3. ServiceInv /\ BaseInv =>
        [\A t \in Chats : \A r \in wire \ wire' :
           r.target = t /\ chats'[t] # chats[t] =>
             [chats[t] EXCEPT !.edit = Pristine] = plans[ops[r.op].plan].expected]_vars
  <2> SUFFICES ASSUME BaseInv, NEW t \in Chats, NEW r \in wire, r.target = t
               PROVE  [chats[t] EXCEPT !.edit = Pristine] = plans[ops[r.op].plan].expected
    OBVIOUS
  <2> QED
    BY NoneAssumption DEF BaseInv, Replaces, Core
<1>4. Spec => [](ServiceInv /\ SerialInv)
  BY SerialInvariant
<1> QED
  BY <1>1, <1>2, <1>3, <1>4, PTL DEF Spec, UpdatesReplaceTheBaseline
===============================================================================
