# A formal model of gpt-owu-bridge

`gpt-owu-bridge` copies ChatGPT share pages into chats of one Open WebUI account.
A share is fetched and parsed into a *source snapshot*, compared with what was
written last time, and turned into an immutable *sync plan*; once its user has
confirmed the plan, an *operation* writes the chat, reads it back and records the
verified result as the next *baseline*.  The difficulty is that Open WebUI offers
neither transactions nor idempotent writes: a POST may be answered late, ambiguously
or not at all, its effect may arrive after the caller gave up, and a human may edit
the chat at any moment.  The gate must never create a second chat for a share,
never repeat an uncertain write, never write over a chat it did not verify, and
never call something done or failed that is not.

Around that engine stand an OAuth server that decides who may call it, a serving
process that lets one call in at a time, a parser of share pages, and a database file
that one process may have open.

This directory holds the TLA+ model of that machinery, the TLC runs that check it
and the TLAPS proofs about all of its modules, from the durable store to the parser.

    tlc -workers 2 -config MCGateStore.cfg MCGateStore     # a run
    tlapm SyncServiceProofs.tla                            # the proofs of one module

## 1. The system

| component | code | state it keeps | operations | correct when |
|---|---|---|---|---|
| durable store | `internal/storage` | one SQLite file: source snapshots, plans, operations, creation intents, bindings, target allow-list, baselines, message mappings | `PutSourceSnapshot`, `SavePlan`, `ConfirmPlan`, `PrepareCreate`, `PrepareBindingOperation`, `TransitionOperation`, `FinalizeVerifiedCreate`, `CompleteVerifiedUpdate`, `Open` (`RecoverInterrupted`) and reads | the tables agree with each other, resolved operations and recorded evidence never change, one unresolved operation per lock |
| sync engine | `internal/syncer` | none between calls | `Preview`, `Apply`, `Recover`, `Status` | every write is sent at most once and every reported outcome is true |
| Open WebUI client | `internal/owu/client.go` | configuration | `VerifyIdentity`, `Create`, `Read`, `Update` | a write is reported as refused only if it did not and will not happen |
| chat documents | `internal/owu/snapshot.go` | none | `BuildSnapshot`, `requestBody`, markers, comparisons | managed messages are replaced, everything else is carried over |
| diff | `internal/diff` | none | `Preview` | what is not an append or an edit of text is a conflict |
| connector | `internal/connector/connector.go` | a mutex | MCP tools `preview_sync`, `apply_sync`, status | one engine call at a time |
| OAuth server | `internal/connector/auth.go`, `store.go` | clients, codes, tokens, spent refresh tokens | register, authorize, token, revoke, protect | a grant is carried by one token pair at a time, ends when it should and only then |
| HTTP server | `internal/httpserver` | listener | `Run` until signalled, then graceful shutdown | in-flight calls end or are cut, both databases are closed |
| database file | `internal/storage/store.go`, `migrations.go` | the file, its ledger of migrations, its exclusive lock | `Initialize`, `Open`, `migrate`, `Close` | one process inside, on a file that is ready; an installation is never lost |
| configuration | `internal/config` | none | load and validate | precedence |
| share reader | `internal/source/chatgpt` | none | fetch, decode, parse | the branch that is shown, in order, with what was not understood marked |
| command line | `cmd/gpt-owu-gate` | none | one process per command | opens, makes one call, closes |

Components meet in five places.

- **Engine and store.**  The engine calls one store method at a time; each is one
  SQLite transaction under the store's mutex.  Between two of them anything may
  happen: the process may stop, the context may be cancelled, the plan may expire.
- **Engine and Open WebUI.**  One HTTP exchange at a time, each with a timeout.
- **Callers and engine.**  The connector serialises all its tool calls with one mutex
  (`connector.go:71`) and holds the database exclusively (`store.go:180`), so the
  command line cannot be inside at the same time.  Both are checked: `CallsAreSerial`
  and `OneProcessInside`.  Recovery is offered by the command line only.
- **Parser, diff and documents.**  `Preview` hands the parsed snapshot and the projections
  of two documents to the diff, and then builds the new document from what is in Open
  WebUI; a write does what was built.
- **OAuth server and tools.**  A tool call is let in with an access token that is checked
  under the OAuth server's own mutex and not again afterwards.

What is hard: a crash between the POST and the record of its receipt; the failure
of the very transition that should record a failure; a write that lands after
recovery looked; a plan that goes stale at any step; the long life of an idempotency
key and of the claim on a share; the chain of rows a binding rests on; a document
that a human rearranged before the gate writes over it; a token request that is
committed although it failed; a revocation of two statements; a signal while
calls wait for each other.  The list,
each at its line and with the properties that would notice, is `hazards` in
`PROJECT.json`.

## 2. The modules

| module | models |
|---|---|
| `GateData` | the values: sources, chat documents, plans, keys, locks, and the pure functions on them |
| `GateStore` | the durable store, one action per method, and `StoreSpec`: any client calling any method in any order |
| `SyncService` | the engine between the store and Open WebUI: one action per store method or HTTP exchange; crashes, lost answers, late writes, expiry, human edits |
| `WriteOnce` | the abstract promise about writes, with no store and no protocol |
| `Filtering` | what a loop that copies some elements of a list returns |
| `ChatGraph` | chat documents as graphs of messages: `BuildSnapshot`, `normalizeChat`, and a human's edits |
| `SourceDiff` | `diff.Preview` on ordered messages |
| `ChatSync` | the life of a bound chat on whole documents; composes `ChatGraph` and `SourceDiff` |
| `ShareParse` | `buildSnapshot` of the parser: what of a page is read, and what is refused |
| `ShareLife` | a conversation that goes on, branches and switches, read and compared; composes `ShareParse` and `SourceDiff` |
| `TokenStore` | the OAuth server from the code to the end of its token family |
| `TokenFamily` | what it promises about one grant, with no rows and no clock |
| `Consent` | registration and the consent page |
| `GateServer` | the serving process: start, tool calls, signal, grace period, exit |
| `StoreFile` | the database file and the processes that create, open, migrate and leave it |
| `MC...` | the instances that TLC checks |
| `SyncServiceProofs` | the theorems about `StoreSpec`; about the engine with any number of callers; those that need one caller at a time, and that the engine implements `WriteOnce` |
| `ListProofs` | lemmas: induction over numbers and sequences, functions defined by recursion, lists and what is taken of them |
| `ChatSyncProofs` | the theorems about a bound chat and its document |
| `ShareLifeProofs` | the theorems about what is read of a share |
| `GateServerProofs`, `StoreFileProofs` | that there is one caller: one call in the service, one process on the file |
| `ConsentProofs`, `TokenStoreProofs` | the theorems about the OAuth server, and that it implements `TokenFamily` |

`SyncService` extends `GateStore`: an engine step *is* a store action together with
the movement of the call, so every guard and every column the store writes is part of
it.  `WriteOnce` is instantiated in `SyncService` through a refinement mapping, and
`TokenFamily` in `TokenStore`.  `GateServer` and `StoreFile` justify two assumptions of
`SyncService`: one call inside, and one process.

### GateData: what data is reduced to

A **source** is a record of its share link, candidate conversation id, message ids,
one text, whether all its content was understood (`Coverage`) and whether its
identity is verified.  Its hash is equality.  A **document** is what
`owu.hashRelevant` hashes: the managed messages, their text, the mark of a human
edit (standing for everything the gate does not manage) and the two operation ids of
the bridge metadata, `by` (`created_by_operation`) and `last`
(`last_operation_id`).  `MatchesPlanned` follows `comparableChats`: the receipt
marker is ignored, the creation marker compared only when the plan knew it.  A
**plan** keeps binding, version, source, previous source, expected and desired
document, status and confirmation.  `KeyOf`, `PayloadOf`, `CreateLock` and
`BindingLock` are the idempotency key, the semantic payload and the lock keys; a
digest is the tuple that is digested.

Left out of the data here: the order and parents of messages, titles, folders, the
archived and pinned flags, and individual content parts.  A human edit of any of them is
an `edit`.  Order, parents, children and titles are the subject of `ChatGraph`,
`SourceDiff` and `ShareParse`.

### GateStore: state and actions against the code

| variable | table |
|---|---|
| `sources` | `source_snapshots` |
| `plans`, `expired` | `sync_plans`, and which of them the clock has passed |
| `ops` | `operations`; status `absent` is no row |
| `intents` | `creation_intents` |
| `bindings` | `bindings`; version 0 is no row |
| `allow` | `target_allowlist` |
| `baselines` | `target_baselines`, by operation; version 0 is no row |
| `mapped` | `message_mappings`, as the set of mapped source messages |

Each store method is the action of its name.  A method that returns an error rolls its
transaction back, so an error is an action that is not enabled.  A replayed
`Prepare...` (the key is already held) returns the existing row and changes nothing,
likewise.  `RecoverInterrupted` is the sweep `Open` makes.  `Transitions` is
the table of `transitionAllowed`, and `Recorded` with `Recordable` are the
write-once columns of `TransitionOperation`.  `OperationArchive` is a kind the store
accepts and the engine never uses; `StoreSpec` includes it.

`BaselinesAt` and `Allowed` are written as the code's queries, not as what they are
meant to return: that one row answers is a property (`BaselineHistory`,
`EvidenceKept`).

### SyncService: state and actions against the code

`call[c]` is the program counter and the local variables of the call of caller `c`;
`chats` is Open WebUI; `wire` holds the POSTs that were sent and have not landed;
`landed` and `sent` are history variables over operations.

| code | actions |
|---|---|
| `Preview`, `persistPlan` | `PreviewCreate`, `PreviewUpdate`, `PreviewRead`, `PersistSource`, `PersistPlan` |
| `Apply` | `ApplyStart`, `Confirm`, `ApplyCreate`, `ApplyUpdate` |
| `executeCreate`, `executeUpdate`, `executeNoChange` | `LoadBinding`, `Reread`, `FinishNoChange`, `Begin`, `Post`, `Await`, `RecordReceipt`, `Readback` |
| `finishCreate`, `finishUpdate` | `Readback` or `Reconcile...`, `Resume`, `FinishCreate`, `FinishUpdate` |
| `unknownOperation`, `failOperation` | `MarkUnknown`, `MarkFailed` |
| `Recover`, `reconcileCreate`, `reconcileUpdate` | `RecoverStart`, `Interrupt`, `ReconcileCreate`, `ReconcileUpdate`, `Resume` |
| an error, a cancelled context | `GiveUp`: the call returns from any step and leaves the operation as it is |
| the process stops; the next `Open` | `Restart` |
| Open WebUI and its user (external) | `LandCreate`, `LandUpdate`, `HumanEdit` |

`Await` is `writeJSON`: a receipt only after the write landed; a definite refusal
(4xx other than 400, 408, 429) only when it has not and never will; otherwise the
outcome is unknown, and the write may land at any later time or never.  That a
definite refusal is final is an assumption about Open WebUI, the one the code makes at
`client.go:347-353`.  A further assumption is that a create makes a chat with a new id.

A `Status` call, a replayed `Apply` and a `Recover` of a resolved operation change
nothing and are not actions.  A check that cannot depend on history (the fixed owner,
the identity of site and account) is a call that gives up.  The rebuilt document of
`executeCreate` is a function of the same source and cannot differ from the plan, so
those two failures are not taken.  `Recover` reads the record and then its plan; they
are one step, because the plan of an operation never changes.  A binding that it cannot read fails a
prepared operation as a changed version does (`UnreadBinding`); nothing was sent yet.

### ChatGraph, SourceDiff, ChatSync

A document is a title, a current message, the list that the chat shows, and messages
with parent, children, the source message and the source node that the gate's metadata names, one
text, and the creation time that the gate wrote, which it does only if the source gives one
(`TimeOf`).  A source without a title is given one (`TitleOf`).  `BuildSnapshot` is `Written`, the branch that is laid over the document, if
`Buildable`, that is, if `normalizeChat` accepts it (`IsWhole`).  `TargetID` is the name under which a
source message is in the document already; only a new one gets a name of today's identity.

`SourceDiff!Preview` has the code's lists of changes and its conflicts, of the source
(`SourceConflicts`) and of the target (`TargetConflicts`), as sets.  Its
title policy is `follow_source`, the only one that is ever stored.

| code | actions of `ChatSync` |
|---|---|
| the share, read again (external) | `ShareChanges` |
| Open WebUI and its user (external) | `HumanEdits` (a reply, a rewording, a removal, another branch shown), `HumanReverts` |
| `Service.Preview` | the definitions `Diff` and `Status` |
| an `Apply` that succeeds | `Apply` |

### ShareParse, ShareLife

`ShareParse!BuildSnapshot` is one pure function: the walk up from the current node
(`Ancestry`, and its errors, `Rooted`), the list of nodes that has to be the same branch (`CurrentBranch`), the check
of the children of every node, the selection of messages, and the renumbering of order
and parents.  `ShareLife` makes pages of a conversation that is continued (`Continue`),
branched (`Regenerate`) and switched (`SwitchBranch`), all external, reads them (`Read`,
`ReadGarbled`) and applies what the diff lets pass (`Apply`).

### TokenStore, TokenFamily, Consent

| variable of `TokenStore` | table |
|---|---|
| `code`, `codeRows` | code rows; the data is kept after the row is gone |
| `pair`, `access`, `refresh` | access and refresh rows with their common data |
| `spent` | `spent_refresh` |
| `req`, `received` | handlers and answers under way, and what clients know |

| code | actions |
|---|---|
| `authorize`, the code it issues | `IssueCode` |
| `token`, `authorization_code` | `ExchangeCode`, `FailPKCE`, `FailExchange` |
| `token`, `refresh_token` | `RefreshPair`, `FailRotation`, `ReplaySpent` |
| `revoke` | `BeginRevoke`, `RevokeStatement`, `RevokeUnknown` |
| `protect` | `Admit` |
| the network, a crash, time | `Deliver`, `Disconnect`, `Restart`, `Tick`, `EndRequest` |

All handlers run under one mutex.  A token request is one SQL transaction and so one step;
what can get lost is its answer.  A commit that fails is an error and no step, and so
is a rejected client or an expired token.  The transaction is committed "even on
protocol rejection" (`auth.go:272`), so a rotation in which a statement failed is committed as
far as it came: it leaves a pair that nobody was told of.  `RemoveByRefresh` reads the token before
it deletes it, and deletes it without a mark if the read fails (`Marks`).  A revocation is two
statements outside of any transaction; `botched` remembers when one failed, because the code
ignores that.  A revocation whose lookup fails is answered like one that finds nothing (`RevokeUnknown`).  A family is named by its code.  The grant rules of go-oauth2 are external.

`Consent` has what comes before: `Register` (`addClient`), `ShowPage`, `Submit`, `Decide`,
`Issue` and `AnswerDecision` (`authorize` in its two methods), and a browser with one cookie that
may submit any page it still shows (`Submittable` bounds how often).

### GateServer, StoreFile

`GateServer` follows `Run` of the HTTP server (`run`) from `connector.New` through
`Listen`, the signal, `BeginShutdown` and `Shutdown` to `Exit`, and each tool call through
fetching the share, `Acquire` of the mutex, the store, the exchange with Open WebUI, the
record and `Finish`.  A call that finds the store closed is `Refused` and remembered in `cut`.

`StoreFile` follows each process through `Initialize` or `Open`, `openDatabase` and
`migrate`: looking at the path, creating the file exclusively, connecting by name, the exclusive lock,
one migration at a time, the installations row or the recovery of interrupted operations,
and the deferred removal by name.  Every step of it may be the last (`Crash`).  A call that is
refused at its first look at the path is no step.  The sidecars of a file are taken to belong
to it, so that the three removals of the cleanup are one step; and commits are durable.

One failure is assumed away: after the installations row is written, `Initialize` protects the files
once more (`secureDatabaseFiles`, `store.go:110-112`) and, should that fail, closes and removes them.
It inspects and changes the mode of regular files that the same process created a moment ago, and
the properties of `StoreFile` hold only as long as it does not fail: between the close and the removal
another process could open the installation that is about to be removed.

## 3. What the runs check

| run | instance | question |
|---|---|---|
| `store` | 3 operations, 2 plans, 2 bindings, 2 chats, 3 keys, 3 sources of 2 shares; any client | do the tables stay consistent whatever is asked? |
| `serial` | 1 caller, 3 plans and operations, 1 binding, 2 chats, a share and its rewording, human edits | is what the engine reports true, and does it implement `WriteOnce`? |
| `concurrent` | 2 callers, 2 plans and operations, 2 bindings and chats, a share that grows | what survives without the connector's mutex? |
| `recovery` | 1 caller, 2 plans and operations, no human, fairness | does recovery settle what landed? |
| `fresh_preview` | 1 caller, 2 plans and operations | can the advised fresh preview be applied? (violated) |
| `chat_sync` | 15 snapshots of one share, up to 3 messages, 3 edits of a human | is the write the change that was confirmed, and nobody's message but ours? |
| `share` | conversations of up to 5 nodes, 3 contents, limits of 4 nodes in all and 3 on a branch | is what is read the branch that is shown? |
| `tokens` | 2 clients, 2 families, 3 pairs, 1 request, 1 pair with failed statements, 2 ticks | who is let in, and who is not let down? |
| `token_revocation` | 1 family, 2 requests, no failing statement | does an answered revocation hold? (violated) |
| `consent` | 3 clients of which 2 may register, 3 pages, 2 submissions | is a decision final? |
| `store_file` | 3 processes, 3 files, 2 versions of the binary | who is inside, and on what? |
| `server` | 2 places for calls, each used again and again | do calls and shutdown end, and without cutting each other? |

**Store.**  `OneUnresolvedPerLock` is the partial unique index, maintained by statements
that change `status` without looking at other rows.  `EvidenceKept` says that the six-way
join of `validateAllowedBinding` succeeds for every binding for ever: a binding that
lost it could never be read or written again.  `AllowlistIsBacked`, `BaselineHistory` and
`ShareClaimedOnce` relate the tables; `TerminalIsFinal` and `VersionStep` are action
properties.  The client of this run is arbitrary: it claims any document as verified and
makes any legal or illegal transition.

**Serial.**  `BindingsOwnTheirChat`: the gate never
adopts a chat.  `BaselineIsOwnWrite`: no document a human touched becomes a baseline.
`SucceededIsVerified`, `FailedLeftNoTrace`: the two outcomes are true of Open WebUI, now
and later.  `OutstandingHoldsLock`: while a write may still land, nothing else is
planned on that chat.  `UpdatesReplaceTheBaseline`: a landing update replaces the very
document its plan was made from, up to an edit made after the reread.  Together with
`BaselineHistory` this says that updates form a chain.  `ImplementsWriteOnce`: `WriteOnce`
has three variables and six actions; the mapping reads an intent's state off the
operation's status and its write off `landed`, `wire` and `sent`.

**Concurrent.**  `SentOnceAfterRecorded` is the comment on `Recover`, "never retries an
uncertain write", over the whole life of an operation.  `OneChatPerShare`:
however often previewed, applied and recovered.  The guards of the store alone keep these
two and `SucceededIsVerified`, with one caller or two.  They do not keep
`FailedLeftNoTrace` and `OutstandingHoldsLock`: with two calls inside, `Recover` may hold a
record it read as prepared, find its plan expired (or, for an update, find the new
document at its reread), and mark it as failed after `Apply` has posted it, because
`failOperation` accepts every unresolved status and not only the one that was read.
The connector's mutex and the exclusive lock on the database
rule this out.  The model therefore states one caller as the assumption of the serial
properties; `server` and `store_file` check it, and section 4 proves it.

**Recovery.**  `LandedWritesSettle`: an unresolved operation whose write landed ends as
succeeded, if its chat is known: always for an update, for a create once the receipt
was recorded.  The excluded case is deliberate in the code (`service.go:567`): nothing
identifies such a chat safely.  `Edits` is empty, because an edit that stays makes
the document differ from the plan, and the engine then waits for a human on purpose.

**Fresh preview.**  A failed operation tells its user to "create a fresh preview"
(`service.go:616`).  The key of the new plan is the key of the failed operation, since
it is derived from the conversation, or from binding, version and source; `Apply`
therefore answers with the old record.  TLC shows a create that fails and a second
preview of the same share, ready to apply and never to be executed.  See `findings`.

**Chat sync.**  `WritesWhatFits` is the contract of `BuildSnapshot` for every snapshot over every
document a human can make: it fails on exactly the documents that cannot take the source
without moving somebody else's message (`Fits`, which mentions no graph algorithm), and what it
builds shows the source, keeps all others in place and is the same when built again.
`ApplicableIsBuildable`: `Preview` judges a projection of the document, and the document it
then builds must exist.  It says as well what a plan without change may hide.  The diff does not
compare creation times, nor the node id of a last message (`preview.go:125-133`; of any other it is
seen as a parent), but the document that `service.go:175` builds has them.  So that document can
differ from the chat although the status is `no_change`, and `executeNoChange` never writes it.  The property says that
these two are all that can differ, neither of which a chat shows as content, and that nothing differs if
the share still is what was applied.  `DiffIsTheWholeChange`: the lists that the user confirms are what the write
does, as far as ids, texts and the title go; nodes and times follow unlisted.  `MessagesStayInPlace`: over any number of updates, what was applied once is a prefix.
`DiffSeesEveryEdit` is about the diff by itself, as the offline preview of the command line uses
it, without the comparison of complete documents.

**Share.**  A page tells the branch twice, as a list and by the parents of the current node, and
every node twice.  `ReadsTheShownBranch` says of every page that parses, also of garbled ones, that
what is read is the selected messages above the current node in their order, where "above" is the least
set closed under parents and not the code's walk.  `CompleteHasNoGap`: a message that was not
understood is never hidden by those after it.  `UpdatesAreContinuations` needs the diff
as well: a conversation that went on is an update without conflict, up to the limits of
the parser, and one that shows another branch is not.

**Tokens.**  `OneLivePairPerFamily`, `AccessFollowsGrant` and `ReplayedFamilyIsGone` are about what is
stored, `AdmittedIsEntitled` about who is let in, and `UndisturbedGrantLives` is the other side: a client
whose answers all arrived and that did nothing wrong keeps its grant, whatever others
present, fail or crash.  A client that loses an answer and presents its old refresh token
ends its own family; the code means it so.  `ImplementsTokenFamily`: a family is
opened once, carried by one pair at a time, and never live again once it was over.

**Token revocation.**  The code deletes the access row and then the refresh row, outside of a
transaction.  A revocation that ends in between leaves a refresh token that still opens new
pairs; the client that revokes again by its access token is answered 200, because that row
is gone and nothing is found.  See `findings`.

**Consent.**  `DecisionIsFinal`: once the browser has seen a page's decision answered, no submission
of that page sent later is accepted, although the page itself is still shown.

**Store file.**  `OneProcessInside`, `InsideIsReady` and `InstallationIsKept`, with inits that fail and
remove by name while others create.  `InstallationIsKept` is the reason for `O_EXCL`.  An init that
is killed before its installations row leaves a file which `init` calls already initialized and
`open` not initialized; it has to be removed by hand.

**Server.**  `CallsAreSerial` is what `SyncService` assumes.  `OnlyLateCallsAreCut`: a call finds the store
closed under it only after the whole grace period, or when `Serve` failed by itself.  `StopEnds`: after a
signal `Run` returns with both databases closed, wherever it was.  `CallsEnd`: no call waits
for the mutex for ever, also behind calls whose client is gone.

### Bounds

- Ids are finite sets and a step that needs a fresh id when none is left is not taken;
  the numbers of plans, operations, bindings and chats in the table above are the only
  counters.  Three operations on a share are a create and two updates, or a create, a
  failed update and its successor: enough for a baseline to be replaced by the
  successor of a successor, and for a stale plan of either version.  Two bindings and
  two chats are what a second, wrong one needs.
- One share and two versions of it: every conflict of identity is between a source and its
  predecessor.  `reworded` keeps the messages and changes the text; `long` adds a message.
- `attempts`, `version` and `sent` have no bound of their own: the operations bound them.
- `StableIDs = TRUE` stands for `Options.AllowSyntheticStableSourceIdentity`, or equally for
  verified identities.  With it `FALSE` and unverified sources every changed share
  is a conflict, and the update path is never entered.
- `store` uses symmetry of operations, chats, plans and keys, which occur only as model
  values and in no temporal property that symmetry could invalidate (its two `PROPERTY`s
  are action properties).  The `SyncService` runs use none, because fresh ids are
  picked with `CHOOSE`.
- `chat_sync`: three messages are what a swap behind a kept beginning, a removal in the middle and an insertion before
  the end need; 3 edits are a reply, another branch shown, and the removal of what the reply hangs on.
  The snapshots change one thing each in order, text, title, identity, parser and completeness; one
  changes only what the diff does not look at (a later time, a time that is not given any more, the
  last node id), and one has another identity and no title.
  `StableIDs = TRUE`, as above.
- `share`: five nodes are two branches of three with a common root, or one of five; the
  limits are below that, so that a conversation outgrows both.  Garbled pages have one thing
  wrong, are read before the first apply, and are never applied.
- `tokens`: three pairs are one rotation in one family while the other family has its pair, or two
  rotations.  Codes and access tokens live for the tick they were made in, refresh tokens
  one longer, and two ticks pass: a code, an access token and a whole family expire, before and
  after a rotation.  Clients are
  symmetric; codes and pairs are picked with `CHOOSE` and are not.  `MaxFaults` bounds the pairs
  that failed statements touched, not the statements: 1 in `tokens`, 0 in `token_revocation`, which
  needs none.
- `consent`: three pages and one cookie are a current page and two stale ones.
- `store_file`: the third process is a crash's successor while the first two still race; a binary may
  be older or newer than the file.  Processes and files are symmetric.
- `server`: two places, because a call is over and its place used again; a third would wait
  like the second.
- Deadlock is checked in every run but `server`, where the process exits.  `StoreSpec` can always
  sweep; a service can always restart; a share can always change.

### Fairness

`Fairness` of `SyncService` has two parts.  Weak fairness of a call that is inside: every HTTP exchange has a
timeout and every store call returns, so a call advances or returns.  Strong fairness
of `RecoverStart` and of the recovery steps: an operator, told to check recovery again,
does so, and recovery is not cut short at the same step for ever.  Nothing is
assumed of Open WebUI (a write need never land, and the property asks only about
those that did), of new previews, or of `Post`.

`ServerSpec` assumes weak fairness of the steps of `Run` and of each call: goroutines run,
and every exchange has a timeout (`client.go`, `parser.go`'s fetch).  It assumes weak fairness of the end of the grace
period, a timer, and strong fairness of `Acquire`: a Go mutex in starvation mode is
handed to whoever has waited longest, so a waiter that finds it free again and again gets it.  Nothing is
assumed of signals, clients or the failure of `Serve`.

## 4. What is proved

For every value of the constants, so for any number of operations, bindings, chats, callers,
processes, clients and tokens, and for documents, conversations and pages of any size and shape,
TLAPS proves every safety property that the passing runs check, and both refinements.  Every
inductive invariant was model-checked on its own, on the instances of section 3, before it was
proved.

### The store (`SyncServiceProofs`, first part)

| theorem | property |
|---|---|
| `TypeCorrect` | `StoreTypeOK` |
| `LocksExclude` | `OneUnresolvedPerLock` |
| `ResolvedForEver` | `TerminalIsFinal` |
| `EvidenceIsNeverLost` | `EvidenceKept` and `AllowlistIsBacked` |
| `SharesAreClaimedOnce` | `ShareClaimedOnce` |
| `VersionsStep` | `VersionStep` |
| `BaselinesAreHistory` | `BaselineHistory` |

The argument runs in three layers.

1. **Types.**  One lemma per method; `StepTypeCorrect` collects them.
2. **What a step does to an operation.**  A present operation *continues* (its lock, kind and
   intent stay, it stays resolved once resolved); an absent one stays absent or *appears*,
   prepared, under a lock that nobody held, and then no other operation changes.  That is
   `OperationSteps`.  `LocksExclude` and `ResolvedForEver` follow from it: two operations that
   are unresolved after a step were both unresolved before, or one has just appeared
   under a free lock.
3. **What a step does to a binding.**  Only the two finalizers touch bindings, mappings,
   baselines and the allow-list (`OnlyResultsBind`); one *installs* version 1, the other
   *advances* a bound binding by one version (`Installs`, `Advances`).
   `EvidenceKept` is not inductive alone, as a new allow-list row could belong to an old
   binding: it is proved together with `AllowlistIsBacked`, and its rows survive because a
   succeeded create is terminal.  `BaselineHistory` is inductive given the types: the
   finalizers check that the operation has no baseline yet and that the next version
   is free.

### The engine (`SyncServiceProofs`, the other parts)

| theorem | property | callers |
|---|---|---|
| `ServiceTypeCorrect` | `ServiceTypeOK` | any |
| `NothingIsSentTwice` | `SentOnceAfterRecorded` | any |
| `SharesMakeOneChat` | `OneChatPerShare` | any |
| `ChatsAreNeverAdopted` | `BindingsOwnTheirChat` | any |
| `BaselinesAreOwnWrites` | `BaselineIsOwnWrite` | any |
| `SuccessIsVerified` | `SucceededIsVerified` | any |
| `EngineLocksExclude`, `EngineNeverReopens`, `EngineVersionsStep` | `OneUnresolvedPerLock`, `TerminalIsFinal`, `VersionStep`, now of the engine | any |
| `OutstandingWritesAreLocked` | `OutstandingHoldsLock` | one |
| `FailureLeavesNoTrace` | `FailedLeftNoTrace` | one |
| `UpdatesReplaceWhatWasRead` | `UpdatesReplaceTheBaseline` | one |
| `EngineImplementsWriteOnce` | `ImplementsWriteOnce` | one |

TLC checks `BindingsOwnTheirChat` and `BaselineIsOwnWrite` with one caller; the theorems show
that they need no such assumption, only the guards of the store.

`ServiceInv` is the inductive invariant for any number of callers.  None of the properties is
inductive, because each rests on what a call still carries in its local variables after
the store has moved on.  It says, part by part: what a plan may ask for
(`PlansFit`); how the columns of an operation and its plan fit together at each
status (`OpsFit`: attempts, receipt and evidence appear in an order and never go);
that what is on the wire or has landed was attempted and sent once, under the marks of its
operation (`WritesFit`); that a chat carries the mark of the create that made it (`ChatsFit`); that a
binding stands for that chat (`BindingsFit`) and a baseline for a document the gate
built (`BaselinesFit`); what a call at each of its steps knows for certain, which
is only what no other call can take away from it (`CallsFit`); and that a caller at
`post` is the only one there for its operation, with nothing of it sent yet
(`PostsFit`).  The last is the heart of `NothingIsSentTwice`: `TransitionOperation` to
`applying` succeeds once, and it is what `Post` follows.

The proof first says what each store method leaves alone and what it changes (`StorePersists`,
`Prepares`, `Moves`, `Succeeds`, `Sweeps`), then sorts the actions by what they touch (`Quiet`,
`Planning`, `Preparing`, `Moving`, `Finishing`, `Outside`), and shows one part of the invariant at
a time for each kind.

`SerialInv` adds what is true of one caller: `CallsInStep`, the status of the operation that the
call holds is the one it read, and a call at `fail` has left nothing behind; `LocksFit`, an
operation holds the lock of its plan.  `CallsInStep` is exactly what a second caller breaks (section 3,
*Concurrent*).  `BaseInv` adds that a write on its way to a chat still meets the
document of its plan there, up to a human's edit; its step lemma needs `OutstandingHoldsLock` and
`OneUnresolvedPerLock`, since another update of that chat is what could come between.  The
refinement maps each step to one of `WriteOnce` or to none (`StepImplements`).

### The assumption of one caller (`GateServerProofs`, `StoreFileProofs`)

| theorem | property |
|---|---|
| `ServiceIsEnteredByOne` | `CallsAreSerial` |
| `ShutdownWaitsForCalls` | `OnlyLateCallsAreCut` |
| `InstallationIsEnteredByOne` | `OneProcessInside` |
| `EnteredIsReady` | `InsideIsReady` |
| `InstallationStays` | `InstallationIsKept` |

`ServerInv`: who is inside holds the mutex (`InsideHolds`); the store is open from its
opening until `Run` comes to close it (`StoreServes`); the grace period comes once, with the
shutdown (`GraceInOrder`); a call that is still there after the shutdown is a late one
(`StragglersAreLate`).

`FileInv` says who may still remove the file that the path names.  Past the exclusive
create there is one init at a time, its file is the one of the path, and no installation
was reported yet (`OnePendingInit`): that is why its removal by name, deferred and blind, removes
its own file.  With `ConnectionsFit` and `LocksFit` (who works on a file has it open and holds its
lock) and `InstallationsFit` (an installation is in the file of the path) it is inductive.  Two
processes inside would hold the lock of one file, the one of the path.

### The OAuth server (`ConsentProofs`, `TokenStoreProofs`)

| theorem | property |
|---|---|
| `ConsentTypeCorrect` | `ConsentTypeOK` |
| `DecisionsAreFinal` | `DecisionIsFinal` |
| `TokenTypeCorrect` | `TokenTypeOK` |
| `TokensRotate` | `OneLivePairPerFamily` |
| `AccessEndsWithGrant` | `AccessFollowsGrant` |
| `ReplayEndsFamily` | `ReplayedFamilyIsGone` |
| `HonestClientsKeepTheirGrant` | `UndisturbedGrantLives` |
| `AdmissionIsEntitled` | `AdmittedIsEntitled` |
| `ServerImplementsFamilies` | `ImplementsTokenFamily` |

`ConsentInv`: the cookie is never that of a decided page (`JarIsUndecided`), and so a form that is
sent later came with another cookie than its page's (`LateFormsDiffer`).

`TokenInv` relates the rows to the history of their family (`KinshipFits`): a code is good for one
pair, so a family has one pair that began it, and every other pair was made of one before.  The
four state properties of the table are proved as one: that a replayed family stays empty needs that an exchanged
pair has no row (`ExchangedHasNoAccess`), which needs that one pair is live; and a revocation
between its two statements has disturbed its family and has taken the access row
first (`RevocationsFit`).  A step of the server is then, for the family it is about, one
that offers a grant, one that carries or ends it, or one that declines a code
(`OfferStep`, `CarryStep`, `DeclineStep`; `Tick` ends all expired families together): these are the
actions of `TokenFamily`.

### Chat documents (`ChatSyncProofs`)

| theorem | property |
|---|---|
| `AlwaysALine`, `AlwaysEditedFrom` | the invariants `BaseInv` and `SyncInv` |
| `AlwaysWritesWhatFits` | `WritesWhatFits` |
| `AlwaysBuildable` | `ApplicableIsBuildable` |
| `EveryEditIsSeen` | `DiffSeesEveryEdit` |
| `DiffIsTheWholeUpdate` | `DiffIsTheWholeChange` |
| `AppliedStaysInPlace` | `MessagesStayInPlace` |

`BaseInv`: the verified document is a *line*, the messages of the snapshot applied last, one
below the other, under names the gate gave and with their texts, nodes and the times that are given, and nothing else.  A ready plan extends the source
at its end (`Preview` has no conflict otherwise), so the write makes of one line a
longer one.  This is enough for everything that is said of a plan and its write.  When there is no
change, the line is written over by one of the same messages, and what can differ is what the diff
leaves out (`AlwaysBuildable`).

`WritesWhatFits` and `DiffSeesEveryEdit` speak of the chat, which a human may have edited, and
nothing about single messages is inductive there: that a document is built at all
rests on its being one tree, and the place of a message on what was removed before it.
`EditedFrom` relates the chat to the document it was: it is one tree (`IsTree`: one root, parents
and children agree, and `Grounded`, no message above itself) with the old root; a message that has a source is one
of the old ones with its old source; and while no old message is gone, they have their old parents and
their order among siblings.  One lemma per kind of edit shows that it is kept.

What carries the rest is what the recursive definitions return, for every tree.  The visit of
a grounded document from its root lists every message once, and is the one that `normalizeChat`
asks for; the way up from a message lists its ancestors.  For a chat that is one tree,
`BuildSnapshot` succeeds exactly if `Fits`: what it writes is again one tree, with the branch as a
path from its root; the other way, a parent, a root or a child that is not the source's
contradicts one of the links that `IsWhole` demands.

### The share (`ShareLifeProofs`)

| theorem | property |
|---|---|
| `AlwaysReadAsApplied` | the invariant `LifeInv` |
| `AlwaysReadsTheShownBranch` | `ReadsTheShownBranch` |
| `AlwaysCompleteHasNoGap` | `CompleteHasNoGap` |
| `AlwaysContinued` | `UpdatesAreContinuations` |

The first two properties hold of any page that parses, garbled or not, whatever graph it holds: every
stage of the climb is a chain of parents (`AncestryIsChain`), and once the chain is rooted, what is
above a node is what comes before it (`AboveInChain`), which is the set `UpSet` that the
property is stated with.  `LifeInv` serves the third: a conversation has its nodes below
earlier ones (`ConvInv`), the page has none without a name (`PageInv`), and the snapshot applied
last is what would still be read of the branch it was made of (`AppliedInv`), which the
conversation does not change by going on.  The rooted chain to a node is unique (`RootedIsUnique`), so the
list in a published page is the chain that the parser climbs; a list that begins with the applied
branch is read as something that begins with what was applied (`ReadPrefix`), and the diff has no
conflict with that.  The limits are exact: a published page is refused only beyond them.

### Recursion (`ListProofs`)

The visit of a tree, the climb of a chain and the loops that copy a part of a list (`Only`) are
recursive functions, so that proofs can look into them.  The induction they need is got
without the library's induction theorems: a set of numbers has a least
one (`LeastNumber`, from the library's well-founded relation on the naturals), so a set that has 0 and
with n also n + 1 has all of them (`UpTo`); a function that is defined
by recursion on a number is the function it says, because one with these values exists
(`RecursionIsDefined`); and what holds of the empty sequence and is kept by `Append` holds of every
sequence (`SequencesGrow`).  Each is stated with a set or a function, never with an operator as
parameter.

### From what

Every assumption is named beside the constants it is about and evaluated by TLC.

- Values: the sources of the engine are source records (`SourcesAssumption` of `GateData`), the empty string is no id
  (`NoneAssumption`), no document or plan (`AbsentAssumption`) and no allow-list row
  (`RowsAssumption`); a client's requests have their own shape (`InputsAssumption`).  Likewise
  `NoneIsNoCall`, `NoneIsNoId` and the two `NoneIsNothing` of the other machines.
- Numbers: bounds, limits and lifetimes are naturals (`NewestAssumption`, `LimitAssumption`,
  `Lifetimes`, `FaultsAssumption`, `SyncAssumption`, `LimitsAssumption`, `SizeAssumption`).
- Documents: a source has messages, each with an id of its own (`SourcesAssumption` of `ChatGraph`),
  which `BuildSnapshot` asks for before it builds anything (`snapshot.go:93-115`); a message of the human's has
  no id that is a digest of the gate's, and no id is the empty string (`NamesAssumption`).  The
  second is what a hash and a random id give with overwhelming probability.
- Conversations: the nodes are numbers, and no number is the absent node (`NoneAssumption` of `ShareLife`).

Two facts are hypotheses of the theorems about the engine.  `DigestsCovered`: every key and payload
that the engine computes is one the store can hold.  It is true of any sets of all digests; it is
no `ASSUME`, because it speaks of all plan rows, with versions of any size, and TLC cannot
enumerate them.  `OneCaller`: there is one caller at a time; `connector.go:71` and
`store.go:180` are why, and `ServiceIsEnteredByOne` and `InstallationIsEnteredByOne` are the proofs
that they work.  No set need be finite.

### What is only model-checked

- `LandedWritesSettle`, `StopEnds` and `CallsEnd`: liveness under fairness is out of the
  prover's reach.
- That the two findings are violations: a counterexample is TLC's to give.

## 5. What is not modelled

- The configuration: read once, in a fixed order of precedence; a model would restate its
  assignments.  The command line's flags, printing and the files of the offline preview.
- In the share reader, `extractTables`, the decoder of references between table entries, the search
  for the one conversation, and the request itself; `MaxParts`, `MaxTextBytes` and how the times of
  messages are read off the page (what a document then holds of them is in `ChatGraph`).  What is modelled begins where a conversation has been decoded.
- In the OAuth server, the metadata documents, redirects and the shape of single requests; in the
  client, `VerifyIdentity` beyond its outcome.
- Two inits at once of which one fails *between* the removals of its cleanup.
- The acceptance script, the encoding of rows, hashes, file permissions, TLS, logging.
- The wording of results; only which operation is returned as what.
- Damage to the database file.
- An Open WebUI that answers one write with the receipt of another.

## 6. State of the project

Every module is modelled, checked and proved about.  What would come next, in this order:

1. The decoder of references between table entries (`extractTables`), with a module of its own below
   `ShareParse`: a pure recursion over the table, checked against a reference definition.
2. A second version of `StoreFile` in which the removals of a cleanup are single steps.
3. A composition of `SyncService` with `GateServer`, instead of the shared statement that one call is
   inside.
