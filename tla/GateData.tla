------------------------------- MODULE GateData -------------------------------
(* The values the gate works on: parsed ChatGPT shares (domain.SourceSnapshot),
   Open WebUI chat documents (owu.Snapshot), sync plans (storage.StoredPlan)
   and the identities derived from them.

   A share keeps what the sync engine tells apart: its link, the conversation
   it came from, the ids of its messages, their text, whether every item was
   understood and whether its identity was verified.  A chat document keeps the
   managed messages, their text, the mark of a human edit and the two operation
   ids of the bridge metadata.  Two documents are equal exactly when their
   conflict hashes (owu.hashRelevant) are.                                    *)
EXTENDS Naturals

CONSTANTS
  Operations,     \* operation ids (newID("op"))
  Plans,          \* plan ids (newID("plan"))
  Bindings,       \* binding ids (newID("binding"))
  Chats,          \* chat ids Open WebUI hands out
  Shares,         \* share links
  Conversations,  \* candidate conversation ids found in a share
  Messages,       \* source message ids
  Texts,          \* contents
  Sources,        \* the parsed shares of this instance
  Edits,          \* what a human may have made of a chat
  Pristine,       \* the mark of a chat nobody edited
  StableIDs,      \* Options.AllowSyntheticStableSourceIdentity
  None            \* the empty string of the code

SourceRow ==
  [share: Shares, conversation: Conversations \cup {None},
   messages: SUBSET Messages, text: Texts,
   complete: BOOLEAN, verified: BOOLEAN]

ASSUME SourcesAssumption == Sources \subseteq SourceRow

ASSUME NoneAssumption ==
  None \notin Operations \cup Plans \cup Bindings \cup Chats \cup Sources

-------------------------------------------------------------------------------
(* Chat documents *)

Marker == Operations \cup {None}

Docs == [messages: SUBSET Messages, text: Texts, edit: Edits \cup {Pristine},
         by: Marker, last: Marker]

\* BuildSnapshot(source, nil): the first document of a conversation.
BuildFresh(s) ==
  [messages |-> s.messages, text |-> s.text, edit |-> Pristine,
   by |-> None, last |-> None]

\* BuildSnapshot(source, &current): existing messages are never deleted and
\* what the gate does not manage is carried over.
BuildFrom(s, current) ==
  [current EXCEPT !.messages = @ \cup s.messages, !.text = s.text]

\* Wrong: every write claims to have created the chat.
StampAsCreator(doc, o, create) == [doc EXCEPT !.last = o, !.by = o]

\* requestBody: the document as posted, stamped with the operation.
Stamp(doc, o, create) ==
  [doc EXCEPT !.last = o, !.by = IF create THEN o ELSE @]

\* hasOperationMarker
HasOperationMarker(doc, o, create) ==
  /\ doc.last = o
  /\ create => doc.by = o

\* Wrong: unknown and human metadata is not compared.
MatchesContent(actual, desired) ==
  actual.messages = desired.messages /\ actual.text = desired.text

\* MatchSnapshot / comparableChats: the receipt marker is ignored, the creation
\* marker is compared only when the plan already knew it.
MatchesPlanned(actual, desired) ==
  /\ actual.messages = desired.messages
  /\ actual.text = desired.text
  /\ actual.edit = desired.edit
  /\ desired.by # None => actual.by = desired.by

-------------------------------------------------------------------------------
(* Plans *)

PlanStatus == {"ready", "no_change", "conflict", "unsupported_content"}

PlanRow ==
  [binding: Bindings \cup {None}, version: Nat, src: Sources,
   prev: Sources \cup {None}, expected: Docs \cup {None}, desired: Docs,
   status: PlanStatus, confirmed: BOOLEAN]

\* No document and no plan is not one of them.
ASSUME AbsentAssumption == None \notin Docs /\ None \notin PlanRow

\* verifiedSameSource
VerifiedSameSource(prev, cur) ==
  /\ prev.verified /\ cur.verified
  /\ prev.conversation # None
  /\ prev.conversation = cur.conversation

\* The source conflicts of diff.Preview for a bound target.
UpdateConflict(prev, cur) ==
  \/ /\ prev.conversation # None
     /\ cur.conversation # None
     /\ prev.conversation # cur.conversation
  \/ ~(prev.messages \subseteq cur.messages)
  \/ ~(StableIDs \/ VerifiedSameSource(prev, cur)) /\ prev # cur

SourceChanged(prev, cur) ==
  prev.messages # cur.messages \/ prev.text # cur.text

CreateStatus(cur) == IF cur.complete THEN "ready" ELSE "unsupported_content"

\* The whole-document comparison comes last in Service.Preview and overrides
\* even unsupported_content.
UpdateStatus(prev, cur, base, target) ==
  IF target # base THEN "conflict"
  ELSE IF ~cur.complete THEN "unsupported_content"
  ELSE IF UpdateConflict(prev, cur) THEN "conflict"
  ELSE IF SourceChanged(prev, cur) THEN "ready" ELSE "no_change"

\* Service.Preview without and with a binding.
CreatePlan(s) ==
  [binding |-> None, version |-> 0, src |-> s, prev |-> None,
   expected |-> None, desired |-> BuildFresh(s),
   status |-> CreateStatus(s), confirmed |-> FALSE]

UpdatePlan(s, b, version, prev, base, target) ==
  LET status == UpdateStatus(prev, s, base, target) IN
  [binding |-> b, version |-> version, src |-> s, prev |-> prev,
   expected |-> target,
   desired |-> IF status \in {"ready", "no_change"} THEN BuildFrom(s, target)
                                                    ELSE target,
   status |-> status, confirmed |-> FALSE]

-------------------------------------------------------------------------------
(* Identities *)

\* createIdempotencyKey, updateIdempotencyKey
KeyOf(row) ==
  IF row.binding # None
    THEN <<"update", row.binding, row.version, row.src>>
    ELSE IF row.src.conversation # None
           THEN <<"create", row.src.conversation>>
           ELSE <<"create", "snapshot", row.src>>

\* The semantic payload of operationIdentity.
PayloadOf(row) ==
  [binding |-> row.binding, src |-> row.src, prev |-> row.prev,
   expected |-> row.expected, desired |-> row.desired]

\* The lock keys of PrepareCreate and PrepareBindingOperation.
CreateLock(s) == <<"create", s.share>>
BindingLock(b) == <<"binding", b>>
Locks == {<<"create", h>> : h \in Shares} \cup {<<"binding", b>> : b \in Bindings}
===============================================================================
