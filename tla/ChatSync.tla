------------------------------ MODULE ChatSync ------------------------------
(***************************************************************************)
(* The life of one bound chat, seen as documents: the share changes, the   *)
(* human edits the chat, and the gate previews and applies.  It composes   *)
(* SourceDiff and ChatGraph the way Service.Preview does; what lies        *)
(* between preview and write (confirmation, rereading, receipts, crashes)  *)
(* is SyncService, which applies a plan only to the very document it was   *)
(* made from.                                                              *)
(***************************************************************************)
EXTENDS ChatGraph, SourceDiff

CONSTANTS
  StableIDs,  \* Options.AllowSyntheticStableSourceIdentity
  MaxEdits    \* bound: edits of the human's since the chat was last as verified

ASSUME SyncAssumption == StableIDs \in BOOLEAN /\ MaxEdits \in Nat

VARIABLES
  share,   \* the snapshot that the share gives now
  prev,    \* the snapshot that was applied last
  base,    \* the document that was verified last, the baseline
  chat,    \* the document in Open WebUI
  edits    \* edits since it was last as verified, for the bound

vars == <<share, prev, base, chat, edits>>

\* A first snapshot, applied whole and free of anything that was not understood.
SyncInit ==
  /\ share \in {s \in Sources : ~s.partial}
  /\ prev = share
  /\ base = BuildSnapshot(share, Empty) /\ base # None
  /\ chat = base
  /\ edits = 0

\* verifiedSameSource, or the option.
Stable == StableIDs \/ (prev.candidate # "" /\ prev.candidate = share.candidate)

Diff == Preview(prev, share, Normalized(base), Normalized(chat), Stable)

\* Wrong: the complete document is not compared, only its messages.
MatchesProjection == Normalized(chat).msgs = Normalized(base).msgs

MatchesBaseline == chat = base

\* Service.Preview: the diff's status, unless anything else of the document differs.
Status == IF MatchesBaseline THEN Diff.status ELSE "conflict"

-----------------------------------------------------------------------------
ShareChanges ==
  /\ share' \in Sources
  /\ UNCHANGED <<prev, base, chat, edits>>

HumanEdits ==
  /\ edits < MaxEdits
  /\ edits' = edits + 1
  /\ chat' \in Edits(chat)
  /\ UNCHANGED <<share, prev, base>>

\* The human takes back whatever was changed.
HumanReverts ==
  /\ chat' = base
  /\ edits' = 0
  /\ UNCHANGED <<share, prev, base>>

\* A ready plan is applied and verified.
Apply ==
  /\ Status = "ready"
  /\ Buildable(share, chat)
  /\ chat' = BuildSnapshot(share, chat)
  /\ base' = chat'
  /\ prev' = share
  /\ edits' = 0
  /\ UNCHANGED share

SyncNext == ShareChanges \/ HumanEdits \/ HumanReverts \/ Apply

SyncSpec == SyncInit /\ [][SyncNext]_vars

-----------------------------------------------------------------------------
SrcIn(doc) == {doc.msgs[m].src : m \in Ids(doc)} \ {None}
TextIn(doc, id) == doc.msgs[CHOOSE m \in Ids(doc) : doc.msgs[m].src = id].text

\* When a source can be written over a document at all: nothing is left below its last
\* message, and no message outside of the source is the root or the parent of one inside.
Fits(s, doc) ==
  LET inside == {m \in Ids(doc) : doc.msgs[m].src \in SourceIds(s)}
      end == s.msgs[Len(s.msgs)].id
  IN  /\ \A m \in inside : doc.msgs[m].src = end => ChildSet(doc, m) \subseteq inside
      /\ \A m \in Ids(doc) \ inside :
           doc.msgs[m].parent # None /\ ChildSet(doc, m) \cap inside = {}

\* The chat shows the source: its title, or the one for a source without, its messages in
\* order, with their texts, their nodes and the times that are known.
Shows(doc, s) ==
  /\ doc.title = TitleOf(s)
  /\ [i \in DOMAIN doc.active |-> doc.msgs[doc.active[i]].src]
       = [i \in Positions(s) |-> s.msgs[i].id]
  /\ \A i \in Positions(s) :
       LET msg == doc.msgs[doc.active[i]]
       IN  /\ msg.text = s.msgs[i].text /\ msg.node = s.msgs[i].node
           /\ s.msgs[i].time # None => msg.time = s.msgs[i].time

\* Every message that the source does not name keeps its text and its place under the same
\* parent, which still lists it in the same order among the others.
KeepsOthers(old, new, s) ==
  LET others == {m \in Ids(old) : old.msgs[m].src \notin SourceIds(s)}
  IN  /\ others \subseteq Ids(new)
      /\ \A m \in others :
           new.msgs[m].text = old.msgs[m].text /\ new.msgs[m].parent = old.msgs[m].parent
      /\ \A n \in Ids(old) :
           Only(new.msgs[n].children, others) = Only(old.msgs[n].children, others)

\* The contract of BuildSnapshot ("existing messages are never deleted", snapshot.go:81), for
\* every snapshot over every document that a human can make of the chat: it fails on exactly
\* the documents that cannot take the source without moving somebody else's message; what
\* it builds shows the source, keeps the others in place, and building again changes nothing.
WritesWhatFits ==
  LET built == BuildSnapshot(share, chat)
      buildable == Buildable(share, chat) IN
  /\ buildable <=> Fits(share, chat)
  /\ buildable =>
       /\ Shows(built, share)
       /\ KeepsOthers(chat, built, share)
       /\ BuildSnapshot(share, built) = built

\* What the user confirms is what the write does to what a chat shows: the messages it adds
\* and those whose text it changes are the two lists of the plan, it removes none, and the
\* title changes only if the plan says so, to the one the plan is made for.  (A source that
\* is now titled as an untitled one is shown is a change of the source alone.  Node ids and
\* creation times are brought up to date with the rest; no list of the plan names them.)
DiffIsTheWholeChange ==
  [][prev' # prev =>
       LET added == SrcIn(chat') \ SrcIn(chat)
           changed == {id \in SrcIn(chat) : TextIn(chat', id) # TextIn(chat, id)}
       IN  /\ added = Diff.added /\ changed = Diff.modified
           /\ SrcIn(chat) \subseteq SrcIn(chat')
           /\ IF Diff.title = "sync_source" THEN chat'.title = TitleOf(prev')
              ELSE chat'.title = chat.title]_vars

\* A ready plan appends: over any number of updates, the messages that were applied once
\* stay the beginning of the conversation, in the same order.  This is what the
\* comparison of order and parents is for.
MessagesStayInPlace ==
  [][prev' # prev =>
       IsPrefix([i \in Positions(prev) |-> prev.msgs[i].id],
                [i \in Positions(prev') |-> prev'.msgs[i].id])]_vars

\* What a chat shows of a document, without the node ids and creation times that the gate
\* keeps in it and that the comparison of two sources leaves out (preview.go:125-133).
Visible(doc) ==
  [doc EXCEPT !.msgs = [m \in Ids(doc) |-> [doc.msgs[m] EXCEPT !.node = None, !.time = None]]]

\* A plan that may be applied can be built: Preview never fails on what its own diff let
\* pass (service.go:178).  And a plan without change hides no change that anybody sees: the
\* document built for it, which is not written (service.go:175), differs from the chat at
\* most in creation times and in the node id of the last message, the one that is no
\* message's parent; and if the share is still the one applied, in nothing.
ApplicableIsBuildable ==
  /\ Status \in {"ready", "no_change"} => Buildable(share, chat)
  /\ Status = "no_change" =>
       LET built == BuildSnapshot(share, chat) IN
       /\ Visible(built) = Visible(chat)
       /\ \A m \in Ids(chat) \ {chat.current} : built.msgs[m].node = chat.msgs[m].node
       /\ share = prev => built = chat

\* The diff by itself, as the command line's offline preview uses it, without the comparison
\* of complete documents: it finds nothing to object to only if the human changed at most
\* the title, and texts to what the source says now.
DiffSeesEveryEdit ==
  Diff.status \in {"ready", "no_change"} =>
    /\ Ids(chat) = Ids(base) /\ chat.current = base.current
    /\ \A m \in Ids(base) :
         /\ chat.msgs[m].parent = base.msgs[m].parent
         /\ chat.msgs[m].children = base.msgs[m].children
         /\ chat.msgs[m].text = base.msgs[m].text
              \/ \E i \in Positions(share) :
                   share.msgs[i].id = base.msgs[m].src /\ share.msgs[i].text = chat.msgs[m].text
=============================================================================
