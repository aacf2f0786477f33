----------------------------- MODULE ChatGraph -----------------------------
(***************************************************************************)
(* Chat documents: the graph of messages of internal/owu/snapshot.go, how  *)
(* BuildSnapshot writes a source snapshot over a document, and what        *)
(* normalizeChat accepts; with the edits that a human can make in Open     *)
(* WebUI (external).                                                       *)
(*                                                                         *)
(* A document is [title, current, active, msgs]: msgs maps a target id to  *)
(* [parent, children, src, node, text, time], where src and node are the   *)
(* source message and the source node that the gate's metadata names, or   *)
(* None for a message of the human's own, time is the creation time that   *)
(* the gate wrote, or None, and active is the list that the chat shows.    *)
(* Role, channel and parts are one text; unknown fields are carried over   *)
(* with their message.                                                     *)
(***************************************************************************)
EXTENDS Naturals, Sequences, FiniteSets, SequencesExt, Filtering

CONSTANTS
  None,      \* no parent, no source message, no document
  HumanIds,  \* ids of messages that the human adds
  Texts,     \* texts that the human may write
  Sources    \* source snapshots: [title, basis, msgs, ...], msgs a sequence of
             \* [id, node, text, time] as the parser lists them, the time None
             \* where the share gives none

Positions(s) == DOMAIN s.msgs
SourceIds(s) == {s.msgs[i].id : i \in Positions(s)}

\* The names that the gate gives to the messages it adds.
GateNames == UNION {{<<s.basis, id>> : id \in SourceIds(s)} : s \in Sources}

\* What the parser lists (Identified, and a share without messages is an error) and what
\* BuildSnapshot asks for once more: messages, each with an id of its own.
ASSUME SourcesAssumption ==
  \A s \in Sources :
    /\ s.msgs \in Seq(ToSet(s.msgs)) /\ s.msgs # <<>>
    /\ \A i, j \in Positions(s) : s.msgs[i].id = s.msgs[j].id => i = j
    /\ None \notin SourceIds(s)

\* A digest is the id of no message of the human's, and no id is the absent one.
ASSUME NamesAssumption == GateNames \cap HumanIds = {} /\ None \notin GateNames \cup HumanIds

Ids(doc) == DOMAIN doc.msgs
Roots(doc) == {m \in Ids(doc) : doc.msgs[m].parent = None}
ChildSet(doc, m) == ToSet(doc.msgs[m].children)

\* The ancestors of a message, from the root down to itself.
PathTo(doc, m) ==
  LET climb[n \in 0..Cardinality(Ids(doc))] ==
        IF n = 0 THEN <<m>>
        ELSE LET path == climb[n - 1]
                 above == doc.msgs[Head(path)].parent
             IN  IF above = None THEN path ELSE <<above>> \o path
  IN  climb[Cardinality(Ids(doc))]

\* The order in which normalizeChat visits the messages below a root.
Preorder(doc, root) ==
  LET visit[n \in 0..Cardinality(Ids(doc))] ==
        [m \in Ids(doc) |->
           LET children == doc.msgs[m].children
           IN  IF n = 0 THEN <<m>>
               ELSE <<m>> \o FlattenSeq([i \in DOMAIN children |-> visit[n - 1][children[i]]])]
  IN  visit[Cardinality(Ids(doc))][root]

LinksAgree(doc) ==
  \A m \in Ids(doc) :
    /\ IsInjective(doc.msgs[m].children)
    /\ \A c \in ChildSet(doc, m) : c \in Ids(doc) /\ doc.msgs[c].parent = m
    /\ LET p == doc.msgs[m].parent
       IN  p # None => p \in Ids(doc) /\ m \in ChildSet(doc, p)

\* What normalizeChat accepts: one tree, a current leaf, and an active list that is the
\* branch of that leaf.
IsWhole(doc) ==
  /\ Cardinality(Roots(doc)) = 1
  /\ LinksAgree(doc)
  /\ doc.current \in Ids(doc) /\ doc.msgs[doc.current].children = <<>>
  /\ Len(Preorder(doc, CHOOSE r \in Roots(doc) : TRUE)) = Cardinality(Ids(doc))
  /\ doc.active = PathTo(doc, doc.current)

\* The projection it returns for a document it accepts.
Normalized(doc) ==
  LET order == Preorder(doc, CHOOSE r \in Roots(doc) : TRUE)
  IN  [title |-> doc.title, current |-> doc.current,
       msgs |-> [i \in DOMAIN order |->
                   [id |-> order[i], src |-> doc.msgs[order[i]].src,
                    text |-> doc.msgs[order[i]].text,
                    managed |-> doc.msgs[order[i]].src # None]]]

-----------------------------------------------------------------------------
\* The name of a message the gate adds: a digest of the source's identity (the candidate
\* id, else the share) and the id of the source message.
DeterministicMessageID(s, id) == <<s.basis, id>>

\* Wrong: a message is always looked for under the name it would get today.
NameOfToday(s, doc, id) == DeterministicMessageID(s, id)

\* A message that the document already has for this source message keeps its name.
TargetID(s, doc, id) ==
  LET existing == {m \in Ids(doc) : doc.msgs[m].src = id}
  IN  IF existing = {} THEN DeterministicMessageID(s, id)
      ELSE CHOOSE m \in existing : TRUE

Duplicated(doc) ==
  \E m, n \in Ids(doc) : m # n /\ doc.msgs[m].src # None /\ doc.msgs[m].src = doc.msgs[n].src

PreservedUnmanagedChildren(doc, m, managed) ==
  IF m \in Ids(doc) THEN Only(doc.msgs[m].children, ChildSet(doc, m) \ managed)
  ELSE <<>>

\* Messages of the document that the source does not name stay as they are.
OverDocument(doc, written) ==
  [m \in Ids(doc) \cup DOMAIN written |->
     IF m \in DOMAIN written THEN written[m] ELSE doc.msgs[m]]

TextOf(s, doc, targets, i) == s.msgs[i].text

\* A creation time is written only if the source has one.
TimeOf(s, doc, m, i) ==
  IF s.msgs[i].time = None /\ m \in Ids(doc) THEN doc.msgs[m].time ELSE s.msgs[i].time

\* The source's messages as one branch, each before the other children it had.
Branch(s, doc, targets) ==
  [m \in ToSet(targets) |->
     LET i == CHOOSE j \in DOMAIN targets : targets[j] = m
         kept == PreservedUnmanagedChildren(doc, m, ToSet(targets))
     IN  [parent |-> IF i = 1 THEN None ELSE targets[i - 1],
          children |-> IF i = Len(targets) THEN kept ELSE <<targets[i + 1]>> \o kept,
          src |-> s.msgs[i].id, node |-> s.msgs[i].node,
          text |-> TextOf(s, doc, targets, i), time |-> TimeOf(s, doc, m, i)]]

Empty == [title |-> "", current |-> None, active |-> <<>>, msgs |-> <<>>]

TitleOf(s) == IF s.title = "" THEN "Imported ChatGPT conversation" ELSE s.title

Written(s, doc) ==
  LET targets == [i \in Positions(s) |-> TargetID(s, doc, s.msgs[i].id)]
  IN  [title |-> TitleOf(s), current |-> Last(targets), active |-> targets,
       msgs |-> OverDocument(doc, Branch(s, doc, targets))]

\* Wrong: what was built is not read back.
BuildUnread(s, doc) == ~Duplicated(doc)

\* BuildSnapshot: an error, or a document that normalizeChat accepts.
Buildable(s, doc) == ~Duplicated(doc) /\ IsWhole(Written(s, doc))
BuildSnapshot(s, doc) == IF Buildable(s, doc) THEN Written(s, doc) ELSE None

-----------------------------------------------------------------------------
\* What a human does to a chat in Open WebUI (external).  Each leaves one tree whose
\* active list is the branch shown.
Shown(doc, m) == [doc EXCEPT !.current = m, !.active = PathTo(doc, m)]

Replied(doc, m, h, t) ==
  LET added == [doc EXCEPT
        !.msgs = [n \in Ids(doc) \cup {h} |->
          IF n = h THEN [parent |-> m, children |-> <<>>, src |-> None, node |-> None,
                         text |-> t, time |-> None]
          ELSE IF n = m THEN [doc.msgs[m] EXCEPT !.children = Append(@, h)]
          ELSE doc.msgs[n]]]
  IN  Shown(added, h)

Reworded(doc, m, t) == [doc EXCEPT !.msgs[m].text = t]

\* A deleted message hands its children to its parent; the chat shows some leaf.
Removals(doc, m) ==
  LET p == doc.msgs[m].parent
      below == doc.msgs[m].children
      left == [doc EXCEPT
        !.msgs = [n \in Ids(doc) \ {m} |->
          IF n = p THEN [doc.msgs[p] EXCEPT !.children =
                           Only(@, ChildSet(doc, p) \ {m}) \o below]
          ELSE IF n \in ToSet(below) THEN [doc.msgs[n] EXCEPT !.parent = p]
          ELSE doc.msgs[n]]]
  IN  {Shown(left, leaf) : leaf \in {n \in Ids(left) : left.msgs[n].children = <<>>}}

Leaves(doc) == {m \in Ids(doc) : doc.msgs[m].children = <<>>}

\* Every document that one edit of the human's can leave.
Edits(doc) ==
  {Replied(doc, mh[1], mh[2], "human") : mh \in Ids(doc) \X (HumanIds \ Ids(doc))}
  \cup {Reworded(doc, mt[1], mt[2]) : mt \in Ids(doc) \X Texts}
  \cup {Shown(doc, m) : m \in Leaves(doc)}
  \cup {[doc EXCEPT !.title = "human"]}
  \cup UNION {Removals(doc, m) : m \in Ids(doc) \ Roots(doc)}

=============================================================================
