---------------------------- MODULE ShareParse -----------------------------
(***************************************************************************)
(* What buildSnapshot (internal/source/chatgpt/parser.go) makes of the     *)
(* conversation in a share: which payloads it refuses, which nodes it      *)
(* selects, and the source snapshot that SourceDiff compares.              *)
(*                                                                         *)
(* A payload is [mapping, linear, current, title, candidate].  mapping     *)
(* maps a node to [id, parent, children, message]; linear is a sequence of *)
(* such nodes, decoded independently of the mapping.  A message is         *)
(* [id, role, hidden, recipient, type, channel, parts], where parts is a   *)
(* text, or None when it is no list of strings; None is an absent field.   *)
(***************************************************************************)
EXTENDS Naturals, Sequences, FiniteSets, SequencesExt, Filtering

CONSTANTS
  None,
  MaxNodes,  \* Limits.MaxNodes
  MaxDepth   \* Limits.MaxDepth

ASSUME LimitsAssumption == MaxNodes \in Nat /\ MaxDepth \in Nat

NodesOf(p) == DOMAIN p.mapping
ParentOf(p, n) == p.mapping[n].parent

\* The chain of parents that ancestry climbs, from its top down to the current node.  The
\* length is checked before a node is taken, so that one more than MaxDepth are accepted.
Ancestry(p) ==
  LET up[k \in 0..MaxDepth] ==
        IF k = 0 THEN <<p.current>>
        ELSE IF Head(up[k - 1]) \notin NodesOf(p) \/ ParentOf(p, Head(up[k - 1])) = None
        THEN up[k - 1]
        ELSE <<ParentOf(p, Head(up[k - 1]))>> \o up[k - 1]
  IN  up[MaxDepth]

\* Its errors: a parent that is missing, or a chain that is too long; a cyclic chain is one
\* that never ends.
Rooted(p) ==
  LET top == Head(Ancestry(p)) IN top \in NodesOf(p) /\ ParentOf(p, top) = None

\* Each node of the list is the mapping's node of that id, in what the parser reads of it.
ValidLinear(p) ==
  /\ Len(p.linear) \in 1..MaxNodes
  /\ \A i \in DOMAIN p.linear :
       p.linear[i].id \in NodesOf(p) /\ p.linear[i] = p.mapping[p.linear[i].id]

ValidChildren(p) ==
  /\ \A n \in NodesOf(p) : \A c \in ToSet(p.mapping[n].children) :
       c \in NodesOf(p) /\ ParentOf(p, c) = n
  /\ \A n \in NodesOf(p) : ParentOf(p, n) # None =>
       ParentOf(p, n) \in NodesOf(p) /\ n \in ToSet(p.mapping[ParentOf(p, n)].children)

LinearIds(p) == [i \in DOMAIN p.linear |-> p.linear[i].id]

\* Wrong: the list is believed, whatever branch the current node is on.
AnyBranch(p) == TRUE

CurrentBranch(p) == Rooted(p) /\ Ancestry(p) = LinearIds(p)

-----------------------------------------------------------------------------
Auxiliary == {"thoughts", "reasoning_recap", "tether_quote"}

\* Passed over in silence: not for the reader of the conversation.
Excluded(m) ==
  \/ m.role \notin {"user", "assistant"}
  \/ m.hidden
  \/ m.recipient \notin {None, "all"}
  \/ m.type \in Auxiliary

\* Meant for the reader and not understood: the snapshot becomes partial.
Blocked(m) ==
  /\ ~Excluded(m)
  /\ \/ m.channel \notin {None, "final", "commentary"}
     \/ m.type # "text"
     \/ m.parts = None

Selected(m) == ~Excluded(m) /\ ~Blocked(m)

\* degradeCitations: native citation markers become Markdown links or labels.
DegradeCitations(text) == IF text = "cited" THEN "linked" ELSE text

\* The nodes of the branch that have a message; the others give it its structure.
Speaking(p) == Only(LinearIds(p), {n \in NodesOf(p) : p.mapping[n].message # None})

\* Messages are numbered by their place among the selected ones; the parent of each is the
\* selected one before it, whatever nodes lie between.
Messages(p) ==
  LET chosen == Only(Speaking(p), {n \in ToSet(Speaking(p)) : Selected(p.mapping[n].message)})
  IN  [i \in DOMAIN chosen |->
         LET m == p.mapping[chosen[i]].message
         IN  [id |-> m.id, node |-> chosen[i], text |-> DegradeCitations(m.parts)]]

\* Every visible message has an id of its own.
Identified(msgs) ==
  \A i \in DOMAIN msgs :
    msgs[i].id # None /\ \A j \in DOMAIN msgs : msgs[i].id = msgs[j].id => i = j

\* What buildSnapshot accepts; everything else is an error.
Readable(p) ==
  /\ Cardinality(NodesOf(p)) \in 1..MaxNodes
  /\ \A n \in NodesOf(p) : p.mapping[n].id = n
  /\ p.current # None
  /\ ValidLinear(p) /\ CurrentBranch(p) /\ ValidChildren(p)
  /\ Messages(p) # <<>> /\ Identified(Messages(p))

\* Wrong: only the message that the conversation ends with makes it partial.
PartialAtTheEnd(p) ==
  LET last == Last(p.linear).message
  IN  [title |-> p.title, candidate |-> p.candidate, parser |-> 1,
       partial |-> last # None /\ Blocked(last), msgs |-> Messages(p)]

Snapshot(p) ==
  [title |-> p.title, candidate |-> p.candidate, parser |-> 1,
   partial |-> \E n \in ToSet(Speaking(p)) : Blocked(p.mapping[n].message),
   msgs |-> Messages(p)]

Refused == [msgs |-> <<>>]
BuildSnapshot(p) == IF Readable(p) THEN Snapshot(p) ELSE Refused
=============================================================================
