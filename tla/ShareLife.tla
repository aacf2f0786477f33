----------------------------- MODULE ShareLife -----------------------------
(***************************************************************************)
(* The life of a shared conversation as the gate sees it: in ChatGPT it is *)
(* continued, branched and switched between branches (external); the gate  *)
(* reads the page, as it should be or in a form it does not expect, and    *)
(* applies a snapshot when SourceDiff lets it.  It composes ShareParse     *)
(* with SourceDiff.                                                        *)
(***************************************************************************)
EXTENDS ShareParse, SourceDiff

CONSTANTS
  Size,     \* bound: nodes of the conversation
  Contents  \* what a message may be: [role, hidden, recipient, type, channel, parts]

ASSUME SizeAssumption == Size \in Nat \ {0}

\* The nodes are numbered; no number is the absent node.
ASSUME NoneAssumption == None \notin Nat

VARIABLES
  conv,     \* the conversation in ChatGPT: [mapping, current]
  page,     \* the payload read last, None when the conversation has changed since
  applied,  \* the snapshot applied last, or None
  path      \* history: the branch that it was made of

vars == <<conv, page, applied, path>>

Published ==
  LET p == [mapping |-> conv.mapping, current |-> conv.current, title |-> "t",
            candidate |-> "k", linear |-> <<>>]
      branch[k \in 0..Size] ==
        IF k = 0 THEN <<p.current>>
        ELSE IF ParentOf(p, Head(branch[k - 1])) = None THEN branch[k - 1]
        ELSE <<ParentOf(p, Head(branch[k - 1]))>> \o branch[k - 1]
  IN  [p EXCEPT !.linear = [i \in DOMAIN branch[Size] |-> p.mapping[branch[Size][i]]]]

\* What a message of this content is when it is said in a node; structure nodes have none.
Message(n, content) ==
  IF content = None THEN None
  ELSE [id |-> n, role |-> content.role, hidden |-> content.hidden,
        recipient |-> content.recipient, type |-> content.type,
        channel |-> content.channel, parts |-> content.parts]

Node(n, parent, children, content) ==
  [id |-> n, parent |-> parent, children |-> children, message |-> Message(n, content)]

LifeInit ==
  /\ \E content \in Contents \cup {None} :
       conv = [mapping |-> [n \in {1} |-> Node(1, None, <<>>, content)], current |-> 1]
  /\ page = None /\ applied = None /\ path = <<>>

\* A new message under a node; it is on the branch that is shown from then on.
Grow(parent, content) ==
  LET n == Cardinality(DOMAIN conv.mapping) + 1
  IN  /\ n <= Size
      /\ conv' = [mapping |-> [m \in DOMAIN conv.mapping \cup {n} |->
                     IF m = n THEN Node(n, parent, <<>>, content)
                     ELSE IF m = parent
                     THEN [conv.mapping[m] EXCEPT !.children = Append(@, n)]
                     ELSE conv.mapping[m]],
                  current |-> n]
      /\ page' = None
      /\ UNCHANGED <<applied, path>>

Continue(content) == Grow(conv.current, content)
Regenerate(parent, content) == parent # conv.current /\ Grow(parent, content)

SwitchBranch(leaf) ==
  /\ leaf # conv.current /\ conv.mapping[leaf].children = <<>>
  /\ conv' = [conv EXCEPT !.current = leaf]
  /\ page' = None
  /\ UNCHANGED <<applied, path>>

-----------------------------------------------------------------------------
\* Changes that the list of nodes does not know of, and changes that it repeats.
InMapping(p, n, node) == [p EXCEPT !.mapping[n] = node]
InBoth(p, n, node) ==
  [p EXCEPT !.mapping[n] = node,
            !.linear = [i \in DOMAIN @ |-> IF @[i].id = n THEN node ELSE @[i]]]

\* The parent, the children, the id of the message or the message of one node is another.
Variants(p, n) ==
  LET node == p.mapping[n] IN
  {[node EXCEPT !.parent = m] : m \in NodesOf(p) \cup {None, Size + 1}}
  \cup {[node EXCEPT !.children = Only(@, ToSet(@) \ {m})] : m \in NodesOf(p)}
  \cup {[node EXCEPT !.children = Append(@, m)] : m \in NodesOf(p)}
  \cup {[node EXCEPT !.message = None]}
  \cup IF node.message = None THEN {}
       ELSE {[node EXCEPT !.message.id = m] : m \in NodesOf(p) \cup {None}}

\* Pages the gate does not expect: one thing is not as it should be.
Garbled(p) ==
  (UNION {UNION {{InMapping(p, n, node), InBoth(p, n, node)} : node \in Variants(p, n)} :
            n \in NodesOf(p)})
  \cup {[p EXCEPT !.current = m] : m \in NodesOf(p) \cup {None}}
  \cup {[p EXCEPT !.linear = Only(@, {x \in ToSet(@) : x.id # m})] : m \in NodesOf(p)}
  \cup {[p EXCEPT !.linear = Append(@, p.mapping[m])] : m \in NodesOf(p)}
  \cup {[p EXCEPT !.mapping = Restrict(@, NodesOf(p) \ {m})] : m \in NodesOf(p)}

Read ==
  /\ page' = Published
  /\ UNCHANGED <<conv, applied, path>>

\* Bounds: a garbled page is read before the first snapshot is applied, of a conversation
\* that is not the largest, and is not applied itself.
ReadGarbled ==
  /\ applied = None /\ page = None /\ Cardinality(DOMAIN conv.mapping) < Size
  /\ page' \in Garbled(Published)
  /\ UNCHANGED <<conv, applied, path>>

Now == BuildSnapshot(page)
Plan == Preview(applied, Now, NoTarget, NoTarget, TRUE)

\* A first snapshot is applied whole; later ones when the plan is ready.
Apply ==
  /\ page = Published
  /\ Now # Refused
  /\ IF applied = None THEN ~Now.partial ELSE Plan.status = "ready"
  /\ applied' = Now
  /\ path' = LinearIds(page)
  /\ UNCHANGED <<conv, page>>

LifeNext ==
  \/ \E content \in Contents : Continue(content)
  \/ \E content \in Contents, n \in DOMAIN conv.mapping : Regenerate(n, content)
  \/ \E n \in DOMAIN conv.mapping : SwitchBranch(n)
  \/ Read \/ ReadGarbled \/ Apply

LifeSpec == LifeInit /\ [][LifeNext]_vars

-----------------------------------------------------------------------------
\* The nodes above a node and itself, as the least set closed under parents: a definition
\* that walks no chain and reads no list.
UpSet(p, n) ==
  CHOOSE up \in SUBSET NodesOf(p) :
    /\ n \in up /\ \A m \in up : ParentOf(p, m) \in up \cup {None}
    /\ \A other \in SUBSET up :
         n \in other /\ (\A m \in other : ParentOf(p, m) \in other \cup {None}) => other = up

\* Whatever page it is that parses: its nodes form trees, and what is read of it is the
\* selected messages above the current node, each above the next.
ReadsTheShownBranch ==
  page # None /\ Now # Refused =>
    LET up == UpSet(page, page.current)
        nodes == [i \in DOMAIN Now.msgs |-> Now.msgs[i].node]
    IN  /\ ToSet(nodes) = {n \in up : page.mapping[n].message # None
                                        /\ Selected(page.mapping[n].message)}
        /\ \A i, j \in DOMAIN nodes : i < j => nodes[i] \in UpSet(page, nodes[j])
        /\ \A m, n \in NodesOf(page) :
             n \in ToSet(page.mapping[m].children) <=> ParentOf(page, n) = m

\* No gap: a snapshot that counts as complete has every message of the branch that is
\* meant for the reader, and only a complete one is ever applied.
CompleteHasNoGap ==
  /\ page # None /\ Now # Refused /\ ~Now.partial =>
       \A n \in UpSet(page, page.current) :
         page.mapping[n].message # None /\ ~Excluded(page.mapping[n].message) =>
           \E i \in DOMAIN Now.msgs : Now.msgs[i].node = n
  /\ applied # None => ~applied.partial

\* A conversation that was only continued can be read, unless it has outgrown the limits, and
\* is an update without conflict, with what was applied as its beginning; one that was
\* switched to a branch without some message that was applied never is, and
\* going back makes it one again.
UpdatesAreContinuations ==
  page # None /\ page = Published /\ applied # None =>
    /\ \/ ~IsPrefix(path, LinearIds(page))
       \/ Cardinality(NodesOf(page)) > MaxNodes \/ Len(page.linear) > MaxDepth + 1
       \/ /\ Now # Refused
          /\ IsPrefix(applied.msgs, Now.msgs)
          /\ Plan.status \in {"ready", "no_change", "unsupported_content"}
    /\ Now # Refused /\ Plan.status \in {"ready", "no_change"} =>
         \A i \in DOMAIN applied.msgs : applied.msgs[i].node \in ToSet(LinearIds(page))
=============================================================================
