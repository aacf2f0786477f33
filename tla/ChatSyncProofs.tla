-------------------------- MODULE ChatSyncProofs --------------------------
(***************************************************************************)
(* The bound chat, for any sources, any number of edits and documents of   *)
(* any size.                                                               *)
(*                                                                         *)
(* The verified document is always a line: the messages of the snapshot    *)
(* applied last, one below the other, and nothing else (BaseInv).  The     *)
(* chat is what a human made of it, however often (EditedFrom): one tree,  *)
(* in which a message that the gate added keeps its source and, as long as *)
(* all of them are there, its parent and its place among the others.  From *)
(* these two, and from what the recursive definitions of the visit of a    *)
(* tree and of the way up return for every tree, follow all of the         *)
(* properties of ChatSync.                                                 *)
(***************************************************************************)
EXTENDS ChatSync, ListProofs

\* A document that has nothing but the messages of a source, as one branch under
\* these names: what is left by a first write and by each update of it.
LineMessage(s, names, i, time) ==
  [parent |-> IF i = 1 THEN None ELSE names[i - 1],
   children |-> IF i = Len(s.msgs) THEN <<>> ELSE <<names[i + 1]>>,
   src |-> s.msgs[i].id, node |-> s.msgs[i].node, text |-> s.msgs[i].text,
   time |-> IF s.msgs[i].time = None THEN time ELSE s.msgs[i].time]

\* The source does not say every creation time; the others are the document's own.
IsLine(d, s, names) ==
  d = [title |-> TitleOf(s), current |-> Last(names), active |-> names,
       msgs |-> [m \in ToSet(names) |->
                   LineMessage(s, names, CHOOSE j \in DOMAIN names : names[j] = m,
                               d.msgs[m].time)]]

Named(s, names) ==
  /\ names \in Seq(GateNames) /\ Len(names) = Len(s.msgs)
  /\ \A i \in Positions(s) : names[i][2] = s.msgs[i].id

BaseInv ==
  /\ share \in Sources /\ prev \in Sources
  /\ Named(prev, base.active) /\ IsLine(base, prev, base.active)

\* No message is above itself, however far.
Grounded(doc) == \A S \in SUBSET Ids(doc) : S # {} => \E m \in S : doc.msgs[m].parent \notin S

IsDocument(doc) ==
  /\ doc = [title |-> doc.title, current |-> doc.current, active |-> doc.active,
            msgs |-> [m \in Ids(doc) |-> doc.msgs[m]]]
  /\ IsFiniteSet(Ids(doc))
  /\ \A m \in Ids(doc) :
       /\ doc.msgs[m] = [parent |-> doc.msgs[m].parent, children |-> doc.msgs[m].children,
                         src |-> doc.msgs[m].src, node |-> doc.msgs[m].node,
                         text |-> doc.msgs[m].text, time |-> doc.msgs[m].time]
       /\ doc.msgs[m].children \in Seq(Ids(doc))

\* One tree, whatever is shown of it.
IsTree(doc) ==
  /\ IsDocument(doc)
  /\ None \notin Ids(doc)
  /\ \E r \in Ids(doc) : Roots(doc) = {r}
  /\ LinksAgree(doc)
  /\ Grounded(doc)

\* What edits of a human leave of a document.  Messages of the gate's may be gone, and are
\* then gone for good; as long as none is, they have their places among each other.
EditedFrom(was, doc) ==
  /\ IsTree(doc)
  /\ Roots(doc) = Roots(was)
  /\ Ids(doc) \subseteq Ids(was) \cup HumanIds
  /\ \A m \in Ids(doc) : doc.msgs[m].src = IF m \in Ids(was) THEN was.msgs[m].src ELSE None
  /\ Ids(was) \subseteq Ids(doc) =>
       \A m \in Ids(was) :
         /\ doc.msgs[m].parent = was.msgs[m].parent
         /\ Only(doc.msgs[m].children, Ids(was)) = was.msgs[m].children

ChatInv == EditedFrom(base, chat)

SyncInv == BaseInv /\ ChatInv

-----------------------------------------------------------------------------
(* Sources, and what their comparison lets pass *)

LEMMA SourceShape ==
  ASSUME NEW s \in Sources
  PROVE  /\ Len(s.msgs) \in Nat \ {0} /\ Positions(s) = 1..Len(s.msgs)
         /\ \A i, j \in 1..Len(s.msgs) : s.msgs[i].id = s.msgs[j].id => i = j
         /\ \A i \in 1..Len(s.msgs) : s.msgs[i].id # None
         /\ SourceIds(s) = {s.msgs[i].id : i \in 1..Len(s.msgs)}
         /\ IdsOf(s.msgs) = SourceIds(s)
<1>1. s.msgs \in Seq(ToSet(s.msgs)) /\ s.msgs # <<>>
  BY SourcesAssumption
<1>2. Len(s.msgs) \in Nat \ {0} /\ DOMAIN s.msgs = 1..Len(s.msgs)
  BY <1>1
<1>3. Positions(s) = 1..Len(s.msgs)
  BY <1>2 DEF Positions
<1>4. \A i, j \in 1..Len(s.msgs) : s.msgs[i].id = s.msgs[j].id => i = j
  BY <1>3, SourcesAssumption
<1>5. \A i \in 1..Len(s.msgs) : s.msgs[i].id # None
  BY <1>3, SourcesAssumption DEF SourceIds
<1> QED
  BY <1>2, <1>3, <1>4, <1>5 DEF SourceIds, IdsOf

\* A message is found where it is.
LEMMA FoundWhereItIs ==
  ASSUME NEW s \in Sources, NEW i \in 1..Len(s.msgs)
  PROVE  At(s.msgs, s.msgs[i].id) = i
BY SourceShape DEF At, Positions

\* If nothing was taken away and nothing moved, the new source begins with the old one.
LEMMA UnmovedExtends ==
  ASSUME NEW p \in Sources, NEW q \in Sources,
         Reduced(p.msgs, q.msgs) = {},
         \A id \in Kept(p.msgs, q.msgs) : ~Moved(p.msgs, q.msgs, id)
  PROVE  /\ Len(p.msgs) <= Len(q.msgs)
         /\ \A i \in 1..Len(p.msgs) : p.msgs[i].id = q.msgs[i].id
<1>1. \A i \in 1..Len(p.msgs) : i \in 1..Len(q.msgs) /\ p.msgs[i].id = q.msgs[i].id
  <2> SUFFICES ASSUME NEW i \in 1..Len(p.msgs)
               PROVE  i \in 1..Len(q.msgs) /\ p.msgs[i].id = q.msgs[i].id
    OBVIOUS
  <2> DEFINE id == p.msgs[i].id
  <2>1. id \in IdsOf(p.msgs) /\ id \in IdsOf(q.msgs)
    BY SourceShape DEF Reduced
  <2>2. PICK j \in 1..Len(q.msgs) : q.msgs[j].id = id
    BY <2>1, SourceShape
  <2>3. At(p.msgs, id) = i
    BY FoundWhereItIs
  <2>4. At(q.msgs, id) = j
    BY <2>2, FoundWhereItIs
  <2>5. At(p.msgs, id) = At(q.msgs, id)
    BY <2>1 DEF Kept, Moved
  <2> QED
    BY <2>2, <2>3, <2>4, <2>5
<1>2. Len(p.msgs) \in 1..Len(p.msgs) /\ Len(q.msgs) \in Nat
  BY SourceShape
<1> QED
  BY <1>1, <1>2

\* What a plan that is not refused says of the two sources.
LEMMA AcceptedPlan ==
  ASSUME NEW p, NEW q, NEW b, NEW t, NEW stable, NEW plan,
         plan = Preview(p, q, b, t, stable), plan.status \in {"ready", "no_change"}
  PROVE  /\ plan.added = Added(p.msgs, q.msgs) /\ plan.modified = Modified(p.msgs, q.msgs)
         /\ plan.title = TitleChange(p, q, b, t)
         /\ Reduced(p.msgs, q.msgs) = {}
         /\ Valid(p, q, b, t) /\ Conflicts(p, q, b, t, stable) = {}
         /\ \A id \in Kept(p.msgs, q.msgs) : ~Moved(p.msgs, q.msgs, id)
         /\ plan.status = "no_change" =>
              plan.added = {} /\ plan.modified = {} /\ plan.title # "sync_source"
<1>1. /\ plan.added = Added(p.msgs, q.msgs) /\ plan.modified = Modified(p.msgs, q.msgs)
      /\ plan.title = TitleChange(p, q, b, t)
  BY DEF Preview
<1>2. /\ Valid(p, q, b, t) /\ Reduced(p.msgs, q.msgs) = {}
      /\ Conflicts(p, q, b, t, stable) = {}
      /\ plan.status = "no_change" =>
           /\ Added(p.msgs, q.msgs) = {} /\ Modified(p.msgs, q.msgs) = {}
           /\ TitleChange(p, q, b, t) # "sync_source"
  BY DEF Preview
<1>3. SourceConflicts(p, q, stable) = {}
  BY <1>2 DEF Conflicts
<1>4. \A id \in Kept(p.msgs, q.msgs) : ~Moved(p.msgs, q.msgs, id)
  BY <1>3 DEF SourceConflicts
<1> QED
  BY <1>1, <1>2, <1>4

\* A plan that may be applied is made from the verified document, and its source begins
\* with the one applied before.
LEMMA AppliedPlan ==
  ASSUME BaseInv, Status \in {"ready", "no_change"}
  PROVE  /\ chat = base /\ Diff.status = Status
         /\ Len(prev.msgs) <= Len(share.msgs)
         /\ \A i \in 1..Len(prev.msgs) : prev.msgs[i].id = share.msgs[i].id
<1>1. chat = base /\ Diff.status = Status
  BY DEF Status, MatchesBaseline
<1>2. /\ Reduced(prev.msgs, share.msgs) = {}
      /\ \A id \in Kept(prev.msgs, share.msgs) : ~Moved(prev.msgs, share.msgs, id)
  BY <1>1, AcceptedPlan DEF Diff
<1> QED
  BY <1>1, <1>2, UnmovedExtends DEF BaseInv

-----------------------------------------------------------------------------
(* Lines *)

LEMMA NamedShape ==
  ASSUME NEW s \in Sources, NEW names, Named(s, names)
  PROVE  /\ DOMAIN names = 1..Len(s.msgs) /\ Len(names) = Len(s.msgs)
         /\ Len(s.msgs) \in Nat \ {0}
         /\ names = [i \in 1..Len(s.msgs) |-> names[i]]
         /\ \A i, j \in 1..Len(s.msgs) : names[i] = names[j] => i = j
         /\ \A i \in 1..Len(s.msgs) :
              /\ names[i] \in GateNames /\ names[i] \notin HumanIds /\ names[i] # None
              /\ names[i] \in ToSet(names)
         /\ \A m \in ToSet(names) : \E i \in 1..Len(s.msgs) : m = names[i]
<1>1. Len(s.msgs) \in Nat \ {0} /\ Positions(s) = 1..Len(s.msgs)
  BY SourceShape
<1>2. DOMAIN names = 1..Len(s.msgs) /\ Len(names) = Len(s.msgs)
  BY <1>1 DEF Named
<1>3. \A i \in 1..Len(s.msgs) : names[i] \in GateNames
  BY <1>2 DEF Named
<1>4. \A i, j \in 1..Len(s.msgs) : names[i] = names[j] => i = j
  BY <1>1, SourceShape DEF Named
<1>5. names = [i \in 1..Len(s.msgs) |-> names[i]]
  BY <1>2 DEF Named
<1> QED
  BY <1>1, <1>2, <1>3, <1>4, <1>5, NamesAssumption DEF ToSet

LEMMA LineShape ==
  ASSUME NEW s \in Sources, NEW names, Named(s, names), NEW d, IsLine(d, s, names)
  PROVE  /\ Ids(d) = ToSet(names) /\ d.title = TitleOf(s) /\ d.active = names
         /\ d.current = names[Len(s.msgs)]
         /\ \A i \in 1..Len(s.msgs) : names[i] \in Ids(d)
         /\ \A m \in Ids(d) : \E i \in 1..Len(s.msgs) : m = names[i]
<1>1. Ids(d) = ToSet(names) /\ d.title = TitleOf(s) /\ d.active = names
  BY DEF IsLine, Ids
<1>2. d.current = names[Len(s.msgs)]
  BY NamedShape DEF IsLine, Last
<1> QED
  BY <1>1, <1>2, NamedShape

LEMMA LineEntry ==
  ASSUME NEW s \in Sources, NEW names, Named(s, names), NEW d, IsLine(d, s, names),
         NEW i \in 1..Len(s.msgs)
  PROVE  d.msgs[names[i]] = LineMessage(s, names, i, d.msgs[names[i]].time)
<1>1. (CHOOSE j \in DOMAIN names : names[j] = names[i]) = i
  BY NamedShape
<1>2. names[i] \in ToSet(names)
  BY NamedShape
<1> QED
  BY <1>1, <1>2 DEF IsLine

LEMMA LineSays ==
  ASSUME NEW s \in Sources, NEW names, Named(s, names), NEW d, IsLine(d, s, names),
         NEW i \in 1..Len(s.msgs)
  PROVE  /\ d.msgs[names[i]].src = s.msgs[i].id /\ d.msgs[names[i]].text = s.msgs[i].text
         /\ d.msgs[names[i]].node = s.msgs[i].node
         /\ s.msgs[i].time # None => d.msgs[names[i]].time = s.msgs[i].time
<1>1. d.msgs[names[i]] = LineMessage(s, names, i, d.msgs[names[i]].time)
  BY LineEntry
<1> QED
  BY <1>1 DEF LineMessage

LEMMA LineParent ==
  ASSUME NEW s \in Sources, NEW names, Named(s, names), NEW d, IsLine(d, s, names),
         NEW i \in 1..Len(s.msgs)
  PROVE  d.msgs[names[i]].parent = IF i = 1 THEN None ELSE names[i - 1]
<1>1. d.msgs[names[i]] = LineMessage(s, names, i, d.msgs[names[i]].time)
  BY LineEntry
<1> QED
  BY <1>1 DEF LineMessage

LEMMA LineChildren ==
  ASSUME NEW s \in Sources, NEW names, Named(s, names), NEW d, IsLine(d, s, names),
         NEW i \in 1..Len(s.msgs)
  PROVE  d.msgs[names[i]].children = IF i = Len(s.msgs) THEN <<>> ELSE <<names[i + 1]>>
<1>1. d.msgs[names[i]] = LineMessage(s, names, i, d.msgs[names[i]].time)
  BY LineEntry
<1> QED
  BY <1>1 DEF LineMessage

\* The message of a line that says a source message, and the messages it says.
LEMMA LineFound ==
  ASSUME NEW s \in Sources, NEW names, Named(s, names), NEW d, IsLine(d, s, names)
  PROVE  /\ SrcIn(d) = SourceIds(s)
         /\ \A i \in 1..Len(s.msgs) : TextIn(d, s.msgs[i].id) = s.msgs[i].text
         /\ \A i \in 1..Len(s.msgs) : {m \in Ids(d) : d.msgs[m].src = s.msgs[i].id} = {names[i]}
         /\ ~Duplicated(d)
<1>1. \A i \in 1..Len(s.msgs) : d.msgs[names[i]].src = s.msgs[i].id
                             /\ d.msgs[names[i]].text = s.msgs[i].text
  BY LineSays
<1>2. \A m \in Ids(d) : \E i \in 1..Len(s.msgs) : m = names[i]
  BY LineShape
<1>3. \A i \in 1..Len(s.msgs) : names[i] \in Ids(d)
  BY LineShape
<1>4. \A i \in 1..Len(s.msgs) : {m \in Ids(d) : d.msgs[m].src = s.msgs[i].id} = {names[i]}
  BY <1>1, <1>2, <1>3, SourceShape
<1>5. SrcIn(d) = SourceIds(s)
  BY <1>1, <1>2, <1>3, SourceShape DEF SrcIn
<1>6. ~Duplicated(d)
  BY <1>1, <1>2, SourceShape DEF Duplicated
<1>7. ASSUME NEW i \in 1..Len(s.msgs) PROVE TextIn(d, s.msgs[i].id) = s.msgs[i].text
  <2>1. (CHOOSE m \in Ids(d) : d.msgs[m].src = s.msgs[i].id) = names[i]
    BY <1>4
  <2> QED
    BY <1>1, <2>1 DEF TextIn
<1> QED
  BY <1>4, <1>5, <1>6, <1>7

NamesEach(s, names) ==
  /\ names = [i \in 1..Len(s.msgs) |-> names[i]]
  /\ \A i \in 1..Len(s.msgs) : names[i] \in GateNames /\ names[i][2] = s.msgs[i].id

LEMMA NamesOf ==
  ASSUME NEW s \in Sources, NEW names, NamesEach(s, names)
  PROVE  Named(s, names)
<1>1. Positions(s) = 1..Len(s.msgs) /\ Len(s.msgs) \in Nat
  BY SourceShape
<1>2. names \in Seq(GateNames)
  BY <1>1 DEF NamesEach
<1>3. Len(names) = Len(s.msgs)
  BY <1>1 DEF NamesEach
<1> QED
  BY <1>1, <1>2, <1>3 DEF Named, NamesEach

\* A write that leaves nothing of what was there beside the source is a line.
LEMMA BranchIsLine ==
  ASSUME NEW s \in Sources, NEW targets, Named(s, targets), NEW doc,
         Ids(doc) \subseteq ToSet(targets),
         \A m \in ToSet(targets) :
           PreservedUnmanagedChildren(doc, m, ToSet(targets)) = <<>>,
         NEW d, d = [title |-> TitleOf(s), current |-> Last(targets), active |-> targets,
                     msgs |-> OverDocument(doc, Branch(s, doc, targets))]
  PROVE  /\ IsLine(d, s, targets)
         /\ \A i \in 1..Len(s.msgs) : d.msgs[targets[i]].time = TimeOf(s, doc, targets[i], i)
<1> DEFINE B == Branch(s, doc, targets)
           pos(m) == CHOOSE j \in DOMAIN targets : targets[j] = m
           kept(m) == PreservedUnmanagedChildren(doc, m, ToSet(targets))
           At0(m, j, k) ==
             [parent |-> IF j = 1 THEN None ELSE targets[j - 1],
              children |-> IF j = Len(targets) THEN k ELSE <<targets[j + 1]>> \o k,
              src |-> s.msgs[j].id, node |-> s.msgs[j].node,
              text |-> s.msgs[j].text, time |-> TimeOf(s, doc, m, j)]
<1>1. B = [m \in ToSet(targets) |-> At0(m, pos(m), kept(m))]
  BY Zenon DEF Branch, TextOf
<1>2. DOMAIN B = ToSet(targets)
  BY <1>1
<1>3. OverDocument(doc, B) = B
  <2>1. B = [m \in ToSet(targets) |-> B[m]]
    BY <1>1
  <2> HIDE DEF B
  <2> QED
    BY <1>2, <2>1 DEF OverDocument
<1>4. ASSUME NEW m \in ToSet(targets)
      PROVE  /\ B[m] = LineMessage(s, targets, pos(m), B[m].time)
             /\ B[m].time = TimeOf(s, doc, m, pos(m))
  <2>1. PICK i \in 1..Len(s.msgs) : m = targets[i]
    BY NamedShape
  <2>2. pos(m) = i /\ Len(targets) = Len(s.msgs)
    BY <2>1, NamedShape
  <2>3. kept(m) = <<>> /\ <<targets[i + 1]>> \o <<>> = <<targets[i + 1]>>
    OBVIOUS
  <2>4. B[m] = At0(m, pos(m), kept(m))
    BY <1>1
  <2> HIDE DEF B, pos, kept, At0
  <2>5. B[m] = At0(m, i, <<>>)
    BY <2>2, <2>3, <2>4
  <2>6. /\ B[m] = [parent |-> IF i = 1 THEN None ELSE targets[i - 1],
                   children |-> IF i = Len(s.msgs) THEN <<>> ELSE <<targets[i + 1]>>,
                   src |-> s.msgs[i].id, node |-> s.msgs[i].node,
                   text |-> s.msgs[i].text, time |-> TimeOf(s, doc, m, i)]
        /\ B[m].time = TimeOf(s, doc, m, i)
    BY <2>2, <2>3, <2>5 DEF At0
  <2>7. TimeOf(s, doc, m, i) = IF s.msgs[i].time = None THEN B[m].time ELSE s.msgs[i].time
    BY <2>6 DEF TimeOf
  <2> QED
    BY <2>2, <2>6, <2>7 DEF LineMessage
<1>5. d.msgs = B
  BY <1>3
<1>6. d = [title |-> TitleOf(s), current |-> Last(targets), active |-> targets, msgs |-> B]
  BY <1>3
<1>7. B = [m \in ToSet(targets) |-> LineMessage(s, targets, pos(m), d.msgs[m].time)]
  <2>1. B = [m \in ToSet(targets) |-> B[m]]
    BY <1>1
  <2> HIDE DEF B, pos
  <2> QED
    BY <1>4, <1>5, <2>1
<1>8. ASSUME NEW i \in 1..Len(s.msgs)
      PROVE  d.msgs[targets[i]].time = TimeOf(s, doc, targets[i], i)
  <2>1. targets[i] \in ToSet(targets) /\ pos(targets[i]) = i
    BY NamedShape
  <2> HIDE DEF B, pos
  <2> QED
    BY <1>4, <1>5, <2>1
<1> HIDE DEF B
<1> QED
  BY <1>6, <1>7, <1>8 DEF IsLine

\* The first write.
LEMMA WrittenFirst ==
  ASSUME NEW s \in Sources
  PROVE  \E names : Named(s, names) /\ IsLine(Written(s, Empty), s, names)
<1> DEFINE names == [i \in Positions(s) |-> DeterministicMessageID(s, s.msgs[i].id)]
<1>1. Ids(Empty) = {}
  BY DEF Empty, Ids
<1>2. \A i \in Positions(s) : TargetID(s, Empty, s.msgs[i].id) = names[i]
  BY <1>1 DEF TargetID
<1>3. Positions(s) = 1..Len(s.msgs) /\ Len(s.msgs) \in Nat
  BY SourceShape
<1>4. \A i \in Positions(s) : names[i] \in GateNames /\ names[i][2] = s.msgs[i].id
  BY DEF GateNames, SourceIds, DeterministicMessageID
<1>a. names = [i \in 1..Len(s.msgs) |-> names[i]]
  BY <1>3
<1>5. Named(s, names)
  <2> HIDE DEF names
  <2>1. NamesEach(s, names)
    BY <1>3, <1>4, <1>a DEF NamesEach
  <2> QED
    BY <2>1, NamesOf
<1>6. [i \in Positions(s) |-> TargetID(s, Empty, s.msgs[i].id)] = names
  BY <1>2
<1> HIDE DEF names
<1>7. \A m \in ToSet(names) : PreservedUnmanagedChildren(Empty, m, ToSet(names)) = <<>>
  BY <1>1 DEF PreservedUnmanagedChildren
<1>b. Written(s, Empty) = [title |-> TitleOf(s), current |-> Last(names), active |-> names,
                           msgs |-> OverDocument(Empty, Branch(s, Empty, names))]
  BY <1>6 DEF Written
<1>8. IsLine(Written(s, Empty), s, names)
  BY <1>1, <1>5, <1>7, <1>b, BranchIsLine
<1> QED
  BY <1>5, <1>8

\* The messages of a line keep their names when its source grows.
LEMMA TargetsOverLine ==
  ASSUME NEW p \in Sources, NEW names, Named(p, names), NEW d, IsLine(d, p, names),
         NEW s \in Sources, Len(p.msgs) <= Len(s.msgs),
         \A i \in 1..Len(p.msgs) : p.msgs[i].id = s.msgs[i].id
  PROVE  /\ \A i \in 1..Len(p.msgs) : TargetID(s, d, s.msgs[i].id) = names[i]
         /\ \A i \in 1..Len(s.msgs) : i > Len(p.msgs) =>
              TargetID(s, d, s.msgs[i].id) = DeterministicMessageID(s, s.msgs[i].id)
<1>1. ASSUME NEW i \in 1..Len(p.msgs) PROVE TargetID(s, d, s.msgs[i].id) = names[i]
  <2>1. {m \in Ids(d) : d.msgs[m].src = s.msgs[i].id} = {names[i]}
    BY LineFound
  <2> QED
    BY <2>1 DEF TargetID
<1>2. ASSUME NEW i \in 1..Len(s.msgs), i > Len(p.msgs)
      PROVE  TargetID(s, d, s.msgs[i].id) = DeterministicMessageID(s, s.msgs[i].id)
  <2>1. \A j \in 1..Len(p.msgs) : p.msgs[j].id # s.msgs[i].id
    BY <1>2, SourceShape
  <2>2. \A m \in Ids(d) : d.msgs[m].src # s.msgs[i].id
    BY <2>1, LineShape, LineSays
  <2> QED
    BY <2>2 DEF TargetID
<1> QED
  BY <1>1, <1>2

\* An update of a line by a source that begins with the line's is a line again.
LEMMA WrittenNext ==
  ASSUME NEW p \in Sources, NEW names, Named(p, names), NEW d, IsLine(d, p, names),
         NEW s \in Sources, Len(p.msgs) <= Len(s.msgs),
         \A i \in 1..Len(p.msgs) : p.msgs[i].id = s.msgs[i].id
  PROVE  \E targets : /\ Named(s, targets) /\ IsLine(Written(s, d), s, targets)
                      /\ \A i \in 1..Len(p.msgs) : targets[i] = names[i]
                      /\ \A i \in 1..Len(s.msgs) :
                           Written(s, d).msgs[targets[i]].time = TimeOf(s, d, targets[i], i)
<1> DEFINE targets == [i \in Positions(s) |-> TargetID(s, d, s.msgs[i].id)]
<1>1. Positions(s) = 1..Len(s.msgs) /\ Len(s.msgs) \in Nat /\ Len(p.msgs) \in Nat
  BY SourceShape
<1>2. \A i \in 1..Len(p.msgs) : targets[i] = names[i]
  BY <1>1, TargetsOverLine
<1>3. ASSUME NEW i \in Positions(s)
      PROVE  targets[i] \in GateNames /\ targets[i][2] = s.msgs[i].id
  <2>1. CASE i <= Len(p.msgs)
    <3>1. i \in 1..Len(p.msgs) /\ i \in Positions(p)
      BY <1>1, <2>1, SourceShape
    <3> QED
      BY <3>1, <1>2, NamedShape DEF Named
  <2>2. CASE i > Len(p.msgs)
    <3>1. targets[i] = <<s.basis, s.msgs[i].id>>
      BY <1>1, <2>2, TargetsOverLine DEF DeterministicMessageID
    <3>2. s.msgs[i].id \in SourceIds(s)
      BY DEF SourceIds
    <3> QED
      BY <3>1, <3>2 DEF GateNames
  <2> QED
    BY <1>1, <2>1, <2>2
<1>a. targets = [i \in 1..Len(s.msgs) |-> targets[i]]
  BY <1>1
<1>4. Named(s, targets)
  <2> HIDE DEF targets
  <2>1. NamesEach(s, targets)
    BY <1>1, <1>3, <1>a DEF NamesEach
  <2> QED
    BY <2>1, NamesOf
<1>5. Written(s, d) =
        [title |-> TitleOf(s), current |-> Last(targets), active |-> targets,
         msgs |-> OverDocument(d, Branch(s, d, targets))]
  BY DEF Written
<1> HIDE DEF targets
<1>6. \A i \in 1..Len(p.msgs) : names[i] \in ToSet(targets)
  BY <1>1, <1>2, <1>4, NamedShape
<1>7. Ids(d) \subseteq ToSet(targets)
  BY <1>6, LineShape
<1>8. ASSUME NEW m \in ToSet(targets)
      PROVE  PreservedUnmanagedChildren(d, m, ToSet(targets)) = <<>>
  <2>1. CASE m \notin Ids(d)
    BY <2>1 DEF PreservedUnmanagedChildren
  <2>2. CASE m \in Ids(d)
    <3>1. PICK i \in 1..Len(p.msgs) : m = names[i]
      BY <2>2, LineShape
    <3>2. d.msgs[m].children = IF i = Len(p.msgs) THEN <<>> ELSE <<names[i + 1]>>
      BY <3>1, LineChildren
    <3>3. d.msgs[m].children \in Seq(ToSet(targets))
      BY <3>2, <1>1, <1>6
    <3>4. ChildSet(d, m) \ ToSet(targets) = {}
      BY <3>3 DEF ChildSet, ToSet
    <3> QED
      BY <2>2, <3>3, <3>4, OnlyNothing DEF PreservedUnmanagedChildren
  <2> QED
    BY <2>1, <2>2
<1>9. /\ IsLine(Written(s, d), s, targets)
      /\ \A i \in 1..Len(s.msgs) :
           Written(s, d).msgs[targets[i]].time = TimeOf(s, d, targets[i], i)
  BY <1>4, <1>5, <1>7, <1>8, BranchIsLine
<1> QED
  BY <1>2, <1>4, <1>9

-----------------------------------------------------------------------------
(* The verified document is always a line *)

LEMMA BaseInit ==
  ASSUME SyncInit
  PROVE  BaseInv
<1>1. share \in Sources /\ prev = share /\ base = Written(share, Empty)
  BY DEF SyncInit, BuildSnapshot
<1>2. PICK names : Named(share, names) /\ IsLine(base, share, names)
  BY <1>1, WrittenFirst
<1>3. base.active = names
  BY <1>2 DEF IsLine
<1> QED
  BY <1>1, <1>2, <1>3 DEF BaseInv

\* What an applied plan leaves.
LEMMA AppliedDocument ==
  ASSUME BaseInv, Apply
  PROVE  /\ chat = base /\ prev' = share /\ chat' = base'
         /\ chat' = Written(share, chat)
         /\ Named(share, chat'.active) /\ IsLine(chat', share, chat'.active)
         /\ \A i \in 1..Len(prev.msgs) : chat'.active[i] = chat.active[i]
<1>1. /\ chat = base /\ prev' = share /\ chat' = base' /\ chat' = Written(share, chat)
      /\ Len(prev.msgs) <= Len(share.msgs)
      /\ \A i \in 1..Len(prev.msgs) : prev.msgs[i].id = share.msgs[i].id
  BY AppliedPlan DEF Apply, BuildSnapshot
<1>2. PICK names : /\ Named(share, names) /\ IsLine(chat', share, names)
                   /\ \A i \in 1..Len(prev.msgs) : names[i] = base.active[i]
  BY <1>1, WrittenNext DEF BaseInv
<1>3. chat'.active = names
  BY <1>2 DEF IsLine
<1> QED
  BY <1>1, <1>2, <1>3

LEMMA BaseStep ==
  ASSUME BaseInv, [SyncNext]_vars
  PROVE  BaseInv'
<1>1. CASE ShareChanges
  BY <1>1 DEF ShareChanges, BaseInv
<1>2. CASE HumanEdits
  BY <1>2 DEF HumanEdits, BaseInv
<1>3. CASE HumanReverts
  BY <1>3 DEF HumanReverts, BaseInv
<1>4. CASE Apply
  <2>1. share' = share /\ prev' = share /\ base' = chat' /\ share \in Sources
    BY <1>4 DEF Apply, BaseInv
  <2>2. Named(share, chat'.active) /\ IsLine(chat', share, chat'.active)
    BY <1>4, AppliedDocument
  <2> QED
    BY <2>1, <2>2 DEF BaseInv
<1>5. CASE UNCHANGED vars
  BY <1>5 DEF vars, BaseInv
<1> QED
  BY <1>1, <1>2, <1>3, <1>4, <1>5 DEF SyncNext

\* The baseline that Service.Apply verifies and stores is always the line of the snapshot
\* that it applied.
THEOREM AlwaysALine ==
  SyncSpec => []BaseInv
BY BaseInit, BaseStep, PTL DEF SyncSpec

-----------------------------------------------------------------------------
(* What an update changes *)

LEMMA OnlyApplyUpdates ==
  ASSUME [SyncNext]_vars, prev' # prev
  PROVE  Apply
BY DEF SyncNext, vars, ShareChanges, HumanEdits, HumanReverts

\* What was applied once stays the beginning of the conversation, in its order: diff.Preview
\* lets nothing pass that moves or drops a message.
THEOREM AppliedStaysInPlace ==
  SyncSpec => MessagesStayInPlace
<1> DEFINE Stays ==
      prev' # prev =>
        IsPrefix([i \in Positions(prev) |-> prev.msgs[i].id],
                 [i \in Positions(prev') |-> prev'.msgs[i].id])
<1>1. ASSUME BaseInv, [SyncNext]_vars PROVE Stays
  <2> SUFFICES ASSUME prev' # prev
               PROVE  IsPrefix([i \in Positions(prev) |-> prev.msgs[i].id],
                               [i \in Positions(prev') |-> prev'.msgs[i].id])
    OBVIOUS
  <2>1. Apply
    BY <1>1, OnlyApplyUpdates
  <2>2. /\ prev' = share /\ prev \in Sources /\ share \in Sources
        /\ Len(prev.msgs) <= Len(share.msgs)
        /\ \A i \in 1..Len(prev.msgs) : prev.msgs[i].id = share.msgs[i].id
    BY <1>1, <2>1, AppliedPlan DEF Apply, BaseInv
  <2> DEFINE old == [i \in 1..Len(prev.msgs) |-> prev.msgs[i].id]
             new == [i \in 1..Len(share.msgs) |-> share.msgs[i].id]
  <2>3. /\ Positions(prev) = 1..Len(prev.msgs) /\ Positions(prev') = 1..Len(share.msgs)
        /\ Len(prev.msgs) \in Nat /\ Len(share.msgs) \in Nat
    BY <2>2, SourceShape
  <2>4. IsPrefix(old, new)
    <3>1. Len(old) = Len(prev.msgs) /\ Len(new) = Len(share.msgs)
      BY <2>3
    <3>2. SubSeq(old, 1, Len(old)) = SubSeq(new, 1, Len(old))
      BY <2>2, <2>3, <3>1
    <3> QED
      BY <2>2, <3>1, <3>2 DEF IsPrefix
  <2> QED
    BY <2>2, <2>3, <2>4
<1>2. SyncSpec => [][Stays]_vars
  BY <1>1, AlwaysALine, PTL DEF SyncSpec
<1> QED
  BY <1>2, PTL DEF MessagesStayInPlace

-----------------------------------------------------------------------------
(* Trees: the order of the visit *)

LEMMA TreeShape ==
  ASSUME NEW d, IsTree(d)
  PROVE  /\ IsFiniteSet(Ids(d)) /\ Cardinality(Ids(d)) \in Nat /\ None \notin Ids(d)
         /\ \A m \in Ids(d) :
              /\ d.msgs[m].children \in Seq(Ids(d)) /\ IsInjective(d.msgs[m].children)
              /\ d.msgs[m].parent \in Ids(d) \cup {None}
              /\ ChildSet(d, m) = {c \in Ids(d) : d.msgs[c].parent = m}
<1>1. IsFiniteSet(Ids(d)) /\ Cardinality(Ids(d)) \in Nat
  BY FS_CardinalityType DEF IsTree, IsDocument
<1>2. None \notin Ids(d)
  BY DEF IsTree
<1>3. ASSUME NEW m \in Ids(d)
      PROVE  /\ d.msgs[m].children \in Seq(Ids(d)) /\ IsInjective(d.msgs[m].children)
             /\ d.msgs[m].parent \in Ids(d) \cup {None}
             /\ ChildSet(d, m) = {c \in Ids(d) : d.msgs[c].parent = m}
  <2>1. d.msgs[m].children \in Seq(Ids(d))
    BY DEF IsTree, IsDocument
  <2>2. IsInjective(d.msgs[m].children) /\ d.msgs[m].parent \in Ids(d) \cup {None}
    BY DEF IsTree, LinksAgree
  <2>3. \A c \in ChildSet(d, m) : c \in Ids(d) /\ d.msgs[c].parent = m
    BY DEF IsTree, LinksAgree
  <2>4. \A c \in Ids(d) : d.msgs[c].parent = m => c \in ChildSet(d, m)
    BY <1>2 DEF IsTree, LinksAgree
  <2> QED
    BY <2>1, <2>2, <2>3, <2>4
<1> QED
  BY <1>1, <1>2, <1>3

\* The parts that a visit of a message joins.
Parts(d, w, m) == [i \in DOMAIN d.msgs[m].children |-> w[d.msgs[m].children[i]]]

VisitStep(d, w) == [m \in Ids(d) |-> <<m>> \o FlattenSeq(Parts(d, w, m))]

Visits(v, d) ==
  /\ v \in [0..Cardinality(Ids(d)) -> [Ids(d) -> Seq(Ids(d))]]
  /\ v[0] = [m \in Ids(d) |-> <<m>>]
  /\ \A n \in 1..Cardinality(Ids(d)) : v[n] = VisitStep(d, v[n - 1])

LEMMA VisitParts ==
  ASSUME NEW d, IsTree(d), NEW w \in [Ids(d) -> Seq(Ids(d))], NEW m \in Ids(d)
  PROVE  /\ Parts(d, w, m) \in Seq(Seq(Ids(d)))
         /\ Len(Parts(d, w, m)) = Len(d.msgs[m].children)
         /\ \A i \in 1..Len(Parts(d, w, m)) :
              /\ d.msgs[m].children[i] \in ChildSet(d, m)
              /\ Parts(d, w, m)[i] = w[d.msgs[m].children[i]]
<1> DEFINE kids == d.msgs[m].children
           parts == Parts(d, w, m)
           I == Ids(d)
           Q == Seq(I)
           K == Len(kids)
<1>1. kids \in Seq(I)
  BY TreeShape
<1>2. K \in Nat /\ DOMAIN kids = 1..K /\ \A i \in 1..K : kids[i] \in I
  BY <1>1
<1>3. ChildSet(d, m) = {kids[i] : i \in 1..K}
  BY <1>2 DEF ChildSet, ToSet
<1>4. parts = [i \in 1..K |-> w[kids[i]]]
  BY <1>2 DEF Parts
<1>5. \A i \in 1..K : w[kids[i]] \in Q
  BY <1>2
<1> HIDE DEF Q, kids, K, parts
<1>6. Listing(parts, Q, K)
  BY <1>4, <1>5 DEF Listing
<1>7. parts \in Seq(Q) /\ Len(parts) = K
  BY <1>2, <1>6, ListingIsSequence
<1>8. \A i \in 1..K : kids[i] \in ChildSet(d, m) /\ parts[i] = w[kids[i]]
  BY <1>3, <1>4
<1> QED
  BY <1>7, <1>8 DEF Q, kids, K, parts

LEMMA VisitPart ==
  ASSUME NEW d, IsTree(d), NEW w \in [Ids(d) -> Seq(Ids(d))], NEW m \in Ids(d),
         NEW i \in 1..Len(Parts(d, w, m))
  PROVE  /\ d.msgs[m].children[i] \in ChildSet(d, m)
         /\ Parts(d, w, m)[i] = w[d.msgs[m].children[i]]
BY VisitParts

LEMMA VisitPartsType ==
  ASSUME NEW d, IsTree(d), NEW w \in [Ids(d) -> Seq(Ids(d))], NEW m \in Ids(d)
  PROVE  /\ Parts(d, w, m) \in Seq(Seq(Ids(d)))
         /\ Len(Parts(d, w, m)) = Len(d.msgs[m].children)
BY VisitParts

LEMMA VisitPartOf ==
  ASSUME NEW d, IsTree(d), NEW w \in [Ids(d) -> Seq(Ids(d))], NEW m \in Ids(d),
         NEW c \in ChildSet(d, m)
  PROVE  \E i \in 1..Len(Parts(d, w, m)) : d.msgs[m].children[i] = c
<1>1. Len(Parts(d, w, m)) = Len(d.msgs[m].children)
  BY VisitPartsType
<1>2. d.msgs[m].children \in Seq(Ids(d))
  BY TreeShape
<1>3. DOMAIN d.msgs[m].children = 1..Len(Parts(d, w, m))
  BY <1>1, <1>2
<1>4. c \in {d.msgs[m].children[i] : i \in DOMAIN d.msgs[m].children}
  BY DEF ChildSet, ToSet
<1> QED
  BY <1>3, <1>4

LEMMA VisitStepType ==
  ASSUME NEW d, IsTree(d), NEW w \in [Ids(d) -> Seq(Ids(d))]
  PROVE  VisitStep(d, w) \in [Ids(d) -> Seq(Ids(d))]
<1>1. ASSUME NEW m \in Ids(d) PROVE VisitStep(d, w)[m] \in Seq(Ids(d))
  <2> DEFINE parts == Parts(d, w, m)
             flat == FlattenSeq(parts)
  <2>1. parts \in Seq(Seq(Ids(d)))
    BY VisitParts
  <2>2. VisitStep(d, w)[m] = <<m>> \o flat
    BY DEF VisitStep
  <2> HIDE DEF parts
  <2>3. flat \in Seq(Ids(d))
    BY <2>1, FlattenTakes
  <2> HIDE DEF flat
  <2>4. <<m>> \o flat \in Seq(Ids(d))
    BY <2>3
  <2> QED
    BY <2>2, <2>4
<1>2. VisitStep(d, w) = [m \in Ids(d) |-> VisitStep(d, w)[m]]
  BY DEF VisitStep
<1> QED
  BY <1>1, <1>2

LEMMA PreorderIsDefined ==
  ASSUME NEW d, IsTree(d)
  PROVE  \E v : /\ Visits(v, d)
                /\ \A r \in Ids(d) : Preorder(d, r) = v[Cardinality(Ids(d))][r]
<1> DEFINE N == Cardinality(Ids(d))
           I == Ids(d)
           T == [I -> Seq(I)]
           first == [m \in I |-> <<m>>]
           step == [n \in 1..N |-> [w \in T |-> VisitStep(d, w)]]
           Body(g) ==
             [n \in 0..N |->
                [m \in I |->
                   LET children == d.msgs[m].children
                   IN  IF n = 0 THEN <<m>>
                       ELSE <<m>> \o FlattenSeq([i \in DOMAIN children |-> g[n - 1][children[i]]])]]
           f == CHOOSE g : g = Body(g)
<1>0. N \in Nat
  BY TreeShape
<1>1. \A r \in I : Preorder(d, r) = f[N][r]
  BY Zenon DEF Preorder
<1>2. first \in T
  OBVIOUS
<1>3. \A w \in T : VisitStep(d, w) \in T
  BY VisitStepType
<1>4. \A g : Body(g)[0] = first
  BY <1>0
<1>5. \A g : \A n \in 1..N : Body(g)[n] = VisitStep(d, g[n - 1])
  <2> SUFFICES ASSUME NEW g, NEW n \in 1..N PROVE Body(g)[n] = VisitStep(d, g[n - 1])
    OBVIOUS
  <2>1. n \in 0..N /\ n # 0
    BY <1>0
  <2>2. Body(g)[n] =
          [m \in I |-> <<m>> \o FlattenSeq([i \in DOMAIN d.msgs[m].children |->
                                              g[n - 1][d.msgs[m].children[i]]])]
    BY <2>1, Zenon
  <2> QED
    BY <2>2, Zenon DEF VisitStep, Parts
<1>6. \A g : DOMAIN Body(g) = 0..N
  OBVIOUS
<1> HIDE DEF T, first
<1>7. step \in Steps(N, T)
  BY <1>3 DEF Steps
<1>8. \A n \in 1..N, w \in T : step[n][w] = VisitStep(d, w)
  OBVIOUS
<1> HIDE DEF step, N, I
<1>9. PICK h : Follows(h, N, T, first, step)
  BY <1>0, <1>2, <1>7, RecursionIsDefined
<1>10. h \in [0..N -> T] /\ h[0] = first /\ \A n \in 1..N : h[n] = step[n][h[n - 1]]
  BY <1>9 DEF Follows
<1>11. \A n \in 1..N : h[n] = VisitStep(d, h[n - 1])
  <2>1. \A n \in 1..N : h[n - 1] \in T
    BY <1>0, <1>10
  <2> QED
    BY <2>1, <1>8, <1>10
<1>12. \A n \in 0..N : n = 0 \/ n \in 1..N
  BY <1>0
<1>13. \A g : Body(g) = [n \in 0..N |-> Body(g)[n]]
  OBVIOUS
<1> HIDE DEF Body
<1>14. h = Body(h)
  <2>1. ASSUME NEW n \in 0..N PROVE h[n] = Body(h)[n]
    BY <1>4, <1>5, <1>10, <1>11, <1>12
  <2>2. h = [n \in 0..N |-> h[n]]
    BY <1>10
  <2> QED
    BY <2>1, <2>2, <1>13
<1>15. f = Body(f)
  BY <1>14
<1> HIDE DEF f
<1>16. f[0] = first /\ \A n \in 1..N : f[n] = VisitStep(d, f[n - 1])
  BY <1>4, <1>5, <1>15
<1>17. \A n \in 0..N : f[n] = h[n]
  <2> DEFINE P == {n \in 0..N : f[n] = h[n]}
  <2>1. 0 \in P
    BY <1>0, <1>10, <1>16
  <2>2. ASSUME NEW n \in 1..N, n - 1 \in P PROVE n \in P
    <3>1. n \in 0..N /\ f[n - 1] = h[n - 1]
      BY <1>0, <2>2
    <3> QED
      BY <3>1, <1>11, <1>16
  <2>3. \A n \in 0..N : n \in P
    <3> HIDE DEF P
    <3> QED
      BY <1>0, <2>1, <2>2, UpTo
  <2> QED
    BY <2>3
<1>18. Visits(h, d)
  BY <1>10, <1>11 DEF Visits, T, first, N, I
<1>19. \A r \in I : Preorder(d, r) = h[N][r]
  BY <1>0, <1>1, <1>17
<1> QED
  BY <1>18, <1>19 DEF N, I

-----------------------------------------------------------------------------
(* Trees: what a visit reaches *)

\* A visit of a message reaches it, and what the visits of its children reach.
LEMMA VisitStart ==
  ASSUME NEW d, IsTree(d), NEW v, Visits(v, d), NEW m \in Ids(d)
  PROVE  ToSet(v[0][m]) = {m} /\ IsInjective(v[0][m])
<1>1. v[0][m] = <<m>>
  BY DEF Visits
<1>2. ToSet(<<m>>) = {m} /\ IsInjective(<<m>>)
  BY DEF ToSet, IsInjective
<1> QED
  BY <1>1, <1>2

LEMMA VisitBelow ==
  ASSUME NEW d, IsTree(d), NEW v, Visits(v, d), NEW m \in Ids(d),
         NEW n \in 1..Cardinality(Ids(d))
  PROVE  /\ ToSet(v[n][m]) = {m} \cup UNION {ToSet(v[n - 1][c]) : c \in ChildSet(d, m)}
         /\ (/\ \A c \in ChildSet(d, m) : IsInjective(v[n - 1][c]) /\ m \notin ToSet(v[n - 1][c])
             /\ \A b, c \in ChildSet(d, m) :
                  b # c => ToSet(v[n - 1][b]) \cap ToSet(v[n - 1][c]) = {})
            => IsInjective(v[n][m])
<1> DEFINE w == v[n - 1]
           parts == Parts(d, w, m)
           flat == FlattenSeq(parts)
<1>0. Cardinality(Ids(d)) \in Nat
  BY TreeShape
<1>1. w \in [Ids(d) -> Seq(Ids(d))]
  BY <1>0 DEF Visits
<1>2. v[n][m] = <<m>> \o flat
  BY DEF Visits, VisitStep
<1> HIDE DEF w
<1>3. parts \in Seq(Seq(Ids(d))) /\ Len(parts) = Len(d.msgs[m].children)
  BY <1>1, VisitPartsType
<1>x. \A i \in 1..Len(parts) :
        d.msgs[m].children[i] \in ChildSet(d, m) /\ parts[i] = w[d.msgs[m].children[i]]
  BY <1>1, VisitPart
<1>y. \A c \in ChildSet(d, m) : \E i \in 1..Len(parts) : d.msgs[m].children[i] = c
  BY <1>1, VisitPartOf
<1> HIDE DEF parts
<1>4. flat \in Seq(Ids(d)) /\ ToSet(flat) = UNION {ToSet(parts[i]) : i \in 1..Len(parts)}
  BY <1>3, FlattenTakes
<1>5. <<m>> \in Seq(Ids(d)) /\ ToSet(<<m>>) = {m} /\ IsInjective(<<m>>)
  BY DEF ToSet, IsInjective
<1>6. ToSet(flat) = UNION {ToSet(w[c]) : c \in ChildSet(d, m)}
  <2>1. \A i \in 1..Len(parts) : \E c \in ChildSet(d, m) : ToSet(parts[i]) = ToSet(w[c])
    BY <1>x
  <2>2. ASSUME NEW c \in ChildSet(d, m)
        PROVE  \E i \in 1..Len(parts) : ToSet(parts[i]) = ToSet(w[c])
    <3>1. PICK i \in 1..Len(parts) : d.msgs[m].children[i] = c
      BY <1>y
    <3> QED
      BY <3>1, <1>x
  <2> QED
    BY <1>4, <2>1, <2>2
<1> DEFINE one == <<m>>
<1> HIDE DEF flat, one
<1>7. ToSet(one \o flat) = ToSet(one) \cup ToSet(flat)
  <2>1. one \in Seq(Ids(d)) /\ flat \in Seq(Ids(d))
    BY <1>4, <1>5 DEF one
  <2> QED
    BY <2>1, ConcatSet
<1>8. ToSet(v[n][m]) = {m} \cup UNION {ToSet(w[c]) : c \in ChildSet(d, m)}
  BY <1>2, <1>5, <1>6, <1>7 DEF one
<1>9. ASSUME \A c \in ChildSet(d, m) : IsInjective(w[c]) /\ m \notin ToSet(w[c]),
             \A b, c \in ChildSet(d, m) : b # c => ToSet(w[b]) \cap ToSet(w[c]) = {}
      PROVE  IsInjective(v[n][m])
  <2>1. \A i, j \in 1..Len(parts) : d.msgs[m].children[i] = d.msgs[m].children[j] => i = j
    <3>1. d.msgs[m].children \in Seq(Ids(d)) /\ IsInjective(d.msgs[m].children)
      BY TreeShape
    <3>2. DOMAIN d.msgs[m].children = 1..Len(parts)
      BY <3>1, <1>3
    <3> QED
      BY <3>1, <3>2 DEF IsInjective
  <2>2. Apart(parts)
    <3>1. ASSUME NEW i \in 1..Len(parts) PROVE IsInjective(parts[i])
      BY <1>x, <1>9
    <3>2. ASSUME NEW i \in 1..Len(parts), NEW j \in 1..Len(parts), i # j
          PROVE  ToSet(parts[i]) \cap ToSet(parts[j]) = {}
      <4>1. d.msgs[m].children[i] # d.msgs[m].children[j]
        BY <2>1, <3>2
      <4>2. parts[i] = w[d.msgs[m].children[i]] /\ parts[j] = w[d.msgs[m].children[j]]
        BY <1>x
      <4>3. d.msgs[m].children[i] \in ChildSet(d, m) /\ d.msgs[m].children[j] \in ChildSet(d, m)
        BY <1>x
      <4> QED
        BY <1>9, <4>1, <4>2, <4>3
    <3> QED
      BY <3>1, <3>2 DEF Apart
  <2>3. IsInjective(flat)
    BY <1>3, <2>2, FlattenInjective DEF flat
  <2>4. ToSet(one) \cap ToSet(flat) = {}
    BY <1>5, <1>6, <1>9 DEF one
  <2>5. IsInjective(one \o flat)
    <3>1. one \in Seq(Ids(d)) /\ flat \in Seq(Ids(d)) /\ IsInjective(one)
      BY <1>4, <1>5 DEF one
    <3> QED
      BY <3>1, <2>3, <2>4, ConcatInjective
  <2> QED
    BY <1>2, <2>5 DEF one
<1> QED
  BY <1>8, <1>9 DEF w

LEMMA VisitTypes ==
  ASSUME NEW d, IsTree(d), NEW v, Visits(v, d), NEW m \in Ids(d),
         NEW n \in 0..Cardinality(Ids(d))
  PROVE  /\ v[n][m] \in Seq(Ids(d)) /\ ToSet(v[n][m]) \subseteq Ids(d)
         /\ m \in ToSet(v[n][m])
<1>0. Cardinality(Ids(d)) \in Nat
  BY TreeShape
<1>1. v[n][m] \in Seq(Ids(d))
  BY DEF Visits
<1>2. ToSet(v[n][m]) \subseteq Ids(d)
  BY <1>1 DEF ToSet
<1>3. n = 0 \/ n \in 1..Cardinality(Ids(d))
  BY <1>0
<1>4. m \in ToSet(v[n][m])
  BY <1>3, VisitStart, VisitBelow
<1> QED
  BY <1>1, <1>2, <1>4

\* One level more reaches no less, and the children of all that was reached.
LEMMA VisitsGrow ==
  ASSUME NEW d, IsTree(d), NEW v, Visits(v, d)
  PROVE  \A n \in 1..Cardinality(Ids(d)) : \A m \in Ids(d) :
           /\ ToSet(v[n - 1][m]) \subseteq ToSet(v[n][m])
           /\ \A y \in ToSet(v[n - 1][m]) : ChildSet(d, y) \subseteq ToSet(v[n][m])
<1> DEFINE N == Cardinality(Ids(d))
           W(n, m) == ToSet(v[n][m])
           P == {n \in 0..N : n # 0 => \A m \in Ids(d) :
                   /\ W(n - 1, m) \subseteq W(n, m)
                   /\ \A y \in W(n - 1, m) : ChildSet(d, y) \subseteq W(n, m)}
<1>0. N \in Nat
  BY TreeShape
<1>1. \A m \in Ids(d) : ChildSet(d, m) \subseteq Ids(d)
  BY TreeShape
<1>2. \A m \in Ids(d) : W(0, m) = {m}
  BY VisitStart
<1>3. \A n \in 0..N : \A m \in Ids(d) : m \in W(n, m)
  BY VisitTypes
<1>4. \A n \in 1..N : \A m \in Ids(d) :
        W(n, m) = {m} \cup UNION {W(n - 1, c) : c \in ChildSet(d, m)}
  BY VisitBelow
<1> HIDE DEF W, N
<1>5. 0 \in P
  BY <1>0
<1>6. ASSUME NEW n \in 1..N, n - 1 \in P PROVE n \in P
  <2> SUFFICES ASSUME NEW m \in Ids(d)
               PROVE  /\ W(n - 1, m) \subseteq W(n, m)
                      /\ \A y \in W(n - 1, m) : ChildSet(d, y) \subseteq W(n, m)
    BY <1>0
  <2>1. n - 1 \in 0..N
    BY <1>0
  <2>2. W(n, m) = {m} \cup UNION {W(n - 1, c) : c \in ChildSet(d, m)}
    BY <1>4
  <2>3. ChildSet(d, m) \subseteq W(n, m)
    BY <1>1, <1>3, <2>1, <2>2
  <2>4. CASE n = 1
    <3>1. W(n - 1, m) = {m}
      <4>1. n - 1 = 0
        BY <2>4
      <4> QED
        BY <1>2, <4>1
    <3> QED
      BY <2>2, <2>3, <3>1
  <2>5. CASE n # 1
    <3>1. n - 1 \in 1..N /\ n - 1 # 0
      BY <1>0, <2>5
    <3>2. W(n - 1, m) = {m} \cup UNION {W(n - 1 - 1, c) : c \in ChildSet(d, m)}
      BY <1>4, <3>1
    <3>3. \A c \in ChildSet(d, m) :
            /\ W(n - 1 - 1, c) \subseteq W(n - 1, c)
            /\ \A y \in W(n - 1 - 1, c) : ChildSet(d, y) \subseteq W(n - 1, c)
      BY <1>1, <1>6, <3>1
    <3>4. W(n - 1, m) \subseteq W(n, m)
      BY <2>2, <3>2, <3>3
    <3>5. ASSUME NEW y \in W(n - 1, m) PROVE ChildSet(d, y) \subseteq W(n, m)
      <4>1. CASE y = m
        BY <2>3, <4>1
      <4>2. CASE y # m
        <5>1. PICK c \in ChildSet(d, m) : y \in W(n - 1 - 1, c)
          BY <3>2, <4>2
        <5>2. ChildSet(d, y) \subseteq W(n - 1, c)
          BY <3>3, <5>1
        <5> QED
          BY <2>2, <5>2
      <4> QED
        BY <4>1, <4>2
    <3> QED
      BY <3>4, <3>5
  <2> QED
    BY <2>4, <2>5
<1>7. \A n \in 0..N : n \in P
  <2> HIDE DEF P
  <2> QED
    BY <1>0, <1>5, <1>6, UpTo
<1>8. \A n \in 1..N : n \in 0..N /\ n # 0
  BY <1>0
<1>9. \A n \in 1..N : \A m \in Ids(d) :
        /\ W(n - 1, m) \subseteq W(n, m)
        /\ \A y \in W(n - 1, m) : ChildSet(d, y) \subseteq W(n, m)
  BY <1>7, <1>8
<1> QED
  BY <1>9 DEF W, N

\* What is reached and is not the start has its parent reached one level earlier.
LEMMA VisitedFromParent ==
  ASSUME NEW d, IsTree(d), NEW v, Visits(v, d)
  PROVE  \A n \in 0..Cardinality(Ids(d)) : \A m \in Ids(d) : \A y \in ToSet(v[n][m]) :
           y # m => n # 0 /\ d.msgs[y].parent \in ToSet(v[n - 1][m])
<1> DEFINE N == Cardinality(Ids(d))
           W(n, m) == ToSet(v[n][m])
           P == {n \in 0..N : \A m \in Ids(d) : \A y \in W(n, m) :
                   y # m => n # 0 /\ d.msgs[y].parent \in W(n - 1, m)}
<1>0. N \in Nat
  BY TreeShape
<1>1. \A m \in Ids(d) : ChildSet(d, m) = {c \in Ids(d) : d.msgs[c].parent = m}
  BY TreeShape
<1>2. \A m \in Ids(d) : W(0, m) = {m}
  BY VisitStart
<1>3. \A n \in 0..N : \A m \in Ids(d) : m \in W(n, m)
  BY VisitTypes
<1>4. \A n \in 1..N : \A m \in Ids(d) :
        W(n, m) = {m} \cup UNION {W(n - 1, c) : c \in ChildSet(d, m)}
  BY VisitBelow
<1> HIDE DEF W, N
<1>5. 0 \in P
  BY <1>0, <1>2
<1>6. ASSUME NEW n \in 1..N, n - 1 \in P PROVE n \in P
  <2> SUFFICES ASSUME NEW m \in Ids(d), NEW y \in W(n, m), y # m
               PROVE  n # 0 /\ d.msgs[y].parent \in W(n - 1, m)
    BY <1>0
  <2>1. n # 0 /\ n - 1 \in 0..N
    BY <1>0
  <2>2. PICK c \in ChildSet(d, m) : y \in W(n - 1, c)
    BY <1>4
  <2>3. c \in Ids(d) /\ d.msgs[c].parent = m
    BY <1>1, <2>2
  <2>4. CASE y = c
    BY <1>3, <2>1, <2>3, <2>4
  <2>5. CASE y # c
    <3>1. n - 1 # 0 /\ d.msgs[y].parent \in W(n - 1 - 1, c)
      BY <1>6, <2>2, <2>3, <2>5
    <3>2. n - 1 \in 1..N
      BY <1>0, <3>1
    <3>3. W(n - 1, m) = {m} \cup UNION {W(n - 1 - 1, e) : e \in ChildSet(d, m)}
      BY <1>4, <3>2
    <3> QED
      BY <2>1, <2>2, <3>1, <3>3
  <2> QED
    BY <2>4, <2>5
<1>7. \A n \in 0..N : n \in P
  <2> HIDE DEF P
  <2> QED
    BY <1>0, <1>5, <1>6, UpTo
<1> QED
  BY <1>7 DEF W, N

\* What a visit of a child reaches does not include the message itself.
LEMMA VisitStaysBelow ==
  ASSUME NEW d, IsTree(d), NEW v, Visits(v, d), NEW n \in 0..Cardinality(Ids(d)),
         NEW m \in Ids(d), NEW c \in ChildSet(d, m)
  PROVE  m \notin ToSet(v[n][c])
<1> DEFINE S == ToSet(v[n][c])
<1> SUFFICES ASSUME m \in S PROVE FALSE
  OBVIOUS
<1>0. Cardinality(Ids(d)) \in Nat
  BY TreeShape
<1>1. c \in Ids(d) /\ d.msgs[c].parent = m
  BY TreeShape
<1>2. c \in S /\ S \subseteq Ids(d)
  BY <1>1, VisitTypes
<1>3. ASSUME NEW y \in S PROVE d.msgs[y].parent \in S
  <2>1. CASE y = c
    BY <1>1, <2>1
  <2>2. CASE y # c
    <3>1. n # 0 /\ d.msgs[y].parent \in ToSet(v[n - 1][c])
      BY <1>1, <2>2, VisitedFromParent
    <3>2. n \in 1..Cardinality(Ids(d))
      BY <1>0, <3>1
    <3>3. ToSet(v[n - 1][c]) \subseteq S
      BY <1>1, <3>2, VisitsGrow
    <3> QED
      BY <3>1, <3>3
  <2> QED
    BY <2>1, <2>2
<1> HIDE DEF S
<1>4. \E y \in S : d.msgs[y].parent \notin S
  BY <1>2 DEF IsTree, Grounded
<1> QED
  BY <1>3, <1>4

LEMMA VisitsApart ==
  ASSUME NEW d, IsTree(d), NEW v, Visits(v, d)
  PROVE  \A n \in 0..Cardinality(Ids(d)) : \A m \in Ids(d) : \A b, c \in ChildSet(d, m) :
           b # c => ToSet(v[n][b]) \cap ToSet(v[n][c]) = {}
<1> DEFINE N == Cardinality(Ids(d))
           W(n, m) == ToSet(v[n][m])
           P == {n \in 0..N : \A m \in Ids(d) : \A b, c \in ChildSet(d, m) :
                   b # c => W(n, b) \cap W(n, c) = {}}
<1>0. N \in Nat
  BY TreeShape
<1>1. \A m \in Ids(d) : \A c \in ChildSet(d, m) : c \in Ids(d) /\ d.msgs[c].parent = m
  BY TreeShape
<1>2. \A m \in Ids(d) : W(0, m) = {m}
  BY VisitStart
<1>3. \A n \in 0..N : \A m \in Ids(d) : \A y \in W(n, m) :
        y # m => n # 0 /\ d.msgs[y].parent \in W(n - 1, m)
  BY VisitedFromParent
<1>4. \A n \in 0..N : \A m \in Ids(d) : \A c \in ChildSet(d, m) : m \notin W(n, c)
  BY VisitStaysBelow
<1> HIDE DEF W, N
<1>5. 0 \in P
  BY <1>0, <1>1, <1>2
<1>6. ASSUME NEW n \in 1..N, n - 1 \in P PROVE n \in P
  <2> SUFFICES ASSUME NEW m \in Ids(d), NEW b \in ChildSet(d, m), NEW c \in ChildSet(d, m),
                      b # c, NEW y \in W(n, b), y \in W(n, c)
               PROVE  FALSE
    BY <1>0
  <2>0. n \in 0..N /\ n - 1 \in 0..N
    BY <1>0
  <2>1. b \in Ids(d) /\ c \in Ids(d) /\ d.msgs[b].parent = m /\ d.msgs[c].parent = m
    BY <1>1
  <2>2. CASE y = b
    <3>1. m \in W(n - 1, c)
      BY <1>3, <2>0, <2>1, <2>2
    <3> QED
      BY <1>4, <2>0, <3>1
  <2>3. CASE y = c
    <3>1. m \in W(n - 1, b)
      BY <1>3, <2>0, <2>1, <2>3
    <3> QED
      BY <1>4, <2>0, <3>1
  <2>4. CASE y # b /\ y # c
    <3>1. d.msgs[y].parent \in W(n - 1, b) /\ d.msgs[y].parent \in W(n - 1, c)
      BY <1>3, <2>0, <2>1, <2>4
    <3> QED
      BY <1>6, <3>1
  <2> QED
    BY <2>2, <2>3, <2>4
<1>7. \A n \in 0..N : n \in P
  <2> HIDE DEF P
  <2> QED
    BY <1>0, <1>5, <1>6, UpTo
<1> QED
  BY <1>7 DEF W, N

\* No message is visited twice.
LEMMA VisitInjective ==
  ASSUME NEW d, IsTree(d), NEW v, Visits(v, d)
  PROVE  \A n \in 0..Cardinality(Ids(d)) : \A m \in Ids(d) : IsInjective(v[n][m])
<1> DEFINE N == Cardinality(Ids(d))
           P == {n \in 0..N : \A m \in Ids(d) : IsInjective(v[n][m])}
<1>0. N \in Nat
  BY TreeShape
<1>1. 0 \in P
  BY <1>0, VisitStart
<1>2. ASSUME NEW n \in 1..N, n - 1 \in P PROVE n \in P
  <2>0. n \in 0..N /\ n - 1 \in 0..N
    BY <1>0
  <2>1. ASSUME NEW m \in Ids(d) PROVE IsInjective(v[n][m])
    <3>1. ASSUME NEW c \in ChildSet(d, m)
          PROVE  IsInjective(v[n - 1][c]) /\ m \notin ToSet(v[n - 1][c])
      <4>1. c \in Ids(d)
        BY TreeShape
      <4> QED
        BY <4>1, <1>2, <2>0, VisitStaysBelow
    <3>2. \A b, c \in ChildSet(d, m) : b # c => ToSet(v[n - 1][b]) \cap ToSet(v[n - 1][c]) = {}
      BY <2>0, VisitsApart
    <3> QED
      BY <3>1, <3>2, VisitBelow
  <2> QED
    BY <2>0, <2>1
<1>3. \A n \in 0..N : n \in P
  <2> HIDE DEF P, N
  <2> QED
    BY <1>0, <1>1, <1>2, UpTo
<1> QED
  BY <1>3

\* The visit of the root reaches every message.
LEMMA VisitReachesAll ==
  ASSUME NEW d, IsTree(d), NEW v, Visits(v, d), NEW r \in Ids(d), Roots(d) = {r}
  PROVE  ToSet(v[Cardinality(Ids(d))][r]) = Ids(d)
<1> DEFINE N == Cardinality(Ids(d))
           W(n) == ToSet(v[n][r])
           P == {n \in 0..N : W(n) = Ids(d) \/ Cardinality(W(n)) > n}
<1>0. N \in Nat /\ IsFiniteSet(Ids(d))
  BY TreeShape
<1>1. \A n \in 0..N : W(n) \subseteq Ids(d) /\ r \in W(n)
  BY VisitTypes
<1>2. \A n \in 0..N : IsFiniteSet(W(n)) /\ Cardinality(W(n)) \in Nat /\ Cardinality(W(n)) <= N
  BY <1>0, <1>1, FS_Subset, FS_CardinalityType
<1>3. W(0) = {r}
  BY VisitStart
<1>4. \A n \in 1..N : /\ W(n - 1) \subseteq W(n)
                      /\ \A y \in W(n - 1) : ChildSet(d, y) \subseteq W(n)
  BY VisitsGrow
<1>5. \A m \in Ids(d) : /\ d.msgs[m].parent \in Ids(d) \cup {None}
                        /\ ChildSet(d, m) = {c \in Ids(d) : d.msgs[c].parent = m}
  BY TreeShape
<1> HIDE DEF W, N
<1>6. 0 \in P
  <2>1. Cardinality(W(0)) = 1
    BY <1>3, FS_Singleton
  <2> QED
    BY <1>0, <2>1
<1>7. ASSUME NEW n \in 1..N, n - 1 \in P PROVE n \in P
  <2>0. n \in 0..N /\ n - 1 \in 0..N
    BY <1>0
  <2>1. CASE W(n - 1) = Ids(d)
    BY <1>1, <1>4, <2>0, <2>1
  <2>2. CASE W(n - 1) # Ids(d)
    <3>1. Cardinality(W(n - 1)) > n - 1
      BY <1>7, <2>2
    <3> DEFINE S == Ids(d) \ W(n - 1)
    <3>2. S \in SUBSET Ids(d) /\ S # {}
      BY <1>1, <2>0, <2>2
    <3> HIDE DEF S
    <3>3. PICK s \in S : d.msgs[s].parent \notin S
      BY <3>2 DEF IsTree, Grounded
    <3>4. s \in Ids(d) /\ s \notin W(n - 1)
      BY <3>3 DEF S
    <3>5. d.msgs[s].parent # None
      <4>1. s # r
        BY <1>1, <2>0, <3>4
      <4> QED
        BY <3>4, <4>1 DEF Roots
    <3>6. d.msgs[s].parent \in Ids(d)
      BY <1>5, <3>4, <3>5
    <3>7. d.msgs[s].parent \in W(n - 1)
      BY <3>3, <3>6 DEF S
    <3>8. s \in ChildSet(d, d.msgs[s].parent)
      BY <1>5, <3>4, <3>6
    <3>9. W(n - 1) \cup {s} \subseteq W(n)
      BY <1>4, <3>7, <3>8
    <3>10. Cardinality(W(n - 1) \cup {s}) = Cardinality(W(n - 1)) + 1
      BY <1>2, <2>0, <3>4, FS_AddElement
    <3>11. Cardinality(W(n - 1) \cup {s}) <= Cardinality(W(n))
      BY <1>2, <2>0, <3>9, FS_Subset
    <3> QED
      BY <1>0, <1>2, <2>0, <3>1, <3>10, <3>11
  <2> QED
    BY <2>1, <2>2
<1>8. \A n \in 0..N : n \in P
  <2> HIDE DEF P
  <2> QED
    BY <1>0, <1>6, <1>7, UpTo
<1>9. N \in 0..N
  BY <1>0
<1>10. W(N) = Ids(d)
  BY <1>0, <1>2, <1>8, <1>9
<1> QED
  BY <1>10 DEF W, N

\* The visit of a tree has each message once.
LEMMA PreorderOfTree ==
  ASSUME NEW d, IsTree(d), NEW r \in Ids(d), Roots(d) = {r}
  PROVE  /\ Preorder(d, r) \in Seq(Ids(d)) /\ IsInjective(Preorder(d, r))
         /\ ToSet(Preorder(d, r)) = Ids(d)
         /\ Len(Preorder(d, r)) = Cardinality(Ids(d))
         /\ (CHOOSE x \in Roots(d) : TRUE) = r
<1>0. Cardinality(Ids(d)) \in 0..Cardinality(Ids(d))
  BY TreeShape
<1>1. PICK v : Visits(v, d) /\ \A m \in Ids(d) : Preorder(d, m) = v[Cardinality(Ids(d))][m]
  BY PreorderIsDefined
<1>2. Preorder(d, r) = v[Cardinality(Ids(d))][r]
  BY <1>1
<1>3. Preorder(d, r) \in Seq(Ids(d))
  BY <1>0, <1>1, <1>2, VisitTypes
<1>4. IsInjective(Preorder(d, r))
  BY <1>0, <1>1, <1>2, VisitInjective
<1>5. ToSet(Preorder(d, r)) = Ids(d)
  BY <1>1, <1>2, VisitReachesAll
<1>6. Len(Preorder(d, r)) = Cardinality(Ids(d))
  BY <1>3, <1>4, <1>5, InjectiveLength
<1> QED
  BY <1>3, <1>4, <1>5, <1>6

-----------------------------------------------------------------------------
(* Trees: the way up *)

ClimbStep(d, t) ==
  IF d.msgs[Head(t)].parent = None THEN t ELSE <<d.msgs[Head(t)].parent>> \o t

Climbs(f, d, m) ==
  /\ f[0] = <<m>>
  /\ \A n \in 1..Cardinality(Ids(d)) : f[n] = ClimbStep(d, f[n - 1])

LEMMA ClimbStepType ==
  ASSUME NEW d, IsTree(d), NEW t \in Seq(Ids(d)) \ {<<>>}
  PROVE  ClimbStep(d, t) \in Seq(Ids(d)) \ {<<>>}
<1>1. Head(t) \in Ids(d)
  OBVIOUS
<1>2. d.msgs[Head(t)].parent \in Ids(d) \cup {None}
  BY <1>1, TreeShape
<1> DEFINE p == d.msgs[Head(t)].parent
<1>3. ClimbStep(d, t) = IF p = None THEN t ELSE <<p>> \o t
  BY DEF ClimbStep
<1>4. p \in Ids(d) \cup {None}
  BY <1>2
<1> HIDE DEF p
<1>5. p \in Ids(d) => <<p>> \o t \in Seq(Ids(d)) /\ <<p>> \o t # <<>>
  OBVIOUS
<1> QED
  BY <1>3, <1>4, <1>5

LEMMA PathIsDefined ==
  ASSUME NEW d, IsTree(d), NEW m \in Ids(d)
  PROVE  \E f : Climbs(f, d, m) /\ PathTo(d, m) = f[Cardinality(Ids(d))]
<1> DEFINE N == Cardinality(Ids(d))
           T == Seq(Ids(d)) \ {<<>>}
           first == <<m>>
           step == [n \in 1..N |-> [t \in T |-> ClimbStep(d, t)]]
           Body(g) ==
             [n \in 0..N |->
                IF n = 0 THEN <<m>>
                ELSE LET above == d.msgs[Head(g[n - 1])].parent
                     IN  IF above = None THEN g[n - 1] ELSE <<above>> \o g[n - 1]]
           f == CHOOSE g : g = Body(g)
<1>0. N \in Nat
  BY TreeShape
<1>1. PathTo(d, m) = f[N]
  BY Zenon DEF PathTo
<1>2. first \in T
  OBVIOUS
<1>3. \A t \in T : ClimbStep(d, t) \in T
  BY ClimbStepType
<1>4. \A g : Body(g)[0] = first
  BY <1>0
<1>5. \A g : \A n \in 1..N : Body(g)[n] = ClimbStep(d, g[n - 1])
  <2> SUFFICES ASSUME NEW g, NEW n \in 1..N PROVE Body(g)[n] = ClimbStep(d, g[n - 1])
    OBVIOUS
  <2>1. n \in 0..N /\ n # 0
    BY <1>0
  <2>2. Body(g)[n] = IF d.msgs[Head(g[n - 1])].parent = None THEN g[n - 1]
                     ELSE <<d.msgs[Head(g[n - 1])].parent>> \o g[n - 1]
    BY <2>1, Zenon
  <2> QED
    BY <2>2, Zenon DEF ClimbStep
<1> HIDE DEF T, first
<1>7. step \in Steps(N, T)
  BY <1>3 DEF Steps
<1>8. \A n \in 1..N, t \in T : step[n][t] = ClimbStep(d, t)
  OBVIOUS
<1> HIDE DEF step, N
<1>9. PICK h : Follows(h, N, T, first, step)
  BY <1>0, <1>2, <1>7, RecursionIsDefined
<1>10. h \in [0..N -> T] /\ h[0] = first /\ \A n \in 1..N : h[n] = step[n][h[n - 1]]
  BY <1>9 DEF Follows
<1>11. \A n \in 1..N : h[n] = ClimbStep(d, h[n - 1])
  <2>1. \A n \in 1..N : h[n - 1] \in T
    BY <1>0, <1>10
  <2> QED
    BY <2>1, <1>8, <1>10
<1>12. \A n \in 0..N : n = 0 \/ n \in 1..N
  BY <1>0
<1>13. \A g : Body(g) = [n \in 0..N |-> Body(g)[n]]
  OBVIOUS
<1> HIDE DEF Body
<1>14. h = Body(h)
  <2>1. ASSUME NEW n \in 0..N PROVE h[n] = Body(h)[n]
    BY <1>4, <1>5, <1>10, <1>11, <1>12
  <2>2. h = [n \in 0..N |-> h[n]]
    BY <1>10
  <2> QED
    BY <2>1, <2>2, <1>13
<1>15. f = Body(f)
  BY <1>14
<1> HIDE DEF f
<1>16. f[0] = first /\ \A n \in 1..N : f[n] = ClimbStep(d, f[n - 1])
  BY <1>4, <1>5, <1>15
<1>17. Climbs(f, d, m)
  BY <1>16 DEF Climbs, first, N
<1> QED
  BY <1>1, <1>17 DEF N

\* Messages each of which is the parent of the next, from the root on.
IsBranch(d, names) ==
  /\ names \in Seq(Ids(d)) /\ Len(names) > 0 /\ IsInjective(names)
  /\ d.msgs[names[1]].parent = None
  /\ \A i \in 2..Len(names) : d.msgs[names[i]].parent = names[i - 1]

\* Such a branch is the path to its last message.
LEMMA PathIsBranch ==
  ASSUME NEW d, IsTree(d), NEW names, IsBranch(d, names)
  PROVE  PathTo(d, Last(names)) = names
<1> DEFINE N == Cardinality(Ids(d))
           I == Ids(d)
           L == Len(names)
           m == Last(names)
           Rest(n) == SubSeq(names, L - n, L)
<1>0. N \in Nat /\ IsFiniteSet(I) /\ None \notin I
  BY TreeShape
<1>1. /\ names \in Seq(I) /\ L \in Nat /\ L > 0 /\ IsInjective(names)
      /\ DOMAIN names = 1..L /\ \A i \in 1..L : names[i] \in I
  BY DEF IsBranch
<1>2. d.msgs[names[1]].parent = None /\ \A i \in 2..L : d.msgs[names[i]].parent = names[i - 1]
  BY DEF IsBranch
<1>3. L <= N
  <2>1. ToSet(names) \subseteq I /\ Cardinality(ToSet(names)) = L
    BY <1>1, InjectiveLength DEF ToSet
  <2> QED
    BY <1>0, <2>1, FS_Subset
<1>4. m \in I /\ m = names[L]
  BY <1>1 DEF Last
<1>5. PICK f : Climbs(f, d, m) /\ PathTo(d, m) = f[N]
  BY <1>4, PathIsDefined
<1>6. f[0] = <<m>> /\ \A n \in 1..N : f[n] = ClimbStep(d, f[n - 1])
  BY <1>5 DEF Climbs
<1>7. ASSUME NEW n \in 0..(L - 1)
      PROVE  Rest(n) \in Seq(I) /\ Rest(n) # <<>> /\ Head(Rest(n)) = names[L - n]
  <2>1. L - n \in 1..L
    BY <1>1
  <2> DEFINE k == L - n
  <2> HIDE DEF k
  <2>2. k \in 1..L
    BY <2>1 DEF k
  <2>3. /\ SubSeq(names, k, L) \in Seq(I) /\ SubSeq(names, k, L) # <<>>
        /\ Head(SubSeq(names, k, L)) = names[k]
    BY <1>1, <2>2, RestOfSequence
  <2> QED
    BY <2>3 DEF k
<1>8. ASSUME NEW n \in 1..(L - 1) PROVE <<names[L - n]>> \o Rest(n - 1) = Rest(n)
  <2> DEFINE k == L - n
  <2>1. k \in 1..(L - 1) /\ L - (n - 1) = k + 1
    BY <1>1
  <2> HIDE DEF k
  <2>2. <<names[k]>> \o SubSeq(names, k + 1, L) = SubSeq(names, k, L)
    BY <1>1, <2>1
  <2> QED
    BY <2>1, <2>2 DEF k
<1>9. Rest(0) = <<m>>
  <2>1. L \in 1..Len(names) /\ L - 0 = L
    BY <1>1
  <2>2. SubSeq(names, Len(names), Len(names)) = <<names[Len(names)]>>
    BY <1>1, <2>1, RestOfSequence
  <2> QED
    BY <1>4, <2>1, <2>2
<1>10. Rest(L - 1) = names
  BY <1>1
<1> DEFINE P == {n \in 0..N : f[n] = IF n < L THEN Rest(n) ELSE names}
<1>11. 0 \in P
  <2>1. 0 \in 0..N /\ 0 < L
    BY <1>0, <1>1
  <2>2. f[0] = Rest(0)
    BY <1>6, <1>9
  <2> HIDE DEF Rest, L, N
  <2> QED
    BY <2>1, <2>2
<1>12. ASSUME NEW n \in 1..N, n - 1 \in P PROVE n \in P
  <2>0. n \in 0..N /\ f[n] = ClimbStep(d, f[n - 1])
    BY <1>0, <1>6
  <2>1. CASE n < L
    <3>1. n \in 1..(L - 1) /\ n - 1 \in 0..(L - 1) /\ n - 1 < L
      BY <1>1, <2>1
    <3>2. f[n - 1] = Rest(n - 1)
      BY <1>12, <3>1
    <3>3. Head(Rest(n - 1)) = names[L - (n - 1)]
      BY <1>7, <3>1
    <3>4. L - (n - 1) \in 2..L /\ L - (n - 1) - 1 = L - n /\ L - n \in 1..L
      BY <1>1, <3>1
    <3>5. d.msgs[names[L - (n - 1)]].parent = names[L - n]
      BY <1>2, <3>4
    <3>6. names[L - n] # None
      BY <1>0, <1>1, <3>4
    <3> HIDE DEF Rest, m, L
    <3>7. f[n] = <<names[L - n]>> \o Rest(n - 1)
      BY <2>0, <3>2, <3>3, <3>5, <3>6 DEF ClimbStep
    <3>8. f[n] = Rest(n)
      BY <1>8, <3>1, <3>7
    <3> QED
      BY <2>0, <2>1, <3>8
  <2>2. CASE ~(n < L)
    <3>1. f[n - 1] = names
      <4>1. CASE n - 1 < L
        <5>1. n - 1 = L - 1
          <6>1. n \in Nat /\ L \in Nat
            BY <1>0, <1>1
          <6> HIDE DEF L
          <6> QED
            BY ONLY <6>1, <2>2, <4>1
        <5> HIDE DEF Rest, L
        <5> QED
          BY <1>10, <1>12, <4>1, <5>1
      <4>2. CASE ~(n - 1 < L)
        BY <1>12, <4>2
      <4> QED
        BY <4>1, <4>2
    <3>2. Head(names) = names[1]
      BY <1>1
    <3>3. f[n] = names
      BY <1>2, <2>0, <3>1, <3>2 DEF ClimbStep
    <3> QED
      BY <2>0, <2>2, <3>3
  <2> QED
    BY <2>1, <2>2
<1>13. \A n \in 0..N : n \in P
  <2> HIDE DEF P, N
  <2> QED
    BY <1>0, <1>11, <1>12, UpTo
<1>14. N \in P /\ ~(N < L)
  BY <1>0, <1>1, <1>3, <1>13
<1>15. f[N] = names
  BY <1>14
<1> QED
  BY <1>5, <1>15

\* A tree that shows a branch down to a leaf is what normalizeChat accepts.
LEMMA TreeIsWhole ==
  ASSUME NEW d, IsTree(d), IsBranch(d, d.active), d.current = Last(d.active),
         d.msgs[d.current].children = <<>>
  PROVE  IsWhole(d)
<1>1. PICK r \in Ids(d) : Roots(d) = {r}
  BY DEF IsTree
<1>2. Cardinality(Roots(d)) = 1
  BY <1>1, FS_Singleton
<1>3. LinksAgree(d)
  BY DEF IsTree
<1>4. d.current \in Ids(d)
  BY DEF IsBranch, Last
<1>5. Len(Preorder(d, CHOOSE x \in Roots(d) : TRUE)) = Cardinality(Ids(d))
  BY <1>1, PreorderOfTree
<1>6. d.active = PathTo(d, d.current)
  BY PathIsBranch
<1> QED
  BY <1>2, <1>3, <1>4, <1>5, <1>6 DEF IsWhole

\* A line is one tree that shows its one branch.
LEMMA LineIsTree ==
  ASSUME NEW s \in Sources, NEW names, Named(s, names), NEW d, IsLine(d, s, names)
  PROVE  /\ IsTree(d) /\ Roots(d) = {names[1]}
         /\ IsBranch(d, names) /\ d.current = Last(names) /\ d.msgs[d.current].children = <<>>
<1> DEFINE L == Len(s.msgs)
<1>0. /\ L \in Nat /\ L > 0 /\ DOMAIN names = 1..L /\ Len(names) = L /\ 1 \in 1..L /\ L \in 1..L
      /\ names \in Seq(GateNames)
      /\ \A i, j \in 1..L : names[i] = names[j] => i = j
      /\ \A i \in 1..L : names[i] # None
  BY NamedShape DEF Named
<1>1. /\ Ids(d) = ToSet(names) /\ \A i \in 1..L : names[i] \in Ids(d)
      /\ \A m \in Ids(d) : \E i \in 1..L : m = names[i]
      /\ d.active = names /\ d.current = names[L]
  BY LineShape
<1>2. \A i \in 1..L : d.msgs[names[i]].parent = IF i = 1 THEN None ELSE names[i - 1]
  BY LineParent
<1>3. \A i \in 1..L : d.msgs[names[i]].children = IF i = L THEN <<>> ELSE <<names[i + 1]>>
  BY LineChildren
<1>4. IsDocument(d)
  <2>1. ASSUME NEW m \in Ids(d)
        PROVE  d.msgs[m] = [parent |-> d.msgs[m].parent, children |-> d.msgs[m].children,
                            src |-> d.msgs[m].src, node |-> d.msgs[m].node,
                            text |-> d.msgs[m].text, time |-> d.msgs[m].time]
    <3>1. PICK i \in 1..L : m = names[i]
      BY <1>1
    <3>2. d.msgs[m] = LineMessage(s, names, i, d.msgs[names[i]].time)
      BY <3>1, LineEntry
    <3> QED
      BY <3>2 DEF LineMessage
  <2>2. d.msgs = [m \in Ids(d) |-> d.msgs[m]]
    BY DEF IsLine, Ids
  <2>4. d = [title |-> d.title, current |-> d.current, active |-> d.active, msgs |-> d.msgs]
    BY DEF IsLine
  <2>5. IsFiniteSet(Ids(d))
    <3>1. IsInjective(names)
      BY <1>0 DEF IsInjective
    <3> QED
      BY <1>0, <1>1, <3>1, InjectiveLength
  <2>6. ASSUME NEW m \in Ids(d) PROVE d.msgs[m].children \in Seq(Ids(d))
    <3>1. PICK i \in 1..L : m = names[i]
      BY <1>1
    <3>2. CASE i = L
      <4>1. d.msgs[m].children = <<>>
        BY <1>3, <3>1, <3>2
      <4> QED
        BY <4>1
    <3>3. CASE i # L
      <4>1. i + 1 \in 1..L
        BY <1>0, <3>3
      <4>2. d.msgs[m].children = <<names[i + 1]>>
        BY <1>3, <3>1, <3>3
      <4> QED
        BY <1>1, <4>1, <4>2
    <3> QED
      BY <3>2, <3>3
  <2> QED
    BY <2>1, <2>2, <2>4, <2>5, <2>6 DEF IsDocument
<1>5. None \notin Ids(d)
  BY <1>0, <1>1
<1>6. Roots(d) = {names[1]}
  <2>1. d.msgs[names[1]].parent = None
    BY <1>0, <1>2
  <2>2. ASSUME NEW i \in 1..L, i # 1 PROVE d.msgs[names[i]].parent # None
    <3>1. i - 1 \in 1..L
      BY <1>0, <2>2
    <3> QED
      BY <1>0, <1>2, <2>2, <3>1
  <2> QED
    BY <1>0, <1>1, <2>1, <2>2 DEF Roots
<1>7. LinksAgree(d)
  <2> SUFFICES ASSUME NEW i \in 1..L
               PROVE  /\ IsInjective(d.msgs[names[i]].children)
                      /\ \A c \in ChildSet(d, names[i]) :
                           c \in Ids(d) /\ d.msgs[c].parent = names[i]
                      /\ d.msgs[names[i]].parent # None =>
                           /\ d.msgs[names[i]].parent \in Ids(d)
                           /\ names[i] \in ChildSet(d, d.msgs[names[i]].parent)
    BY <1>1 DEF LinksAgree
  <2> DEFINE kids == d.msgs[names[i]].children
  <2>1. kids = IF i = L THEN <<>> ELSE <<names[i + 1]>>
    BY <1>3
  <2>2. IsInjective(kids) /\ ToSet(kids) = IF i = L THEN {} ELSE {names[i + 1]}
    <3>1. IsInjective(<<>>) /\ ToSet(<<>>) = {}
      BY DEF IsInjective, ToSet
    <3>2. \A x : IsInjective(<<x>>) /\ ToSet(<<x>>) = {x}
      BY DEF IsInjective, ToSet
    <3> HIDE DEF kids
    <3> QED
      BY <2>1, <3>1, <3>2
  <2>3. ChildSet(d, names[i]) = IF i = L THEN {} ELSE {names[i + 1]}
    BY <2>2 DEF ChildSet
  <2>4. ASSUME i # L PROVE names[i + 1] \in Ids(d) /\ d.msgs[names[i + 1]].parent = names[i]
    <3>1. i + 1 \in 1..L /\ i + 1 # 1 /\ i + 1 - 1 = i
      BY <1>0, <2>4
    <3> DEFINE k == i + 1
    <3> HIDE DEF k
    <3>2. d.msgs[names[k]].parent = names[k - 1]
      BY <1>2, <3>1 DEF k
    <3> QED
      BY <1>1, <3>1, <3>2 DEF k
  <2>5. ASSUME i # 1
        PROVE  /\ d.msgs[names[i]].parent \in Ids(d)
               /\ names[i] \in ChildSet(d, d.msgs[names[i]].parent)
    <3>1. i - 1 \in 1..L /\ i - 1 # L /\ i - 1 + 1 = i
      BY <1>0, <2>5
    <3> DEFINE k == i - 1
    <3>2. d.msgs[names[i]].parent = names[k]
      BY <1>2, <2>5
    <3> HIDE DEF k
    <3>3. d.msgs[names[k]].children = <<names[k + 1]>> /\ k + 1 = i
      BY <1>3, <3>1 DEF k
    <3>4. d.msgs[names[k]].children = <<names[i]>>
      BY <3>3
    <3>5. names[i] \in ChildSet(d, names[k])
      BY <3>4 DEF ChildSet, ToSet
    <3> QED
      BY <1>1, <3>1, <3>2, <3>5 DEF k
  <2>6. i = 1 => d.msgs[names[i]].parent = None
    BY <1>2
  <2> QED
    BY <2>2, <2>3, <2>4, <2>5, <2>6
<1>8. Grounded(d)
  <2> SUFFICES ASSUME NEW S \in SUBSET Ids(d), S # {}
               PROVE  \E m \in S : d.msgs[m].parent \notin S
    BY DEF Grounded
  <2> DEFINE K == {i \in 1..L : names[i] \in S}
  <2>1. K \subseteq Nat /\ K # {}
    BY <1>1
  <2>2. PICK i \in K : \A j \in K : i <= j
    <3> HIDE DEF K
    <3> QED
      BY <2>1, LeastNumber
  <2>3. CASE i = 1
    BY <1>2, <1>5, <2>3
  <2>4. CASE i # 1
    <3>1. i - 1 \in 1..L /\ ~(i <= i - 1)
      BY <1>0, <2>4
    <3>2. i - 1 \notin K
      BY <2>2, <3>1
    <3> QED
      BY <1>2, <2>4, <3>1, <3>2
  <2> QED
    BY <2>3, <2>4
<1>9. IsTree(d)
  BY <1>0, <1>1, <1>4, <1>5, <1>6, <1>7, <1>8 DEF IsTree
<1>10. IsBranch(d, names)
  <2>1. names \in Seq(Ids(d))
    BY <1>0, <1>1
  <2>2. IsInjective(names)
    BY <1>0 DEF IsInjective
  <2>3. d.msgs[names[1]].parent = None /\ \A i \in 2..L : d.msgs[names[i]].parent = names[i - 1]
    BY <1>0, <1>2
  <2> QED
    BY <1>0, <2>1, <2>2, <2>3 DEF IsBranch
<1>11. d.current = Last(names) /\ d.msgs[d.current].children = <<>>
  BY <1>0, <1>1, <1>3 DEF Last
<1> QED
  BY <1>6, <1>9, <1>10, <1>11

-----------------------------------------------------------------------------
(* The plan and the write *)

LEMMA LineTitle ==
  ASSUME NEW d, NEW s, NEW names, IsLine(d, s, names)
  PROVE  d.title = TitleOf(s)
BY DEF IsLine

\* What the user confirms is what Service.Apply writes: the messages of the two lists of the
\* plan, the title if the plan says so, and nothing else.
THEOREM DiffIsTheWholeUpdate ==
  SyncSpec => DiffIsTheWholeChange
<1> DEFINE Whole ==
      prev' # prev =>
        LET added == SrcIn(chat') \ SrcIn(chat)
            changed == {id \in SrcIn(chat) : TextIn(chat', id) # TextIn(chat, id)}
        IN  /\ added = Diff.added /\ changed = Diff.modified
            /\ SrcIn(chat) \subseteq SrcIn(chat')
            /\ IF Diff.title = "sync_source" THEN chat'.title = TitleOf(prev')
               ELSE chat'.title = chat.title
<1>1. ASSUME BaseInv, [SyncNext]_vars PROVE Whole
  <2> SUFFICES ASSUME prev' # prev PROVE Whole
    OBVIOUS
  <2> DEFINE p == prev.msgs
             q == share.msgs
  <2>0. Apply
    BY <1>1, OnlyApplyUpdates
  <2>1. /\ prev \in Sources /\ share \in Sources /\ chat = base
        /\ Named(prev, base.active) /\ IsLine(chat, prev, base.active)
        /\ Named(share, chat'.active) /\ IsLine(chat', share, chat'.active)
    BY <1>1, <2>0, AppliedDocument DEF BaseInv
  <2>2. Status = "ready"
    BY <2>0 DEF Apply
  <2>3. /\ Len(p) <= Len(q) /\ \A i \in 1..Len(p) : p[i].id = q[i].id
        /\ Diff.status = "ready"
    BY <1>1, <2>2, AppliedPlan
  <2>4. /\ Diff.added = Added(p, q) /\ Diff.modified = Modified(p, q)
        /\ Diff.title = TitleChange(prev, share, Normalized(base), Normalized(chat))
        /\ \A id \in Kept(p, q) : ~Moved(p, q, id)
        /\ Reduced(p, q) = {}
    <3> DEFINE b == Normalized(base)
               t == Normalized(chat)
               plan == Diff
    <3>1. plan = Preview(prev, share, b, t, Stable) /\ plan.status \in {"ready", "no_change"}
      BY <2>3 DEF Diff
    <3> HIDE DEF b, t, plan
    <3>2. /\ plan.added = Added(p, q) /\ plan.modified = Modified(p, q)
          /\ plan.title = TitleChange(prev, share, b, t)
          /\ \A id \in Kept(p, q) : ~Moved(p, q, id)
          /\ Reduced(p, q) = {}
      BY <3>1, AcceptedPlan
    <3> QED
      BY <3>2 DEF b, t, plan
  <2>5. SrcIn(chat) = SourceIds(prev) /\ SrcIn(chat') = SourceIds(share)
    BY <2>1, LineFound
  <2>6. IdsOf(p) = SourceIds(prev) /\ IdsOf(q) = SourceIds(share)
    BY <2>1, SourceShape
  <2>7. SrcIn(chat') \ SrcIn(chat) = Diff.added
    BY <2>4, <2>5, <2>6 DEF Added
  <2>8. SrcIn(chat) \subseteq SrcIn(chat')
    BY <2>4, <2>5, <2>6 DEF Reduced
  <2>9. {id \in SrcIn(chat) : TextIn(chat', id) # TextIn(chat, id)} = Diff.modified
    <3>1. ASSUME NEW id \in SrcIn(chat)
          PROVE  (TextIn(chat', id) # TextIn(chat, id)) <=> ~SameText(p, q, id)
      <4>1. PICK i \in 1..Len(p) : p[i].id = id
        BY <2>1, <2>5, SourceShape
      <4>2. i \in 1..Len(q) /\ q[i].id = id
        <5>1. Len(p) \in Nat /\ Len(q) \in Nat
          BY <2>1, SourceShape
        <5> QED
          BY <2>3, <4>1, <5>1
      <4>3. TextIn(chat, id) = p[i].text /\ TextIn(chat', id) = q[i].text
        BY <2>1, <4>1, <4>2, LineFound
      <4>4. At(p, id) = i /\ At(q, id) = i
        BY <2>1, <4>1, <4>2, FoundWhereItIs
      <4> QED
        BY <4>3, <4>4 DEF SameText
    <3>2. SrcIn(chat) = Kept(p, q)
      BY <2>5, <2>6, <2>8 DEF Kept
    <3> QED
      BY <2>4, <3>1, <3>2 DEF Modified
  <2>10. IF Diff.title = "sync_source" THEN chat'.title = TitleOf(prev')
         ELSE chat'.title = chat.title
    <3>1. chat.title = TitleOf(prev) /\ chat'.title = TitleOf(share) /\ prev' = share
      BY <1>1, <2>0, <2>1, AppliedDocument, LineTitle
    <3>2. Normalized(chat).title = Normalized(base).title
      BY <2>1
    <3>3. Diff.title = IF prev.title # share.title THEN "sync_source" ELSE "unchanged"
      BY <2>4, <3>2 DEF TitleChange
    <3>4. prev.title = share.title => TitleOf(prev) = TitleOf(share)
      BY DEF TitleOf
    <3> QED
      BY <3>1, <3>3, <3>4
  <2> QED
    BY <2>7, <2>8, <2>9, <2>10
<1>2. SyncSpec => [][Whole]_vars
  BY <1>1, AlwaysALine, PTL DEF SyncSpec
<1> QED
  BY <1>2, PTL DEF DiffIsTheWholeChange

\* Sources that a plan without change compares say the same.
LEMMA UnchangedIsEqual ==
  ASSUME NEW p \in Sources, NEW q \in Sources,
         Len(p.msgs) <= Len(q.msgs), \A i \in 1..Len(p.msgs) : p.msgs[i].id = q.msgs[i].id,
         Added(p.msgs, q.msgs) = {}, Modified(p.msgs, q.msgs) = {},
         \A id \in Kept(p.msgs, q.msgs) : ~Moved(p.msgs, q.msgs, id)
  PROVE  /\ Len(p.msgs) = Len(q.msgs)
         /\ \A i \in 1..Len(p.msgs) : p.msgs[i].text = q.msgs[i].text
         /\ \A i \in 1..Len(p.msgs) : i # Len(p.msgs) => p.msgs[i].node = q.msgs[i].node
<1>1. Len(p.msgs) \in Nat /\ Len(q.msgs) \in Nat
  BY SourceShape
<1>2. Len(p.msgs) = Len(q.msgs)
  <2> SUFFICES ASSUME Len(p.msgs) # Len(q.msgs) PROVE FALSE
    OBVIOUS
  <2> DEFINE k == Len(q.msgs)
  <2>1. k \in 1..Len(q.msgs) /\ k > Len(p.msgs)
    BY <1>1
  <2> HIDE DEF k
  <2>2. q.msgs[k].id \in IdsOf(q.msgs)
    BY <2>1, SourceShape
  <2>3. q.msgs[k].id \in IdsOf(p.msgs)
    BY <2>2 DEF Added
  <2>4. PICK i \in 1..Len(p.msgs) : p.msgs[i].id = q.msgs[k].id
    BY <2>3, SourceShape
  <2>5. i \in 1..Len(q.msgs) /\ q.msgs[i].id = q.msgs[k].id
    BY <1>1, <2>4
  <2>6. i = k
    BY <2>1, <2>5, SourceShape
  <2> QED
    BY <1>1, <2>1, <2>6
<1>3. ASSUME NEW i \in 1..Len(p.msgs) PROVE p.msgs[i].text = q.msgs[i].text
  <2> DEFINE id == p.msgs[i].id
  <2>1. At(p.msgs, id) = i /\ At(q.msgs, id) = i
    BY <1>2, FoundWhereItIs
  <2>2. id \in Kept(p.msgs, q.msgs)
    BY <1>2, SourceShape DEF Kept
  <2>3. SameText(p.msgs, q.msgs, id)
    BY <2>2 DEF Modified
  <2> QED
    BY <2>1, <2>3 DEF SameText
\* A node is compared as the parent of the message after it.
<1>4. ASSUME NEW i \in 1..Len(p.msgs), i # Len(p.msgs) PROVE p.msgs[i].node = q.msgs[i].node
  <2> DEFINE j == i + 1
             id == p.msgs[j].id
  <2>1. j \in 1..Len(p.msgs) /\ j - 1 = i /\ j # 1
    BY <1>1, <1>4
  <2> HIDE DEF j
  <2>2. At(p.msgs, id) = j /\ At(q.msgs, id) = j
    BY <1>2, <2>1, FoundWhereItIs
  <2>3. id \in Kept(p.msgs, q.msgs)
    BY <1>2, <2>1, SourceShape DEF Kept
  <2>4. ParentNode(p.msgs, j) = ParentNode(q.msgs, j)
    BY <2>2, <2>3 DEF Moved
  <2> QED
    BY <2>1, <2>4 DEF ParentNode
<1> QED
  BY <1>2, <1>3, <1>4

\* Lines under the same names whose sources have the same titles, ids and texts show the
\* same, and are the same if nodes and times agree.
Alike(p, q, a, b) ==
  /\ TitleOf(p) = TitleOf(q) /\ Len(p.msgs) = Len(q.msgs)
  /\ \A i \in 1..Len(p.msgs) : /\ p.msgs[i].text = q.msgs[i].text
                                /\ p.msgs[i].id = q.msgs[i].id
                                /\ b[i] = a[i]

SameNodesAndTimes(d, e, a, n) ==
  \A i \in 1..n : /\ e.msgs[a[i]].node = d.msgs[a[i]].node
                  /\ e.msgs[a[i]].time = d.msgs[a[i]].time

LEMMA EqualLines ==
  ASSUME NEW p \in Sources, NEW q \in Sources, NEW a, NEW b, Named(p, a), Named(q, b),
         Alike(p, q, a, b), NEW d, NEW e, IsLine(d, p, a), IsLine(e, q, b)
  PROVE  /\ Visible(e) = Visible(d)
         /\ SameNodesAndTimes(d, e, a, Len(p.msgs)) => e = d
<1>0. /\ TitleOf(p) = TitleOf(q) /\ Len(p.msgs) = Len(q.msgs)
      /\ \A i \in 1..Len(p.msgs) : /\ p.msgs[i].text = q.msgs[i].text
                                    /\ p.msgs[i].id = q.msgs[i].id
                                    /\ b[i] = a[i]
  BY DEF Alike
<1>1. b = a
  BY <1>0, NamedShape
<1> DEFINE bare(x, m) == [x.msgs[m] EXCEPT !.node = None, !.time = None]
           D == d.msgs
           E == e.msgs
<1>2. /\ d = [title |-> TitleOf(p), current |-> Last(a), active |-> a, msgs |-> D]
      /\ e = [title |-> TitleOf(p), current |-> Last(a), active |-> a, msgs |-> E]
      /\ D = [m \in ToSet(a) |-> D[m]] /\ E = [m \in ToSet(a) |-> E[m]]
      /\ Ids(d) = ToSet(a) /\ Ids(e) = ToSet(a)
  BY <1>0, <1>1 DEF IsLine, Ids
<1>3. ASSUME NEW m \in ToSet(a)
      PROVE  /\ bare(e, m) = bare(d, m)
             /\ E[m].node = D[m].node /\ E[m].time = D[m].time => E[m] = D[m]
  <2>1. PICK i \in 1..Len(p.msgs) : m = a[i]
    BY NamedShape
  <2>2. /\ D[m] = LineMessage(p, a, i, D[m].time)
        /\ E[m] = LineMessage(q, a, i, E[m].time)
    BY <1>0, <1>1, <2>1, LineEntry
  <2> HIDE DEF D, E
  <2> DEFINE x == D[m]
             y == E[m]
  <2>3. /\ x = [parent |-> x.parent, children |-> x.children, src |-> x.src,
                node |-> x.node, text |-> x.text, time |-> x.time]
        /\ y = [parent |-> y.parent, children |-> y.children, src |-> y.src,
                node |-> y.node, text |-> y.text, time |-> y.time]
        /\ x.parent = y.parent /\ x.children = y.children /\ x.src = y.src /\ x.text = y.text
    BY <1>0, <2>1, <2>2 DEF LineMessage
  <2> HIDE DEF x, y
  <2>4. [x EXCEPT !.node = None, !.time = None] = [y EXCEPT !.node = None, !.time = None]
    BY <2>3
  <2>5. x.node = y.node /\ x.time = y.time => x = y
    BY <2>3
  <2> QED
    BY <2>4, <2>5 DEF x, y, D, E
<1> HIDE DEF D, E
<1>4. Visible(e) = Visible(d)
  <2> DEFINE P == [m \in Ids(d) |-> bare(d, m)]
             Q == [m \in Ids(e) |-> bare(e, m)]
  <2>1. P = Q
    BY <1>2, <1>3
  <2>2. Visible(d) = [d EXCEPT !.msgs = P] /\ Visible(e) = [e EXCEPT !.msgs = Q]
    BY DEF Visible
  <2> HIDE DEF P, Q
  <2>3. [d EXCEPT !.msgs = P] = [e EXCEPT !.msgs = P]
    BY <1>2
  <2> QED
    BY <2>1, <2>2, <2>3
<1>5. ASSUME SameNodesAndTimes(d, e, a, Len(p.msgs))
      PROVE  e = d
  <2>1. \A m \in ToSet(a) : E[m].node = D[m].node /\ E[m].time = D[m].time
    BY <1>5, NamedShape DEF SameNodesAndTimes, D, E
  <2>2. E = D
    BY <1>2, <1>3, <2>1
  <2> QED
    BY <1>2, <2>2
<1> QED
  BY <1>4, <1>5

\* Preview does not fail on what its diff let pass.
HidesNothing(built) ==
  /\ Visible(built) = Visible(chat)
  /\ \A m \in Ids(chat) \ {chat.current} : built.msgs[m].node = chat.msgs[m].node
  /\ share = prev => built = chat

LEMMA ApplicableNow ==
  ASSUME BaseInv
  PROVE  ApplicableIsBuildable
<1> SUFFICES ASSUME Status \in {"ready", "no_change"}
             PROVE  /\ Buildable(share, chat)
                    /\ Status = "no_change" => HidesNothing(BuildSnapshot(share, chat))
  BY DEF ApplicableIsBuildable, HidesNothing
<1> DEFINE p == prev.msgs
           q == share.msgs
<1>1. /\ prev \in Sources /\ share \in Sources
      /\ Named(prev, base.active) /\ IsLine(chat, prev, base.active)
      /\ Len(p) <= Len(q) /\ \A i \in 1..Len(p) : p[i].id = q[i].id
      /\ chat = base /\ Diff.status = Status
  BY AppliedPlan DEF BaseInv
<1>2. PICK targets : /\ Named(share, targets) /\ IsLine(Written(share, chat), share, targets)
                     /\ \A i \in 1..Len(p) : targets[i] = base.active[i]
                     /\ \A i \in 1..Len(q) :
                          Written(share, chat).msgs[targets[i]].time
                            = TimeOf(share, chat, targets[i], i)
  <2>1. /\ Len(prev.msgs) <= Len(share.msgs)
        /\ \A i \in 1..Len(prev.msgs) : prev.msgs[i].id = share.msgs[i].id
    BY <1>1
  <2>2. \E targets : /\ Named(share, targets) /\ IsLine(Written(share, base), share, targets)
                     /\ \A i \in 1..Len(prev.msgs) : targets[i] = base.active[i]
                     /\ \A i \in 1..Len(share.msgs) :
                          Written(share, base).msgs[targets[i]].time
                            = TimeOf(share, base, targets[i], i)
    BY <2>1, WrittenNext DEF BaseInv
  <2> QED
    BY <1>1, <2>2
<1>3. Buildable(share, chat)
  <2>1. ~Duplicated(chat)
    BY <1>1, LineFound
  <2> DEFINE d == Written(share, chat)
  <2>2. /\ IsTree(d) /\ IsBranch(d, targets) /\ d.current = Last(targets)
        /\ d.msgs[d.current].children = <<>>
    BY <1>1, <1>2, LineIsTree
  <2>3. d.active = targets
    BY <1>2 DEF IsLine
  <2>4. IsWhole(d)
    BY <2>2, <2>3, TreeIsWhole
  <2> QED
    BY <2>1, <2>4 DEF Buildable
<1>4. ASSUME Status = "no_change" PROVE HidesNothing(BuildSnapshot(share, chat))
  <2>1. /\ Added(p, q) = {} /\ Modified(p, q) = {}
        /\ TitleChange(prev, share, Normalized(base), Normalized(chat)) # "sync_source"
        /\ \A id \in Kept(p, q) : ~Moved(p, q, id)
    <3> DEFINE b == Normalized(base)
               t == Normalized(chat)
               plan == Diff
    <3>1. plan = Preview(prev, share, b, t, Stable) /\ plan.status = "no_change"
      BY <1>1, <1>4 DEF Diff
    <3> HIDE DEF b, t, plan
    <3>2. /\ plan.added = Added(p, q) /\ plan.modified = Modified(p, q)
          /\ plan.title = TitleChange(prev, share, b, t)
          /\ \A id \in Kept(p, q) : ~Moved(p, q, id)
          /\ plan.added = {} /\ plan.modified = {} /\ plan.title # "sync_source"
      BY <3>1, AcceptedPlan
    <3> QED
      BY <3>2 DEF b, t
  <2>2. TitleOf(prev) = TitleOf(share)
    <3>1. Normalized(chat).title = Normalized(base).title
      BY <1>1
    <3>2. prev.title = share.title
      BY <2>1, <3>1 DEF TitleChange
    <3> QED
      BY <3>2 DEF TitleOf
  <2>3. /\ Len(p) = Len(q) /\ \A i \in 1..Len(p) : p[i].text = q[i].text
        /\ \A i \in 1..Len(p) : i # Len(p) => p[i].node = q[i].node
    BY <1>1, <2>1, UnchangedIsEqual
  <2> DEFINE a == base.active
             e == Written(share, chat)
  <2>4. /\ Named(prev, a) /\ Named(share, targets) /\ IsLine(chat, prev, a)
        /\ IsLine(e, share, targets) /\ prev \in Sources /\ share \in Sources
        /\ \A i \in 1..Len(p) : /\ targets[i] = a[i] /\ p[i].id = q[i].id
                               /\ e.msgs[a[i]].time = TimeOf(share, chat, a[i], i)
    BY <1>1, <1>2, <2>3
  <2>5. BuildSnapshot(share, chat) = e
    BY <1>3 DEF BuildSnapshot
  <2> HIDE DEF a, e
  <2>6. /\ Visible(e) = Visible(chat)
        /\ SameNodesAndTimes(chat, e, a, Len(prev.msgs)) => e = chat
    <3>1. Alike(prev, share, a, targets)
      BY <2>2, <2>3, <2>4 DEF Alike
    <3>2. /\ prev \in Sources /\ share \in Sources /\ Named(prev, a) /\ Named(share, targets)
          /\ IsLine(chat, prev, a) /\ IsLine(e, share, targets)
      BY <2>4
    <3> QED
      BY <3>1, <3>2, EqualLines
  <2>7. ASSUME NEW i \in 1..Len(p)
        PROVE  /\ chat.msgs[a[i]].node = p[i].node /\ e.msgs[a[i]].node = q[i].node
               /\ p[i].time # None => chat.msgs[a[i]].time = p[i].time
               /\ a[i] \in Ids(chat)
    <3>1. i \in 1..Len(share.msgs) /\ targets[i] = a[i]
      BY <2>3, <2>4
    <3> QED
      BY <2>4, <3>1, LineSays, LineShape
  <2>8. ASSUME NEW m \in Ids(chat) \ {chat.current} PROVE e.msgs[m].node = chat.msgs[m].node
    <3>1. PICK i \in 1..Len(p) : m = a[i]
      BY <2>4, LineShape
    <3>2. i # Len(p)
      BY <2>4, <3>1, LineShape
    <3> QED
      BY <2>3, <2>7, <3>1, <3>2
  <2>9. ASSUME share = prev PROVE e = chat
    <3>1. SameNodesAndTimes(chat, e, a, Len(p))
      BY <2>4, <2>7, <2>9 DEF TimeOf, SameNodesAndTimes
    <3> QED
      BY <2>6, <3>1
  <2> QED
    BY <2>5, <2>6, <2>8, <2>9 DEF HidesNothing
<1> QED
  BY <1>3, <1>4

\* Service.Preview never fails on what its own diff let pass, and what it builds for a plan
\* without change shows what the chat shows: it differs from it at most in creation times
\* and in the node id of the last message, and in nothing if the share is the one applied.
THEOREM AlwaysBuildable ==
  SyncSpec => []ApplicableIsBuildable
BY AlwaysALine, ApplicableNow, PTL

-----------------------------------------------------------------------------
(* What a human's edits leave *)

LEMMA TreeFrom ==
  ASSUME NEW d, IsDocument(d), None \notin Ids(d), NEW r \in Ids(d), Roots(d) = {r},
         \A m \in Ids(d) : /\ IsInjective(d.msgs[m].children)
                           /\ d.msgs[m].parent \in Ids(d) \cup {None}
                           /\ ChildSet(d, m) = {c \in Ids(d) : d.msgs[c].parent = m},
         Grounded(d)
  PROVE  IsTree(d)
<1>1. LinksAgree(d)
  BY DEF LinksAgree
<1> QED
  BY <1>1 DEF IsTree

\* No message is its own parent, or its parent's.
LEMMA NoShortCycle ==
  ASSUME NEW d, IsTree(d), NEW m \in Ids(d)
  PROVE  d.msgs[m].parent # m /\ m \notin ChildSet(d, m)
         /\ \A p \in Ids(d) : d.msgs[m].parent = p => d.msgs[p].parent # m
<1>1. \A S \in SUBSET Ids(d) : S # {} => \E y \in S : d.msgs[y].parent \notin S
  BY DEF IsTree, Grounded
<1>2. d.msgs[m].parent # m
  <2> DEFINE S == {m}
  <2>1. S \in SUBSET Ids(d) /\ S # {}
    OBVIOUS
  <2>2. \E y \in S : d.msgs[y].parent \notin S
    BY <1>1, <2>1
  <2> QED
    BY <2>2
<1>3. ASSUME NEW p \in Ids(d), d.msgs[m].parent = p, d.msgs[p].parent = m PROVE FALSE
  <2> DEFINE S == {m, p}
  <2>1. S \in SUBSET Ids(d) /\ S # {}
    OBVIOUS
  <2>2. \E y \in S : d.msgs[y].parent \notin S
    BY <1>1, <2>1
  <2> QED
    BY <1>3, <2>2
<1>4. m \notin ChildSet(d, m)
  BY <1>2, TreeShape
<1> QED
  BY <1>2, <1>3, <1>4

\* A document and its messages are the records that they are.
LEMMA DocumentParts ==
  ASSUME NEW d, IsDocument(d)
  PROVE  /\ d = [title |-> d.title, current |-> d.current, active |-> d.active, msgs |-> d.msgs]
         /\ d.msgs = [m \in Ids(d) |-> d.msgs[m]]
<1>1. d = [title |-> d.title, current |-> d.current, active |-> d.active,
           msgs |-> [m \in Ids(d) |-> d.msgs[m]]]
  BY DEF IsDocument
<1> DEFINE g == [m \in Ids(d) |-> d.msgs[m]]
<1>2. d = [title |-> d.title, current |-> d.current, active |-> d.active, msgs |-> g]
  BY <1>1
<1> HIDE DEF g
<1>3. d.msgs = g
  BY <1>2
<1> QED
  BY <1>2, <1>3 DEF g

LEMMA MessageParts ==
  ASSUME NEW d, IsDocument(d), NEW m \in Ids(d)
  PROVE  /\ d.msgs[m] = [parent |-> d.msgs[m].parent, children |-> d.msgs[m].children,
                         src |-> d.msgs[m].src, node |-> d.msgs[m].node,
                         text |-> d.msgs[m].text, time |-> d.msgs[m].time]
         /\ d.msgs[m].children \in Seq(Ids(d))
BY DEF IsDocument

IsMessage(x) ==
  x = [parent |-> x.parent, children |-> x.children, src |-> x.src, node |-> x.node,
       text |-> x.text, time |-> x.time]

AreMessages(msgs, I) ==
  /\ IsFiniteSet(I) /\ msgs = [m \in I |-> msgs[m]]
  /\ \A m \in I : IsMessage(msgs[m]) /\ msgs[m].children \in Seq(I)

IsMade(e, t, c, a, msgs) == e = [title |-> t, current |-> c, active |-> a, msgs |-> msgs]

LEMMA IsDocumentOf ==
  ASSUME NEW msgs, NEW I, AreMessages(msgs, I),
         NEW e, NEW t, NEW c, NEW a, IsMade(e, t, c, a, msgs)
  PROVE  /\ IsDocument(e) /\ e.msgs = msgs /\ Ids(e) = I
         /\ e.title = t /\ e.current = c /\ e.active = a
<1>1. e.msgs = msgs /\ e.title = t /\ e.current = c /\ e.active = a
  BY DEF IsMade
<1>2. Ids(e) = I
  BY <1>1 DEF Ids, AreMessages
<1>3. e = [title |-> e.title, current |-> e.current, active |-> e.active, msgs |-> e.msgs]
  BY <1>1 DEF IsMade
<1>4. e.msgs = [m \in Ids(e) |-> e.msgs[m]]
  BY <1>1, <1>2 DEF AreMessages
<1>5. e = [title |-> e.title, current |-> e.current, active |-> e.active,
           msgs |-> [m \in Ids(e) |-> e.msgs[m]]]
  BY <1>3, <1>4
<1>6. ASSUME NEW m \in Ids(e)
      PROVE  /\ e.msgs[m] = [parent |-> e.msgs[m].parent, children |-> e.msgs[m].children,
                             src |-> e.msgs[m].src, node |-> e.msgs[m].node,
                             text |-> e.msgs[m].text, time |-> e.msgs[m].time]
             /\ e.msgs[m].children \in Seq(Ids(e))
  BY <1>1, <1>2 DEF IsMessage, AreMessages
<1> QED
  BY <1>1, <1>2, <1>5, <1>6 DEF IsDocument, AreMessages

LEMMA MessagesOf ==
  ASSUME NEW d, IsDocument(d)
  PROVE  AreMessages(d.msgs, Ids(d)) /\ IsMade(d, d.title, d.current, d.active, d.msgs)
<1>1. d.msgs = [m \in Ids(d) |-> d.msgs[m]] /\ IsFiniteSet(Ids(d))
  BY DocumentParts DEF IsDocument
<1>2. \A m \in Ids(d) : IsMessage(d.msgs[m]) /\ d.msgs[m].children \in Seq(Ids(d))
  BY MessageParts DEF IsMessage
<1>3. IsMade(d, d.title, d.current, d.active, d.msgs)
  BY DocumentParts DEF IsMade
<1> QED
  BY <1>1, <1>2, <1>3 DEF AreMessages

\* Edits that leave every link and every source message alone.
SameLinks(d, e) ==
  /\ Ids(e) = Ids(d)
  /\ \A m \in Ids(d) : /\ e.msgs[m].parent = d.msgs[m].parent
                       /\ e.msgs[m].children = d.msgs[m].children
                       /\ e.msgs[m].src = d.msgs[m].src

LEMMA SameLinksEdited ==
  ASSUME NEW was, NEW d, EditedFrom(was, d), NEW e, IsDocument(e), SameLinks(d, e)
  PROVE  EditedFrom(was, e)
<1>1. IsTree(d) /\ Ids(e) = Ids(d)
  BY DEF EditedFrom, SameLinks
<1>2. \A m \in Ids(d) : /\ e.msgs[m].parent = d.msgs[m].parent
                       /\ e.msgs[m].children = d.msgs[m].children
                       /\ e.msgs[m].src = d.msgs[m].src
  BY DEF SameLinks
<1>3. PICK r \in Ids(d) : Roots(d) = {r}
  BY <1>1 DEF IsTree
<1>4. Roots(e) = Roots(d)
  BY <1>1, <1>2 DEF Roots
<1>5. \A m \in Ids(d) : ChildSet(e, m) = ChildSet(d, m)
  BY <1>2 DEF ChildSet
<1>6. Grounded(e)
  <2>1. ASSUME NEW S \in SUBSET Ids(d), S # {} PROVE \E m \in S : e.msgs[m].parent \notin S
    <3>1. PICK m \in S : d.msgs[m].parent \notin S
      BY <1>1, <2>1 DEF IsTree, Grounded
    <3> QED
      BY <1>2, <3>1
  <2> QED
    BY <1>1, <2>1 DEF Grounded
<1>7. \A m \in Ids(d) : /\ IsInjective(d.msgs[m].children)
                        /\ d.msgs[m].parent \in Ids(d) \cup {None}
                        /\ ChildSet(d, m) = {c \in Ids(d) : d.msgs[c].parent = m}
  BY <1>1, TreeShape
<1>8. \A m \in Ids(e) : /\ IsInjective(e.msgs[m].children)
                        /\ e.msgs[m].parent \in Ids(e) \cup {None}
                        /\ ChildSet(e, m) = {c \in Ids(e) : e.msgs[c].parent = m}
  BY <1>1, <1>2, <1>5, <1>7
<1>9. None \notin Ids(e) /\ r \in Ids(e) /\ Roots(e) = {r}
  BY <1>1, <1>3, <1>4 DEF IsTree
<1>10. IsTree(e)
  BY <1>6, <1>8, <1>9, TreeFrom
<1> QED
  BY <1>1, <1>2, <1>4, <1>10 DEF EditedFrom

LEMMA ShownEdited ==
  ASSUME NEW was, NEW d, EditedFrom(was, d), NEW m
  PROVE  EditedFrom(was, Shown(d, m))
<1> DEFINE e == Shown(d, m)
           path == PathTo(d, m)
<1>1. IsDocument(d)
  BY DEF EditedFrom, IsTree
<1>2. AreMessages(d.msgs, Ids(d))
  BY <1>1, MessagesOf
<1>3. d = [title |-> d.title, current |-> d.current, active |-> d.active, msgs |-> d.msgs]
  BY <1>1, DocumentParts
<1> HIDE DEF path
<1>4. e = [title |-> d.title, current |-> m, active |-> path, msgs |-> d.msgs]
  <2>1. e = [d EXCEPT !.current = m, !.active = path]
    BY DEF Shown, path
  <2> HIDE DEF e
  <2> QED
    BY <1>3, <2>1
<1> HIDE DEF e
<1>5. IsMade(e, d.title, m, path, d.msgs)
  BY <1>4 DEF IsMade
<1>6. IsDocument(e) /\ e.msgs = d.msgs /\ Ids(e) = Ids(d)
  BY <1>2, <1>5, IsDocumentOf
<1>7. SameLinks(d, e)
  BY <1>6 DEF SameLinks
<1> QED
  BY <1>6, <1>7, SameLinksEdited DEF e

LEMMA RetitledEdited ==
  ASSUME NEW was, NEW d, EditedFrom(was, d), NEW t
  PROVE  EditedFrom(was, [d EXCEPT !.title = t])
<1> DEFINE e == [d EXCEPT !.title = t]
<1>1. IsDocument(d)
  BY DEF EditedFrom, IsTree
<1>2. AreMessages(d.msgs, Ids(d))
  BY <1>1, MessagesOf
<1>3. d = [title |-> d.title, current |-> d.current, active |-> d.active, msgs |-> d.msgs]
  BY <1>1, DocumentParts
<1>4. e = [title |-> t, current |-> d.current, active |-> d.active, msgs |-> d.msgs]
  BY <1>3
<1> HIDE DEF e
<1>5. IsMade(e, t, d.current, d.active, d.msgs)
  BY <1>4 DEF IsMade
<1>6. IsDocument(e) /\ e.msgs = d.msgs /\ Ids(e) = Ids(d)
  BY <1>2, <1>5, IsDocumentOf
<1>7. SameLinks(d, e)
  BY <1>6 DEF SameLinks
<1> QED
  BY <1>6, <1>7, SameLinksEdited DEF e

LEMMA RewordedEdited ==
  ASSUME NEW was, NEW d, EditedFrom(was, d), NEW m \in Ids(d), NEW t
  PROVE  EditedFrom(was, Reworded(d, m, t))
<1> DEFINE e == Reworded(d, m, t)
           msgs == [n \in Ids(d) |-> IF n = m THEN [d.msgs[m] EXCEPT !.text = t] ELSE d.msgs[n]]
<1>1. IsDocument(d)
  BY DEF EditedFrom, IsTree
<1>2. /\ AreMessages(d.msgs, Ids(d))
      /\ d = [title |-> d.title, current |-> d.current, active |-> d.active, msgs |-> d.msgs]
  BY <1>1, MessagesOf, DocumentParts
<1>3. d.msgs = [n \in Ids(d) |-> d.msgs[n]]
  BY <1>2 DEF AreMessages
<1>4. d.msgs[m] = [parent |-> d.msgs[m].parent, children |-> d.msgs[m].children,
                   src |-> d.msgs[m].src, node |-> d.msgs[m].node,
                   text |-> d.msgs[m].text, time |-> d.msgs[m].time]
  BY <1>1, MessageParts
<1>5. [d.msgs EXCEPT ![m].text = t] = msgs
  BY <1>3
<1>6. msgs[m] = [parent |-> d.msgs[m].parent, children |-> d.msgs[m].children,
                 src |-> d.msgs[m].src, node |-> d.msgs[m].node,
                 text |-> t, time |-> d.msgs[m].time]
  BY <1>4
<1>7. \A n \in Ids(d) : n # m => msgs[n] = d.msgs[n]
  OBVIOUS
<1>8. msgs = [n \in Ids(d) |-> msgs[n]]
  OBVIOUS
<1>9. e = [title |-> d.title, current |-> d.current, active |-> d.active,
           msgs |-> [d.msgs EXCEPT ![m].text = t]]
  BY <1>2 DEF Reworded
<1> HIDE DEF msgs, e
<1>10. IsMade(e, d.title, d.current, d.active, msgs)
  BY <1>5, <1>9 DEF IsMade
<1>11. /\ msgs[m].parent = d.msgs[m].parent /\ msgs[m].children = d.msgs[m].children
       /\ msgs[m].src = d.msgs[m].src /\ IsMessage(msgs[m])
  BY <1>6 DEF IsMessage
<1>12. \A n \in Ids(d) : IsMessage(msgs[n]) /\ msgs[n].children \in Seq(Ids(d))
  BY <1>2, <1>7, <1>11 DEF AreMessages
<1>13. AreMessages(msgs, Ids(d))
  BY <1>2, <1>8, <1>12 DEF AreMessages
<1>14. IsDocument(e) /\ e.msgs = msgs /\ Ids(e) = Ids(d)
  BY <1>10, <1>13, IsDocumentOf
<1>15. SameLinks(d, e)
  BY <1>7, <1>11, <1>14 DEF SameLinks
<1> QED
  BY <1>14, <1>15, SameLinksEdited DEF e

\* The message that a reply adds, and its parent.
LEMMA RepliedEdited ==
  ASSUME NEW was, NEW d, EditedFrom(was, d), Ids(was) \cap HumanIds = {},
         NEW m \in Ids(d), NEW h \in HumanIds, h \notin Ids(d), NEW t
  PROVE  EditedFrom(was, Replied(d, m, h, t))
<1> DEFINE I == Ids(d)
           J == I \cup {h}
           msgs == [n \in J |->
             IF n = h THEN [parent |-> m, children |-> <<>>, src |-> None, node |-> None,
                            text |-> t, time |-> None]
             ELSE IF n = m THEN [d.msgs[m] EXCEPT !.children = Append(@, h)]
             ELSE d.msgs[n]]
           e == [d EXCEPT !.msgs = msgs]
<1>1. IsTree(d) /\ IsDocument(d) /\ None \notin I /\ IsFiniteSet(I)
  BY DEF EditedFrom, IsTree, IsDocument
<1>2. \A n \in I : /\ d.msgs[n] = [parent |-> d.msgs[n].parent, children |-> d.msgs[n].children,
                                  src |-> d.msgs[n].src, node |-> d.msgs[n].node,
                                  text |-> d.msgs[n].text, time |-> d.msgs[n].time]
                   /\ d.msgs[n].children \in Seq(I)
  BY <1>1 DEF IsDocument
<1>3. \A n \in I : /\ IsInjective(d.msgs[n].children)
                   /\ d.msgs[n].parent \in I \cup {None}
                   /\ ChildSet(d, n) = {c \in I : d.msgs[c].parent = n}
  BY <1>1, TreeShape
<1>4. h # m /\ h # None /\ m # None
  BY <1>1, NamesAssumption
<1>5. e = [title |-> d.title, current |-> d.current, active |-> d.active, msgs |-> msgs]
  <2>1. d = [title |-> d.title, current |-> d.current, active |-> d.active, msgs |-> d.msgs]
    BY <1>1, DocumentParts
  <2> HIDE DEF msgs
  <2> QED
    BY <2>1
<1>6. Replied(d, m, h, t) = Shown(e, h)
  BY Zenon DEF Replied
<1>7. DOMAIN msgs = J /\ msgs = [n \in J |-> msgs[n]]
  OBVIOUS
<1>8. msgs[h] = [parent |-> m, children |-> <<>>, src |-> None, node |-> None,
                 text |-> t, time |-> None]
  OBVIOUS
<1>9. msgs[m] = [parent |-> d.msgs[m].parent, children |-> Append(d.msgs[m].children, h),
                 src |-> d.msgs[m].src, node |-> d.msgs[m].node,
                 text |-> d.msgs[m].text, time |-> d.msgs[m].time]
  <2>1. d.msgs[m] = [parent |-> d.msgs[m].parent, children |-> d.msgs[m].children,
                     src |-> d.msgs[m].src, node |-> d.msgs[m].node,
                     text |-> d.msgs[m].text, time |-> d.msgs[m].time]
    BY <1>2
  <2>2. msgs[m] = [d.msgs[m] EXCEPT !.children = Append(@, h)]
    BY <1>4
  <2> QED
    BY <2>1, <2>2
<1>10. \A n \in I : n # m => msgs[n] = d.msgs[n]
  OBVIOUS
<1>20. \A n \in I : d.msgs[n].children \in Seq(J)
  <2>1. ASSUME NEW n \in I PROVE d.msgs[n].children \in Seq(J)
    <3> DEFINE s == d.msgs[n].children
    <3>1. s \in Seq(I) /\ ToSet(s) \subseteq J
      BY <1>2, <1>3 DEF ChildSet
    <3> HIDE DEF s, I, J
    <3>2. s \in Seq(J)
      BY <3>1, SequenceWithin
    <3> QED
      BY <3>2 DEF s
  <2> QED
    BY <2>1
<1> HIDE DEF msgs, e
<1>11. e.msgs = msgs /\ Ids(e) = J
  BY <1>5, <1>7 DEF Ids
<1>12. \A n \in I : msgs[n].parent = d.msgs[n].parent /\ msgs[n].src = d.msgs[n].src
  BY <1>9, <1>10
<1>13. msgs[h].parent = m /\ msgs[h].children = <<>> /\ msgs[h].src = None
  BY <1>8
<1>14. msgs[m].children = Append(d.msgs[m].children, h)
  BY <1>9
<1>15. IsDocument(e)
  <2>1. IsFiniteSet(J)
    BY <1>1, FS_AddElement
  <2>2. IsMessage(msgs[h]) /\ msgs[h].children \in Seq(J)
    <3>1. IsMessage(msgs[h])
      BY <1>8 DEF IsMessage
    <3> HIDE DEF J
    <3>2. <<>> \in Seq(J)
      OBVIOUS
    <3> QED
      BY <1>13, <3>1, <3>2
  <2>3. IsMessage(msgs[m]) /\ msgs[m].children \in Seq(J)
    <3>1. IsMessage(msgs[m])
      BY <1>9 DEF IsMessage
    <3>2. Append(d.msgs[m].children, h) \in Seq(J)
      BY <1>20
    <3> QED
      BY <1>14, <3>1, <3>2
  <2>4. \A n \in I : n # m => IsMessage(msgs[n]) /\ msgs[n].children \in Seq(J)
    BY <1>2, <1>10, <1>20 DEF IsMessage
  <2>5. \A n \in J : IsMessage(msgs[n]) /\ msgs[n].children \in Seq(J)
    BY <2>2, <2>3, <2>4
  <2> HIDE DEF J
  <2>6. AreMessages(msgs, J)
    BY <1>7, <2>1, <2>5 DEF AreMessages
  <2>7. IsMade(e, d.title, d.current, d.active, msgs)
    BY <1>5 DEF IsMade
  <2> QED
    BY <2>6, <2>7, IsDocumentOf
<1>16. Roots(e) = Roots(d)
  BY <1>4, <1>11, <1>12, <1>13 DEF Roots
<1>17. ToSet(msgs[m].children) = ToSet(d.msgs[m].children) \cup {h}
       /\ IsInjective(msgs[m].children)
  <2> DEFINE s == d.msgs[m].children
  <2>1. s \in Seq(J) /\ IsInjective(s) /\ h \notin ToSet(s) /\ h \in J
    <3>1. IsInjective(s) /\ ToSet(s) \subseteq I
      BY <1>3 DEF ChildSet
    <3>2. s \in Seq(J)
      BY <1>20
    <3> QED
      BY <3>1, <3>2
  <2> HIDE DEF s, J
  <2>2. /\ Len(s) \in Nat /\ DOMAIN s = 1..Len(s) /\ DOMAIN Append(s, h) = 1..(Len(s) + 1)
        /\ Append(s, h)[Len(s) + 1] = h /\ \A i \in 1..Len(s) : Append(s, h)[i] = s[i]
    BY <2>1
  <2> HIDE DEF s
  <2>3. ToSet(Append(s, h)) = ToSet(s) \cup {h}
    BY <2>1, AppendedSet
  <2>4. IsInjective(Append(s, h))
    BY <2>1, <2>2 DEF IsInjective, ToSet
  <2> QED
    BY <1>14, <2>3, <2>4 DEF s
<1>18. ASSUME NEW n \in J
       PROVE  /\ IsInjective(e.msgs[n].children)
              /\ e.msgs[n].parent \in J \cup {None}
              /\ ChildSet(e, n) = {c \in J : e.msgs[c].parent = n}
  <2>1. CASE n = h
    <3>1. ChildSet(e, h) = {} /\ IsInjective(e.msgs[h].children)
      BY <1>11, <1>13 DEF ChildSet, ToSet, IsInjective
    <3>2. \A c \in J : e.msgs[c].parent # h
      BY <1>3, <1>4, <1>11, <1>12, <1>13
    <3> QED
      BY <1>11, <1>13, <2>1, <3>1, <3>2
  <2>2. CASE n = m
    <3>1. ChildSet(e, m) = ChildSet(d, m) \cup {h}
      BY <1>11, <1>17 DEF ChildSet
    <3>2. {c \in J : e.msgs[c].parent = m} = {c \in I : d.msgs[c].parent = m} \cup {h}
      BY <1>11, <1>12, <1>13
    <3> QED
      BY <1>3, <1>11, <1>12, <1>17, <2>2, <3>1, <3>2
  <2>3. CASE n # h /\ n # m
    <3>1. n \in I /\ e.msgs[n] = d.msgs[n]
      BY <1>10, <1>11, <2>3
    <3>2. ChildSet(e, n) = ChildSet(d, n)
      BY <3>1 DEF ChildSet
    <3>3. {c \in J : e.msgs[c].parent = n} = {c \in I : d.msgs[c].parent = n}
      BY <1>11, <1>12, <1>13, <2>3
    <3> QED
      BY <1>3, <3>1, <3>2, <3>3
  <2> QED
    BY <2>1, <2>2, <2>3
<1>19. Grounded(e)
  <2> SUFFICES ASSUME NEW S \in SUBSET J, S # {}
               PROVE  \E n \in S : e.msgs[n].parent \notin S
    BY <1>11 DEF Grounded
  <2>1. CASE S = {h}
    BY <1>4, <1>11, <1>13, <2>1
  <2>2. CASE S # {h}
    <3> DEFINE R == S \ {h}
    <3>1. R \in SUBSET I /\ R # {}
      BY <2>2
    <3> HIDE DEF R
    <3>2. PICK n \in R : d.msgs[n].parent \notin R
      BY <1>1, <3>1 DEF IsTree, Grounded
    <3>3. n \in S /\ n \in I /\ d.msgs[n].parent # h
      BY <1>3, <1>4, <3>1, <3>2 DEF R
    <3>4. e.msgs[n].parent \notin S
      BY <1>11, <1>12, <3>2, <3>3 DEF R
    <3> QED
      BY <3>3, <3>4
  <2> QED
    BY <2>1, <2>2
<1>22. IsTree(e)
  <2>1. PICK r \in I : Roots(d) = {r}
    BY <1>1 DEF IsTree
  <2>2. r \in Ids(e) /\ Roots(e) = {r} /\ None \notin Ids(e)
    BY <1>1, <1>4, <1>11, <1>16, <2>1
  <2> QED
    BY <1>11, <1>15, <1>18, <1>19, <2>2, TreeFrom
<1>21. EditedFrom(was, e)
  <2>1. /\ Roots(d) = Roots(was) /\ I \subseteq Ids(was) \cup HumanIds
        /\ \A n \in I : d.msgs[n].src = IF n \in Ids(was) THEN was.msgs[n].src ELSE None
    BY DEF EditedFrom
  <2>2. h \notin Ids(was)
    OBVIOUS
  <2>3. ASSUME Ids(was) \subseteq J, NEW n \in Ids(was)
        PROVE  /\ e.msgs[n].parent = was.msgs[n].parent
               /\ Only(e.msgs[n].children, Ids(was)) = was.msgs[n].children
    <3>1. n \in I /\ Ids(was) \subseteq I
      BY <2>2, <2>3
    <3>2. /\ d.msgs[n].parent = was.msgs[n].parent
          /\ Only(d.msgs[n].children, Ids(was)) = was.msgs[n].children
      BY <3>1 DEF EditedFrom
    <3>3. CASE n = m
      <4>1. d.msgs[m].children \in Seq(J) /\ h \in J
        BY <1>20
      <4>2. Only(Append(d.msgs[m].children, h), Ids(was)) = Only(d.msgs[m].children, Ids(was))
        <5> DEFINE s == d.msgs[m].children
        <5> HIDE DEF s, J
        <5>1. Only(Append(s, h), Ids(was)) = IF h \in Ids(was) THEN Append(Only(s, Ids(was)), h)
                                             ELSE Only(s, Ids(was))
          BY <4>1, OnlyAppend DEF s
        <5> QED
          BY <2>2, <5>1 DEF s
      <4> QED
        BY <1>11, <1>12, <1>14, <3>1, <3>2, <3>3, <4>2
    <3>4. CASE n # m
      BY <1>10, <1>11, <3>1, <3>2, <3>4
    <3> QED
      BY <3>3, <3>4
  <2>4. \A n \in J : e.msgs[n].src = IF n \in Ids(was) THEN was.msgs[n].src ELSE None
    BY <1>11, <1>12, <1>13, <2>1, <2>2
  <2> QED
    BY <1>11, <1>16, <1>22, <2>1, <2>3, <2>4 DEF EditedFrom
<1> QED
  BY <1>6, <1>21, ShownEdited

\* The children that a message has when it takes over those of the child m.
TakenOver(d, p, m) == Only(d.msgs[p].children, ChildSet(d, p) \ {m}) \o d.msgs[m].children

LEMMA TakenOverShape ==
  ASSUME NEW d, IsTree(d), NEW m \in Ids(d), NEW p \in Ids(d), d.msgs[m].parent = p
  PROVE  /\ TakenOver(d, p, m) \in Seq(Ids(d)) /\ IsInjective(TakenOver(d, p, m))
         /\ ToSet(TakenOver(d, p, m)) = (ChildSet(d, p) \ {m}) \cup ChildSet(d, m)
<1> DEFINE I == Ids(d)
           C == ChildSet(d, p)
           s == d.msgs[p].children
           t == d.msgs[m].children
           o == Only(s, C \ {m})
<1>1. s \in Seq(I) /\ t \in Seq(I)
  BY MessageParts DEF IsTree
<1>2. IsInjective(s) /\ IsInjective(t)
  BY TreeShape
<1>3. ToSet(s) = C /\ ToSet(t) = ChildSet(d, m)
  BY DEF ChildSet
<1>4. C \cap ChildSet(d, m) = {}
  BY TreeShape, NoShortCycle
<1>5. TakenOver(d, p, m) = o \o t
  BY DEF TakenOver
<1> HIDE DEF s, t, I, C
<1>6. o \in Seq(I) /\ ToSet(o) = ToSet(s) \cap (C \ {m}) /\ IsInjective(o)
  BY <1>1, <1>2, OnlyTakes, OnlyInjective
<1> HIDE DEF o
<1>7. ToSet(o) = C \ {m} /\ ToSet(o) \cap ToSet(t) = {}
  BY <1>3, <1>4, <1>6
<1>8. o \o t \in Seq(I) /\ ToSet(o \o t) = ToSet(o) \cup ToSet(t)
  BY <1>1, <1>6, ConcatSet
<1>9. IsInjective(o \o t)
  BY <1>1, <1>2, <1>6, <1>7, ConcatInjective
<1> QED
  BY <1>3, <1>5, <1>7, <1>8, <1>9 DEF I, C

\* What is left without a message, link by link.
Without(d, m, e) ==
  LET p == d.msgs[m].parent IN
  /\ Ids(e) = Ids(d) \ {m}
  /\ \A n \in Ids(e) :
       /\ e.msgs[n].src = d.msgs[n].src
       /\ n = p => e.msgs[n].children = TakenOver(d, p, m)
       /\ n # p => e.msgs[n].children = d.msgs[n].children
       /\ n \in ChildSet(d, m) => e.msgs[n].parent = p
       /\ n \notin ChildSet(d, m) => e.msgs[n].parent = d.msgs[n].parent

LEMMA WithoutOne ==
  ASSUME NEW d, IsTree(d), NEW m \in Ids(d) \ Roots(d), NEW e \in Removals(d, m)
  PROVE  \E left, leaf : e = Shown(left, leaf) /\ IsDocument(left) /\ Without(d, m, left)
<1> DEFINE p == d.msgs[m].parent
           below == d.msgs[m].children
           J == Ids(d) \ {m}
           msgs == [n \in J |->
                      IF n = p THEN [d.msgs[p] EXCEPT !.children =
                                       Only(@, ChildSet(d, p) \ {m}) \o below]
                      ELSE IF n \in ToSet(below) THEN [d.msgs[n] EXCEPT !.parent = p]
                      ELSE d.msgs[n]]
           left == [d EXCEPT !.msgs = msgs]
<1>1. IsDocument(d) /\ IsFiniteSet(Ids(d))
  BY DEF IsTree, IsDocument
<1>2. p \in Ids(d) /\ p # None /\ m \in ChildSet(d, p)
  BY TreeShape DEF Roots, IsTree
<1>3. p # m /\ p \notin ChildSet(d, m) /\ m \notin ChildSet(d, m)
  BY <1>2, NoShortCycle, TreeShape
<1>4. \E leaf : e = Shown(left, leaf)
  BY DEF Removals
<1>5. \A n \in Ids(d) :
        /\ d.msgs[n] = [parent |-> d.msgs[n].parent, children |-> d.msgs[n].children,
                        src |-> d.msgs[n].src, node |-> d.msgs[n].node,
                        text |-> d.msgs[n].text, time |-> d.msgs[n].time]
        /\ d.msgs[n].children \in Seq(Ids(d))
  BY <1>1, MessageParts
<1>6. d = [title |-> d.title, current |-> d.current, active |-> d.active, msgs |-> d.msgs]
  BY <1>1, DocumentParts
<1>7. msgs = [n \in J |-> msgs[n]]
  OBVIOUS
<1>8. msgs[p] = [parent |-> d.msgs[p].parent, children |-> TakenOver(d, p, m),
                 src |-> d.msgs[p].src, node |-> d.msgs[p].node,
                 text |-> d.msgs[p].text, time |-> d.msgs[p].time]
  <2>1. d.msgs[p] = [parent |-> d.msgs[p].parent, children |-> d.msgs[p].children,
                     src |-> d.msgs[p].src, node |-> d.msgs[p].node,
                     text |-> d.msgs[p].text, time |-> d.msgs[p].time]
    BY <1>2, <1>5
  <2>2. msgs[p] = [d.msgs[p] EXCEPT !.children = Only(@, ChildSet(d, p) \ {m}) \o below]
    BY <1>2, <1>3
  <2>3. Only(d.msgs[p].children, ChildSet(d, p) \ {m}) \o below = TakenOver(d, p, m)
    BY DEF TakenOver
  <2>4. msgs[p] = [d.msgs[p] EXCEPT !.children = TakenOver(d, p, m)]
    BY <2>2, <2>3
  <2> HIDE DEF p, msgs
  <2> QED
    BY <2>1, <2>4
<1>9. ASSUME NEW n \in J, n \in ChildSet(d, m)
      PROVE  /\ IsMessage(msgs[n]) /\ msgs[n].parent = p
             /\ msgs[n].children = d.msgs[n].children /\ msgs[n].src = d.msgs[n].src
  <2>1. d.msgs[n] = [parent |-> d.msgs[n].parent, children |-> d.msgs[n].children,
                     src |-> d.msgs[n].src, node |-> d.msgs[n].node,
                     text |-> d.msgs[n].text, time |-> d.msgs[n].time]
    BY <1>5
  <2>2. msgs[n] = [d.msgs[n] EXCEPT !.parent = p]
    BY <1>3, <1>9 DEF ChildSet
  <2> HIDE DEF p, msgs
  <2>3. msgs[n] = [parent |-> p, children |-> d.msgs[n].children,
                   src |-> d.msgs[n].src, node |-> d.msgs[n].node,
                   text |-> d.msgs[n].text, time |-> d.msgs[n].time]
    BY <2>1, <2>2
  <2> QED
    BY <2>3 DEF IsMessage
<1>10. \A n \in J : n # p /\ n \notin ChildSet(d, m) => msgs[n] = d.msgs[n]
  BY DEF ChildSet
<1>11. left = [title |-> d.title, current |-> d.current, active |-> d.active, msgs |-> msgs]
  <2> HIDE DEF msgs
  <2> QED
    BY <1>6
<1> HIDE DEF msgs, left, p
<1>12. IsMade(left, d.title, d.current, d.active, msgs)
  BY <1>11 DEF IsMade
<1>13. ASSUME NEW n \in J
       PROVE  IsMessage(msgs[n]) /\ msgs[n].children \in Seq(J)
  <2>1. CASE n = p
    <3>1. IsMessage(msgs[p]) /\ msgs[p].children = TakenOver(d, p, m)
      BY <1>8 DEF IsMessage
    <3>2. TakenOver(d, p, m) \in Seq(Ids(d)) /\ ToSet(TakenOver(d, p, m)) \subseteq J
      <4>1. /\ TakenOver(d, p, m) \in Seq(Ids(d))
            /\ ToSet(TakenOver(d, p, m)) = (ChildSet(d, p) \ {m}) \cup ChildSet(d, m)
        BY <1>2, TakenOverShape DEF p
      <4>2. ChildSet(d, p) \subseteq Ids(d) /\ ChildSet(d, m) \subseteq Ids(d)
        BY <1>2, TreeShape
      <4> QED
        BY <1>3, <4>1, <4>2
    <3> HIDE DEF J
    <3>3. TakenOver(d, p, m) \in Seq(J)
      BY <3>2, SequenceWithin
    <3> QED
      BY <2>1, <3>1, <3>3
  <2>2. CASE n # p
    <3>1. IsMessage(msgs[n]) /\ msgs[n].children = d.msgs[n].children
      <4>1. CASE n \in ChildSet(d, m)
        BY <1>9, <4>1
      <4>2. CASE n \notin ChildSet(d, m)
        BY <1>5, <1>10, <2>2, <4>2 DEF IsMessage
      <4> QED
        BY <4>1, <4>2
    <3> DEFINE s == d.msgs[n].children
    <3>2. s \in Seq(Ids(d)) /\ ToSet(s) \subseteq J
      <4>1. ChildSet(d, n) = {c \in Ids(d) : d.msgs[c].parent = n}
        BY TreeShape
      <4> QED
        BY <1>5, <2>2, <4>1 DEF ChildSet, p
    <3> HIDE DEF s, J
    <3>3. s \in Seq(J)
      BY <3>2, SequenceWithin
    <3> QED
      BY <3>1, <3>3 DEF s
  <2> QED
    BY <2>1, <2>2
<1>14. IsFiniteSet(J)
  BY <1>1, FS_RemoveElement
<1>15. AreMessages(msgs, J)
  BY <1>7, <1>13, <1>14 DEF AreMessages
<1> HIDE DEF J
<1>16. IsDocument(left) /\ left.msgs = msgs /\ Ids(left) = J
  BY <1>12, <1>15, IsDocumentOf
<1>17. Without(d, m, left)
  <2>1. ASSUME NEW n \in J
        PROVE  /\ left.msgs[n].src = d.msgs[n].src
               /\ n = p => left.msgs[n].children = TakenOver(d, p, m)
               /\ n # p => left.msgs[n].children = d.msgs[n].children
               /\ n \in ChildSet(d, m) => left.msgs[n].parent = p
               /\ n \notin ChildSet(d, m) => left.msgs[n].parent = d.msgs[n].parent
    <3>1. CASE n = p
      BY <1>3, <1>8, <1>16, <3>1
    <3>2. CASE n \in ChildSet(d, m)
      BY <1>3, <1>9, <1>16, <3>2
    <3>3. CASE n # p /\ n \notin ChildSet(d, m)
      BY <1>10, <1>16, <3>3
    <3> QED
      BY <3>1, <3>2, <3>3
  <2> QED
    BY <1>16, <2>1 DEF Without, p, J
<1> QED
  BY <1>4, <1>16, <1>17

LEMMA WithoutIsTree ==
  ASSUME NEW d, IsTree(d), NEW m \in Ids(d) \ Roots(d), NEW e, IsDocument(e), Without(d, m, e)
  PROVE  IsTree(e) /\ Roots(e) = Roots(d)
<1> DEFINE p == d.msgs[m].parent
           I == Ids(d)
           J == Ids(d) \ {m}
<1>1. None \notin I /\ p \in I /\ p # None
  BY TreeShape DEF Roots, IsTree
<1>2. p # m /\ p \notin ChildSet(d, m) /\ m \notin ChildSet(d, m)
  BY <1>1, NoShortCycle, TreeShape
<1>3. \A n \in I : /\ IsInjective(d.msgs[n].children)
                   /\ d.msgs[n].parent \in I \cup {None}
                   /\ ChildSet(d, n) = {c \in I : d.msgs[c].parent = n}
  BY TreeShape
<1>4. Ids(e) = J
  BY DEF Without
<1>5. \A n \in J : /\ n = p => e.msgs[n].children = TakenOver(d, p, m)
                   /\ n # p => e.msgs[n].children = d.msgs[n].children
  BY DEF Without
<1>6. \A n \in J : /\ n \in ChildSet(d, m) => e.msgs[n].parent = p
                   /\ n \notin ChildSet(d, m) => e.msgs[n].parent = d.msgs[n].parent
  BY DEF Without
<1>7. /\ IsInjective(TakenOver(d, p, m))
      /\ ToSet(TakenOver(d, p, m)) = (ChildSet(d, p) \ {m}) \cup ChildSet(d, m)
  BY <1>1, TakenOverShape
<1>8. \A c \in I : c \in ChildSet(d, m) <=> d.msgs[c].parent = m
  BY <1>3
<1>9. d.msgs[m].parent = p
  OBVIOUS
<1> HIDE DEF p
<1>10. Roots(e) = Roots(d)
  BY <1>1, <1>4, <1>6, <1>8, <1>9 DEF Roots
<1>11. ASSUME NEW n \in J
       PROVE  /\ IsInjective(e.msgs[n].children)
              /\ e.msgs[n].parent \in J \cup {None}
              /\ ChildSet(e, n) = {c \in J : e.msgs[c].parent = n}
  <2>1. e.msgs[n].parent \in J \cup {None}
    BY <1>1, <1>2, <1>3, <1>6, <1>8
  <2>2. CASE n = p
    <3>1. ChildSet(e, n) = (ChildSet(d, p) \ {m}) \cup ChildSet(d, m)
      BY <1>5, <1>7, <2>2 DEF ChildSet
    <3>2. {c \in J : e.msgs[c].parent = p} = (ChildSet(d, p) \ {m}) \cup ChildSet(d, m)
      <4>1. \A c \in J : e.msgs[c].parent = p <=> c \in ChildSet(d, m) \/ c \in ChildSet(d, p)
        BY <1>1, <1>3, <1>6
      <4>2. ChildSet(d, p) \subseteq I /\ ChildSet(d, m) \subseteq J
        BY <1>1, <1>2, <1>3
      <4> QED
        BY <4>1, <4>2
    <3> QED
      BY <1>5, <1>7, <2>1, <2>2, <3>1, <3>2
  <2>3. CASE n # p
    <3>1. ChildSet(e, n) = ChildSet(d, n) /\ IsInjective(e.msgs[n].children)
      BY <1>3, <1>5, <2>3 DEF ChildSet
    <3>2. {c \in J : e.msgs[c].parent = n} = {c \in I : d.msgs[c].parent = n}
      BY <1>6, <1>8, <1>9, <2>3
    <3> QED
      BY <1>3, <2>1, <3>1, <3>2
  <2> QED
    BY <2>2, <2>3
<1>12. Grounded(e)
  <2> SUFFICES ASSUME NEW S \in SUBSET J, S # {}
               PROVE  \E y \in S : e.msgs[y].parent \notin S
    BY <1>4 DEF Grounded
  <2>1. \A T \in SUBSET I : T # {} => \E y \in T : d.msgs[y].parent \notin T
    BY DEF IsTree, Grounded
  <2>2. CASE p \notin S
    <3>1. PICK y \in S : d.msgs[y].parent \notin S
      BY <2>1
    <3> QED
      BY <1>6, <2>2, <3>1
  <2>3. CASE p \in S
    <3> DEFINE T == S \cup {m}
    <3>1. T \in SUBSET I /\ T # {}
      OBVIOUS
    <3> HIDE DEF T
    <3>2. PICK y \in T : d.msgs[y].parent \notin T
      BY <2>1, <3>1
    <3>3. y \in S /\ d.msgs[y].parent # m
      BY <1>9, <2>3, <3>2 DEF T
    <3> QED
      BY <1>6, <1>8, <3>2, <3>3 DEF T
  <2> QED
    BY <2>2, <2>3
<1>13. PICK r \in I : Roots(d) = {r}
  BY DEF IsTree
<1>14. r \in Ids(e) /\ Roots(e) = {r} /\ None \notin Ids(e)
  BY <1>1, <1>4, <1>10, <1>13
<1>15. IsTree(e)
  BY <1>4, <1>11, <1>12, <1>14, TreeFrom
<1> QED
  BY <1>10, <1>15

LEMMA RemovedEdited ==
  ASSUME NEW was, IsTree(was), NEW d, EditedFrom(was, d),
         NEW m \in Ids(d) \ Roots(d), NEW e \in Removals(d, m)
  PROVE  EditedFrom(was, e)
<1> DEFINE W == Ids(was)
           p == d.msgs[m].parent
           J == Ids(d) \ {m}
<1>1. IsTree(d)
  BY DEF EditedFrom
<1>2. PICK left, leaf : e = Shown(left, leaf) /\ IsDocument(left) /\ Without(d, m, left)
  BY <1>1, WithoutOne
<1>3. IsTree(left) /\ Roots(left) = Roots(d)
  BY <1>1, <1>2, WithoutIsTree
<1>4. /\ Roots(d) = Roots(was) /\ Ids(d) \subseteq W \cup HumanIds
      /\ \A n \in Ids(d) : d.msgs[n].src = IF n \in W THEN was.msgs[n].src ELSE None
  BY DEF EditedFrom
<1>5. /\ Ids(left) = J
      /\ \A n \in J :
           /\ left.msgs[n].src = d.msgs[n].src
           /\ n = p => left.msgs[n].children = TakenOver(d, p, m)
           /\ n # p => left.msgs[n].children = d.msgs[n].children
           /\ n \in ChildSet(d, m) => left.msgs[n].parent = p
           /\ n \notin ChildSet(d, m) => left.msgs[n].parent = d.msgs[n].parent
  BY <1>2 DEF Without
<1>6. ASSUME W \subseteq J, NEW n \in W
      PROVE  /\ left.msgs[n].parent = was.msgs[n].parent
             /\ Only(left.msgs[n].children, W) = was.msgs[n].children
  <2>1. W \subseteq Ids(d) /\ m \notin W /\ n \in J
    BY <1>6
  <2>2. \A k \in W : /\ d.msgs[k].parent = was.msgs[k].parent
                     /\ Only(d.msgs[k].children, W) = was.msgs[k].children
    BY <2>1 DEF EditedFrom
  <2>3. \A k \in W : was.msgs[k].parent \in W \cup {None}
    BY TreeShape
  <2>4. None \notin Ids(d)
    BY <1>1 DEF IsTree
  <2>5. ChildSet(d, m) \cap W = {}
    <3>1. \A c \in ChildSet(d, m) : d.msgs[c].parent = m
      BY <1>1, TreeShape
    <3> QED
      BY <2>1, <2>2, <2>3, <2>4, <3>1
  <2>6. left.msgs[n].parent = was.msgs[n].parent
    BY <1>5, <2>1, <2>2, <2>5
  <2>7. CASE n # p
    BY <1>5, <2>1, <2>2, <2>6, <2>7
  <2>8. CASE n = p
    <3> DEFINE I == Ids(d)
               C == ChildSet(d, p)
               s == d.msgs[p].children
               t == d.msgs[m].children
               o == Only(s, C \ {m})
    <3>1. s \in Seq(I) /\ t \in Seq(I)
      BY <1>1, <2>1, <2>8, MessageParts DEF IsTree
    <3>2. ToSet(s) = C /\ ToSet(t) = ChildSet(d, m)
      BY DEF ChildSet
    <3>3. left.msgs[n].children = o \o t
      BY <1>5, <2>1, <2>8 DEF TakenOver
    <3>4. Only(s, W) = was.msgs[n].children
      BY <2>2, <2>8
    <3> HIDE DEF s, t, I, C, W
    <3>5. o \in Seq(I)
      BY <3>1, OnlyTakes
    <3>6. Only(o, W) = Only(s, (C \ {m}) \cap W)
      BY <3>1, OnlyTwice
    <3>7. Only(s, (C \ {m}) \cap W) = Only(s, W)
      <4>1. ToSet(s) \cap ((C \ {m}) \cap W) = ToSet(s) \cap W
        BY <2>1, <3>2
      <4> DEFINE V == (C \ {m}) \cap W
      <4>2. ToSet(s) \cap V = ToSet(s) \cap W
        BY <4>1
      <4> HIDE DEF V
      <4>3. Only(s, V) = Only(s, W)
        BY <3>1, <4>2, OnlyAgrees
      <4> QED
        BY <4>3 DEF V
    <3>8. Only(t, W) = <<>>
      <4>1. ToSet(t) \cap W = ToSet(t) \cap {}
        BY <2>5, <3>2
      <4>2. Only(t, W) = Only(t, {})
        BY <3>1, <4>1, OnlyAgrees
      <4> QED
        BY <3>1, <4>2, OnlyNothing
    <3> HIDE DEF o
    <3>9. Only(o \o t, W) = Only(o, W) \o Only(t, W)
      BY <3>1, <3>5, OnlyConcat
    <3>10. Only(o, W) \in Seq(I)
      BY <3>5, OnlyTakes
    <3>11. Only(o, W) \o <<>> = Only(o, W)
      BY <3>10, ConcatEmpty
    <3> QED
      BY <2>6, <3>3, <3>4, <3>6, <3>7, <3>8, <3>9, <3>11
  <2> QED
    BY <2>7, <2>8
<1>7. \A n \in J : left.msgs[n].src = IF n \in W THEN was.msgs[n].src ELSE None
  BY <1>4, <1>5
<1>8. EditedFrom(was, left)
  BY <1>3, <1>4, <1>5, <1>6, <1>7 DEF EditedFrom
<1> QED
  BY <1>2, <1>8, ShownEdited

LEMMA LineEdited ==
  ASSUME NEW s \in Sources, NEW names, Named(s, names), NEW d, IsLine(d, s, names)
  PROVE  /\ EditedFrom(d, d) /\ Ids(d) \cap HumanIds = {}
<1>1. IsTree(d)
  BY LineIsTree
<1>2. Ids(d) \cap HumanIds = {}
  BY LineShape, NamedShape
<1>3. ASSUME NEW m \in Ids(d)
      PROVE  Only(d.msgs[m].children, Ids(d)) = d.msgs[m].children
  <2> DEFINE I == Ids(d)
             c == d.msgs[m].children
  <2>1. c \in Seq(I) /\ ToSet(c) \subseteq I
    BY <1>1, TreeShape DEF ChildSet
  <2> HIDE DEF I, c
  <2>2. Only(c, I) = c
    BY <2>1, OnlyAll
  <2> QED
    BY <2>2 DEF I, c
<1> QED
  BY <1>1, <1>2, <1>3 DEF EditedFrom

LEMMA BaseEdited ==
  ASSUME BaseInv
  PROVE  EditedFrom(base, base) /\ Ids(base) \cap HumanIds = {} /\ IsTree(base)
<1>1. EditedFrom(base, base) /\ Ids(base) \cap HumanIds = {}
  BY LineEdited DEF BaseInv
<1> QED
  BY <1>1 DEF EditedFrom

LEMMA SomeEditEdited ==
  ASSUME NEW was, IsTree(was), Ids(was) \cap HumanIds = {}, NEW d, EditedFrom(was, d),
         NEW e \in Edits(d)
  PROVE  EditedFrom(was, e)
<1>1. CASE e \in {Replied(d, mh[1], mh[2], "human") : mh \in Ids(d) \X (HumanIds \ Ids(d))}
  <2>1. PICK mh \in Ids(d) \X (HumanIds \ Ids(d)) : e = Replied(d, mh[1], mh[2], "human")
    BY <1>1
  <2>2. mh[1] \in Ids(d) /\ mh[2] \in HumanIds /\ mh[2] \notin Ids(d)
    OBVIOUS
  <2> DEFINE m == mh[1]
             h == mh[2]
  <2> HIDE DEF m, h
  <2>3. m \in Ids(d) /\ h \in HumanIds /\ h \notin Ids(d)
    BY <2>2 DEF m, h
  <2>4. EditedFrom(was, Replied(d, m, h, "human"))
    BY <2>3, RepliedEdited
  <2> QED
    BY <2>1, <2>4 DEF m, h
<1>2. CASE e \in {Reworded(d, mt[1], mt[2]) : mt \in Ids(d) \X Texts}
  <2>1. PICK mt \in Ids(d) \X Texts : e = Reworded(d, mt[1], mt[2])
    BY <1>2
  <2> DEFINE m == mt[1]
             t == mt[2]
  <2>2. m \in Ids(d)
    OBVIOUS
  <2> HIDE DEF m, t
  <2>3. EditedFrom(was, Reworded(d, m, t))
    BY <2>2, RewordedEdited
  <2> QED
    BY <2>1, <2>3 DEF m, t
<1>3. CASE e \in {Shown(d, m) : m \in Leaves(d)}
  BY <1>3, ShownEdited
<1>4. CASE e = [d EXCEPT !.title = "human"]
  <2>1. EditedFrom(was, [d EXCEPT !.title = "human"])
    BY RetitledEdited
  <2> QED
    BY <1>4, <2>1
<1>5. CASE e \in UNION {Removals(d, m) : m \in Ids(d) \ Roots(d)}
  <2>1. PICK m \in Ids(d) \ Roots(d) : e \in Removals(d, m)
    BY <1>5
  <2> QED
    BY <2>1, RemovedEdited
<1> QED
  BY <1>1, <1>2, <1>3, <1>4, <1>5 DEF Edits

LEMMA SyncInvInit ==
  ASSUME SyncInit
  PROVE  SyncInv
<1>1. BaseInv /\ chat = base
  BY BaseInit DEF SyncInit
<1> QED
  BY <1>1, BaseEdited DEF SyncInv, ChatInv

LEMMA SyncInvStep ==
  ASSUME SyncInv, [SyncNext]_vars
  PROVE  SyncInv'
<1>1. BaseInv /\ EditedFrom(base, chat)
  BY DEF SyncInv, ChatInv
<1>2. BaseInv'
  BY <1>1, BaseStep
<1>3. EditedFrom(base', base')
  <2>1. share' \in Sources /\ prev' \in Sources /\ Named(prev', base'.active)
        /\ IsLine(base', prev', base'.active)
    BY <1>2 DEF BaseInv
  <2> DEFINE s == prev'
             d == base'
  <2>2. s \in Sources /\ Named(s, d.active) /\ IsLine(d, s, d.active)
    BY <2>1
  <2> HIDE DEF s, d
  <2>3. EditedFrom(d, d)
    BY <2>2, LineEdited
  <2> QED
    BY <2>3 DEF d
<1>4. EditedFrom(base', chat')
  <2>1. CASE ShareChanges
    BY <1>1, <2>1 DEF ShareChanges
  <2>2. CASE HumanEdits
    <3>1. chat' \in Edits(chat) /\ base' = base
      BY <2>2 DEF HumanEdits
    <3>2. EditedFrom(base, chat')
      <4> DEFINE e == chat'
      <4>1. e \in Edits(chat) /\ IsTree(base) /\ Ids(base) \cap HumanIds = {}
        BY <1>1, <3>1, BaseEdited
      <4> HIDE DEF e
      <4>2. EditedFrom(base, e)
        BY <1>1, <4>1, SomeEditEdited
      <4> QED
        BY <4>2 DEF e
    <3> QED
      BY <3>1, <3>2
  <2>3. CASE HumanReverts
    BY <1>1, <2>3, BaseEdited DEF HumanReverts
  <2>4. CASE Apply
    BY <1>3, <2>4 DEF Apply
  <2>5. CASE UNCHANGED vars
    BY <1>1, <2>5 DEF vars
  <2> QED
    BY <2>1, <2>2, <2>3, <2>4, <2>5 DEF SyncNext
<1> QED
  BY <1>2, <1>4 DEF SyncInv, ChatInv

\* The inductive invariant: the baseline is a line, and the chat is what edits in Open WebUI
\* can leave of it.
THEOREM AlwaysEditedFrom ==
  SyncSpec => []SyncInv
BY SyncInvInit, SyncInvStep, PTL DEF SyncSpec

\* What the projection of a tree is, by the order of its visit.
Projects(t, d, order) ==
  /\ order \in Seq(Ids(d)) /\ ToSet(order) = Ids(d) /\ order # <<>>
  /\ t.current = d.current /\ DOMAIN t.msgs = DOMAIN order
  /\ \A i \in DOMAIN order : /\ t.msgs[i].id = order[i]
                             /\ t.msgs[i].src = d.msgs[order[i]].src
                             /\ t.msgs[i].text = d.msgs[order[i]].text

LEMMA NormalizedProjects ==
  ASSUME NEW d, IsTree(d)
  PROVE  \E order : Projects(Normalized(d), d, order)
<1>1. PICK r \in Ids(d) : Roots(d) = {r}
  BY DEF IsTree
<1> DEFINE order == Preorder(d, r)
           msgs == [i \in DOMAIN order |->
                      [id |-> order[i], src |-> d.msgs[order[i]].src,
                       text |-> d.msgs[order[i]].text,
                       managed |-> d.msgs[order[i]].src # None]]
<1>2. order \in Seq(Ids(d)) /\ ToSet(order) = Ids(d) /\ (CHOOSE x \in Roots(d) : TRUE) = r
  BY <1>1, PreorderOfTree
<1>3. Normalized(d) = [title |-> d.title, current |-> d.current, msgs |-> msgs]
  BY <1>2 DEF Normalized
<1> HIDE DEF order
<1>4. order # <<>>
  BY <1>1, <1>2, EmptySet
<1>5. \A i \in DOMAIN order : /\ msgs[i].id = order[i]
                              /\ msgs[i].src = d.msgs[order[i]].src
                              /\ msgs[i].text = d.msgs[order[i]].text
  OBVIOUS
<1>6. DOMAIN msgs = DOMAIN order
  OBVIOUS
<1> HIDE DEF msgs
<1>7. Normalized(d).current = d.current /\ Normalized(d).msgs = msgs
  BY <1>3
<1> QED
  BY <1>2, <1>4, <1>5, <1>6, <1>7 DEF Projects

LEMMA ProjectionShape ==
  ASSUME NEW t, NEW d, NEW order, Projects(t, d, order)
  PROVE  /\ IdsOf(t.msgs) = Ids(d) /\ t # NoTarget
         /\ \A m \in Ids(d) :
              LET j == At(t.msgs, m)
              IN  /\ j \in DOMAIN t.msgs /\ t.msgs[j].id = m
                  /\ t.msgs[j].src = d.msgs[m].src /\ t.msgs[j].text = d.msgs[m].text
<1>1. /\ ToSet(order) = Ids(d) /\ DOMAIN t.msgs = DOMAIN order
      /\ \A i \in DOMAIN order : /\ t.msgs[i].id = order[i]
                                 /\ t.msgs[i].src = d.msgs[order[i]].src
                                 /\ t.msgs[i].text = d.msgs[order[i]].text
  BY DEF Projects
<1>2. IdsOf(t.msgs) = Ids(d)
  BY <1>1 DEF IdsOf, ToSet
<1>3. t # NoTarget
  <2>1. order \in Seq(Ids(d)) /\ order # <<>>
    BY DEF Projects
  <2>2. DOMAIN order # {}
    <3>1. DOMAIN order = 1..Len(order) /\ Len(order) \in Nat /\ Len(order) # 0
      BY <2>1
    <3>2. 1 \in DOMAIN order
      BY <3>1
    <3> QED
      BY ONLY <3>2
  <2>3. DOMAIN NoTarget.msgs = {}
    BY DEF NoTarget
  <2> QED
    BY <1>1, <2>2, <2>3
<1>4. ASSUME NEW m \in Ids(d)
      PROVE  /\ At(t.msgs, m) \in DOMAIN t.msgs /\ t.msgs[At(t.msgs, m)].id = m
             /\ t.msgs[At(t.msgs, m)].src = d.msgs[m].src
             /\ t.msgs[At(t.msgs, m)].text = d.msgs[m].text
  <2>1. \E i \in DOMAIN t.msgs : t.msgs[i].id = m
    BY <1>2 DEF IdsOf
  <2>2. At(t.msgs, m) \in DOMAIN t.msgs /\ t.msgs[At(t.msgs, m)].id = m
    BY <2>1 DEF At
  <2> QED
    BY <1>1, <2>2
<1> QED
  BY <1>2, <1>3, <1>4

\* What a comparison of targets that objects to nothing says of the two.
Unopposed(p, q, b, t) == TargetConflicts(p, q, b, t) = {}

LEMMA NothingObjected ==
  ASSUME NEW p, NEW q, NEW b, NEW t, Unopposed(p, q, b, t)
  PROVE  /\ b.current = t.current /\ IdsOf(t.msgs) \subseteq IdsOf(b.msgs)
         /\ \A i \in DOMAIN b.msgs : MessageConflict(p, q, b, t, i) = ""
<1>1. b.current = t.current
  BY DEF TargetConflicts, Unopposed
<1>2. \A i \in DOMAIN b.msgs : MessageConflict(p, q, b, t, i) = ""
  BY DEF TargetConflicts, Unopposed
<1>3. {k \in DOMAIN t.msgs : t.msgs[k].id \notin IdsOf(b.msgs)} = {}
  BY DEF TargetConflicts, Unopposed
<1>4. IdsOf(t.msgs) \subseteq IdsOf(b.msgs)
  BY <1>3 DEF IdsOf
<1> QED
  BY <1>1, <1>2, <1>4

LEMMA NoConflict ==
  ASSUME NEW p, NEW q, NEW b, NEW t, NEW i, MessageConflict(p, q, b, t, i) = ""
  PROVE  /\ b.msgs[i].id \in IdsOf(t.msgs)
         /\ LET is == t.msgs[At(t.msgs, b.msgs[i].id)]
            IN  b.msgs[i].text = is.text \/ Converged(p, q, is)
BY DEF MessageConflict

LEMMA SeesEveryEditNow ==
  ASSUME SyncInv
  PROVE  DiffSeesEveryEdit
<1> SUFFICES ASSUME Diff.status \in {"ready", "no_change"}
             PROVE  /\ Ids(chat) = Ids(base) /\ chat.current = base.current
                    /\ \A m \in Ids(base) :
                         /\ chat.msgs[m].parent = base.msgs[m].parent
                         /\ chat.msgs[m].children = base.msgs[m].children
                         /\ chat.msgs[m].text = base.msgs[m].text
                              \/ \E i \in Positions(share) :
                                   /\ share.msgs[i].id = base.msgs[m].src
                                   /\ share.msgs[i].text = chat.msgs[m].text
  BY DEF DiffSeesEveryEdit
<1>1. BaseInv /\ EditedFrom(base, chat) /\ IsTree(chat) /\ IsTree(base)
  BY BaseEdited DEF SyncInv, ChatInv, EditedFrom
<1> DEFINE b == Normalized(base)
           t == Normalized(chat)
<1>2. PICK old : Projects(b, base, old)
  BY <1>1, NormalizedProjects
<1>3. PICK new : Projects(t, chat, new)
  BY <1>1, NormalizedProjects
<1>4. Conflicts(prev, share, b, t, Stable) = {}
  BY AcceptedPlan DEF Diff
<1> HIDE DEF b, t
<1>5. /\ IdsOf(b.msgs) = Ids(base) /\ b # NoTarget
      /\ \A m \in Ids(base) :
           LET j == At(b.msgs, m)
           IN  /\ j \in DOMAIN b.msgs /\ b.msgs[j].id = m
               /\ b.msgs[j].src = base.msgs[m].src /\ b.msgs[j].text = base.msgs[m].text
  BY <1>2, ProjectionShape
<1>6. /\ IdsOf(t.msgs) = Ids(chat)
      /\ \A m \in Ids(chat) :
           LET j == At(t.msgs, m)
           IN  /\ j \in DOMAIN t.msgs /\ t.msgs[j].id = m
               /\ t.msgs[j].src = chat.msgs[m].src /\ t.msgs[j].text = chat.msgs[m].text
  BY <1>3, ProjectionShape
<1>7. Unopposed(prev, share, b, t)
  BY <1>4, <1>5 DEF Conflicts, Unopposed
<1>8. /\ b.current = t.current /\ IdsOf(t.msgs) \subseteq IdsOf(b.msgs)
      /\ \A i \in DOMAIN b.msgs : MessageConflict(prev, share, b, t, i) = ""
  BY <1>7, NothingObjected
<1>9. chat.current = base.current
  BY <1>2, <1>3, <1>8 DEF Projects
<1>10. ASSUME NEW m \in Ids(base)
       PROVE  /\ m \in Ids(chat)
              /\ LET is == t.msgs[At(t.msgs, m)]
                 IN  base.msgs[m].text = is.text \/ Converged(prev, share, is)
  <2>1. PICK i \in DOMAIN b.msgs : /\ b.msgs[i].id = m
                                   /\ b.msgs[i].text = base.msgs[m].text
    BY <1>5
  <2>2. MessageConflict(prev, share, b, t, i) = ""
    BY <1>8
  <2>3. /\ b.msgs[i].id \in IdsOf(t.msgs)
        /\ LET is == t.msgs[At(t.msgs, b.msgs[i].id)]
           IN  b.msgs[i].text = is.text \/ Converged(prev, share, is)
    BY <2>2, NoConflict
  <2> QED
    BY <1>6, <2>1, <2>3
<1>11. Ids(chat) = Ids(base)
  BY <1>5, <1>6, <1>8, <1>10
<1>12. ASSUME NEW m \in Ids(base)
       PROVE  /\ chat.msgs[m].parent = base.msgs[m].parent
              /\ chat.msgs[m].children = base.msgs[m].children
  <2> DEFINE I == Ids(base)
             c == chat.msgs[m].children
  <2>1. chat.msgs[m].parent = base.msgs[m].parent /\ Only(c, I) = base.msgs[m].children
    BY <1>1, <1>11 DEF EditedFrom
  <2>2. c \in Seq(I) /\ ToSet(c) \subseteq I
    BY <1>1, <1>11, TreeShape DEF ChildSet
  <2> HIDE DEF I, c
  <2>3. Only(c, I) = c
    BY <2>2, OnlyAll
  <2> QED
    BY <2>1, <2>3 DEF c
<1>13. ASSUME NEW m \in Ids(base)
       PROVE  chat.msgs[m].text = base.msgs[m].text
                \/ \E i \in Positions(share) :
                     /\ share.msgs[i].id = base.msgs[m].src
                     /\ share.msgs[i].text = chat.msgs[m].text
  <2> DEFINE is == t.msgs[At(t.msgs, m)]
  <2>1. is.src = chat.msgs[m].src /\ is.text = chat.msgs[m].text
    BY <1>6, <1>11
  <2>2. base.msgs[m].text = is.text \/ Converged(prev, share, is)
    BY <1>10
  <2> HIDE DEF is
  <2>3. chat.msgs[m].src = base.msgs[m].src
    BY <1>1, <1>11 DEF EditedFrom
  <2>4. CASE Converged(prev, share, is)
    <3> DEFINE i == At(share.msgs, is.src)
    <3>1. is.src \in IdsOf(share.msgs) /\ is.text = share.msgs[i].text
      BY <2>4 DEF Converged, Kept
    <3>2. i \in DOMAIN share.msgs /\ share.msgs[i].id = is.src
      BY <3>1 DEF IdsOf, At
    <3> QED
      BY <2>1, <2>3, <3>1, <3>2 DEF Positions
  <2> QED
    BY <2>1, <2>2, <2>4
<1> QED
  BY <1>9, <1>11, <1>12, <1>13

\* The comparison of projections that the offline preview makes finds every edit but those
\* of the title and of texts that say what the source says now.
THEOREM EveryEditIsSeen ==
  SyncSpec => []DiffSeesEveryEdit
BY AlwaysEditedFrom, SeesEveryEditNow, PTL

-----------------------------------------------------------------------------
(* What a source is, written over a document *)

\* The messages of the source have these names in the document, or would get them.
Naming(s, d, names) ==
  /\ Named(s, names)
  /\ \A i \in 1..Len(s.msgs) : TargetID(s, d, s.msgs[i].id) = names[i]
  /\ \A m \in Ids(d), i \in 1..Len(s.msgs) : d.msgs[m].src = s.msgs[i].id <=> m = names[i]

Below(d, names, m) == PreservedUnmanagedChildren(d, m, ToSet(names))

BranchMessage(s, d, names, i) ==
  [parent |-> IF i = 1 THEN None ELSE names[i - 1],
   children |-> IF i = Len(s.msgs) THEN Below(d, names, names[i])
                ELSE <<names[i + 1]>> \o Below(d, names, names[i]),
   src |-> s.msgs[i].id, node |-> s.msgs[i].node, text |-> s.msgs[i].text,
   time |-> TimeOf(s, d, names[i], i)]

LEMMA BelowShape ==
  ASSUME NEW d, IsTree(d), NEW names, NEW m
  PROVE  /\ Below(d, names, m) \in Seq(Ids(d)) /\ IsInjective(Below(d, names, m))
         /\ m \in Ids(d) => ToSet(Below(d, names, m)) = ChildSet(d, m) \ ToSet(names)
         /\ m \notin Ids(d) => Below(d, names, m) = <<>> /\ ToSet(Below(d, names, m)) = {}
<1> DEFINE I == Ids(d)
<1>1. CASE m \in Ids(d)
  <2> DEFINE c == d.msgs[m].children
             K == ChildSet(d, m) \ ToSet(names)
  <2>1. c \in Seq(I) /\ IsInjective(c) /\ ToSet(c) \cap K = K
    BY <1>1, TreeShape DEF ChildSet
  <2>2. Below(d, names, m) = Only(c, K)
    BY <1>1 DEF Below, PreservedUnmanagedChildren
  <2> HIDE DEF I, c, K
  <2>3. Only(c, K) \in Seq(I) /\ IsInjective(Only(c, K)) /\ ToSet(Only(c, K)) = K
    BY <2>1, OnlyTakes, OnlyInjective
  <2> QED
    BY <1>1, <2>2, <2>3 DEF I, K
<1>2. CASE m \notin Ids(d)
  <2>1. Below(d, names, m) = <<>>
    BY <1>2 DEF Below, PreservedUnmanagedChildren
  <2> HIDE DEF I
  <2>2. <<>> \in Seq(I)
    OBVIOUS
  <2>3. IsInjective(<<>>)
    BY DEF IsInjective
  <2> QED
    BY <1>2, <2>1, <2>2, <2>3, EmptySet DEF I
<1> QED
  BY <1>1, <1>2

LEMMA WrittenRecord ==
  ASSUME NEW s \in Sources, NEW d, NEW names, Naming(s, d, names)
  PROVE  Written(s, d) = [title |-> TitleOf(s), current |-> Last(names), active |-> names,
                          msgs |-> OverDocument(d, Branch(s, d, names))]
<1>1. Positions(s) = 1..Len(s.msgs)
  BY SourceShape
<1>2. names = [i \in 1..Len(s.msgs) |-> names[i]]
  BY NamedShape DEF Naming
<1>3. \A i \in 1..Len(s.msgs) : TargetID(s, d, s.msgs[i].id) = names[i]
  BY DEF Naming
<1> DEFINE targets == [i \in Positions(s) |-> TargetID(s, d, s.msgs[i].id)]
<1>4. targets = names
  BY <1>1, <1>2, <1>3
<1>5. Written(s, d) = [title |-> TitleOf(s), current |-> Last(targets), active |-> targets,
                       msgs |-> OverDocument(d, Branch(s, d, targets))]
  BY DEF Written
<1> HIDE DEF targets
<1> QED
  BY <1>4, <1>5

LEMMA WrittenShape ==
  ASSUME NEW s \in Sources, NEW d, NEW names, Naming(s, d, names), NEW e, e = Written(s, d)
  PROVE  /\ e.title = TitleOf(s) /\ e.active = names
         /\ e.current = Last(names) /\ e.current = names[Len(s.msgs)]
         /\ e.msgs = OverDocument(d, Branch(s, d, names))
<1>1. e = [title |-> TitleOf(s), current |-> Last(names), active |-> names,
           msgs |-> OverDocument(d, Branch(s, d, names))]
  BY WrittenRecord
<1> DEFINE msgs == OverDocument(d, Branch(s, d, names))
<1>2. e = [title |-> TitleOf(s), current |-> Last(names), active |-> names, msgs |-> msgs]
  BY <1>1
<1> HIDE DEF msgs
<1>3. /\ e.title = TitleOf(s) /\ e.active = names /\ e.current = Last(names) /\ e.msgs = msgs
  BY <1>2
<1>4. Last(names) = names[Len(s.msgs)]
  BY NamedShape DEF Naming, Last
<1> QED
  BY <1>3, <1>4 DEF msgs

LEMMA WrittenIds ==
  ASSUME NEW s \in Sources, NEW d, NEW names, Naming(s, d, names), NEW e, e = Written(s, d)
  PROVE  /\ Ids(e) = Ids(d) \cup ToSet(names)
         /\ \A m \in Ids(d) \ ToSet(names) : e.msgs[m] = d.msgs[m]
<1>1. e.msgs = OverDocument(d, Branch(s, d, names))
  BY WrittenShape
<1>2. DOMAIN Branch(s, d, names) = ToSet(names)
  BY DEF Branch
<1> DEFINE written == Branch(s, d, names)
           J == Ids(d) \cup ToSet(names)
<1>3. e.msgs = [m \in J |-> IF m \in ToSet(names) THEN written[m] ELSE d.msgs[m]]
  BY <1>1, <1>2 DEF OverDocument
<1> HIDE DEF written, J
<1>4. Ids(e) = J
  BY <1>3 DEF Ids
<1>5. \A m \in Ids(d) \ ToSet(names) : e.msgs[m] = d.msgs[m]
  BY <1>3 DEF J
<1> QED
  BY <1>4, <1>5 DEF J

LEMMA WrittenIsFunction ==
  ASSUME NEW s \in Sources, NEW d, NEW names, Naming(s, d, names), NEW e, e = Written(s, d)
  PROVE  e.msgs = [m \in Ids(e) |-> e.msgs[m]]
<1>1. e.msgs = OverDocument(d, Branch(s, d, names))
  BY WrittenShape
<1> QED
  BY <1>1 DEF OverDocument, Ids

LEMMA WrittenEntry ==
  ASSUME NEW s \in Sources, NEW d, NEW names, Naming(s, d, names), NEW e, e = Written(s, d),
         NEW i \in 1..Len(s.msgs)
  PROVE  e.msgs[names[i]] = BranchMessage(s, d, names, i)
<1>1. e.msgs = OverDocument(d, Branch(s, d, names))
  BY WrittenShape
<1>2. DOMAIN Branch(s, d, names) = ToSet(names)
  BY DEF Branch
<1>3. names[i] \in ToSet(names)
  BY NamedShape DEF Naming
<1>4. e.msgs[names[i]] = Branch(s, d, names)[names[i]]
  BY <1>1, <1>2, <1>3 DEF OverDocument
<1>5. (CHOOSE j \in DOMAIN names : names[j] = names[i]) = i /\ Len(names) = Len(s.msgs)
  BY NamedShape DEF Naming
<1>6. Branch(s, d, names)[names[i]] = BranchMessage(s, d, names, i)
  <2> DEFINE pos(m) == CHOOSE j \in DOMAIN names : names[j] = m
             B(m, j) ==
               [parent |-> IF j = 1 THEN None ELSE names[j - 1],
                children |-> IF j = Len(names) THEN Below(d, names, m)
                             ELSE <<names[j + 1]>> \o Below(d, names, m),
                src |-> s.msgs[j].id, node |-> s.msgs[j].node,
                text |-> s.msgs[j].text, time |-> TimeOf(s, d, m, j)]
  <2>1. Branch(s, d, names) = [m \in ToSet(names) |-> B(m, pos(m))]
    BY DEF Branch, Below, TextOf
  <2>2. pos(names[i]) = i
    BY <1>5
  <2>3. B(names[i], i) = BranchMessage(s, d, names, i)
    BY <1>5 DEF BranchMessage
  <2> HIDE DEF pos, B
  <2> QED
    BY <1>3, <2>1, <2>2, <2>3
<1> QED
  BY <1>4, <1>6

LEMMA WrittenSays ==
  ASSUME NEW s \in Sources, NEW d, NEW names, Naming(s, d, names), NEW e, e = Written(s, d),
         NEW i \in 1..Len(s.msgs)
  PROVE  /\ e.msgs[names[i]].src = s.msgs[i].id /\ e.msgs[names[i]].text = s.msgs[i].text
         /\ e.msgs[names[i]].node = s.msgs[i].node
         /\ e.msgs[names[i]].time = TimeOf(s, d, names[i], i)
         /\ IsMessage(e.msgs[names[i]])
<1>1. e.msgs[names[i]] = BranchMessage(s, d, names, i)
  BY WrittenEntry
<1> QED
  BY <1>1 DEF BranchMessage, IsMessage

LEMMA WrittenParent ==
  ASSUME NEW s \in Sources, NEW d, NEW names, Naming(s, d, names), NEW e, e = Written(s, d),
         NEW i \in 1..Len(s.msgs)
  PROVE  e.msgs[names[i]].parent = IF i = 1 THEN None ELSE names[i - 1]
<1>1. e.msgs[names[i]] = BranchMessage(s, d, names, i)
  BY WrittenEntry
<1> QED
  BY <1>1 DEF BranchMessage

LEMMA WrittenChildren ==
  ASSUME NEW s \in Sources, NEW d, NEW names, Naming(s, d, names), NEW e, e = Written(s, d),
         NEW i \in 1..Len(s.msgs)
  PROVE  e.msgs[names[i]].children = IF i = Len(s.msgs) THEN Below(d, names, names[i])
                                     ELSE <<names[i + 1]>> \o Below(d, names, names[i])
<1>1. e.msgs[names[i]] = BranchMessage(s, d, names, i)
  BY WrittenEntry
<1> QED
  BY <1>1 DEF BranchMessage

ChildrenAre(s, d, names, e, i) ==
  /\ e.msgs[names[i]].children \in Seq(Ids(e)) /\ IsInjective(e.msgs[names[i]].children)
  /\ i = Len(s.msgs) => ChildSet(e, names[i]) = ToSet(Below(d, names, names[i]))
  /\ i # Len(s.msgs) =>
       ChildSet(e, names[i]) = ToSet(Below(d, names, names[i])) \cup {names[i + 1]}

\* The children of a message of the source: the next one, and what it had of others.
LEMMA WrittenChildSet ==
  ASSUME NEW s \in Sources, NEW d, IsTree(d), NEW names, Naming(s, d, names),
         NEW e, e = Written(s, d), NEW i \in 1..Len(s.msgs)
  PROVE  ChildrenAre(s, d, names, e, i)
<1> DEFINE J == Ids(e)
           k == Below(d, names, names[i])
<1>1. e.msgs[names[i]].children = IF i = Len(s.msgs) THEN k ELSE <<names[i + 1]>> \o k
  BY WrittenChildren
<1>2. J = Ids(d) \cup ToSet(names) /\ Len(s.msgs) \in Nat \ {0}
  <2>1. J = Ids(d) \cup ToSet(names)
    BY WrittenIds
  <2> QED
    BY <2>1, SourceShape
<1>3. k \in Seq(Ids(d)) /\ IsInjective(k) /\ ToSet(k) \cap ToSet(names) = {}
      /\ ToSet(k) \subseteq Ids(d)
  <2>1. names[i] \in Ids(d) => ChildSet(d, names[i]) \subseteq Ids(d)
    BY TreeShape
  <2> QED
    BY <2>1, BelowShape
<1> HIDE DEF J, k
<1>4. k \in Seq(J)
  <2>1. ToSet(k) \subseteq J
    BY <1>2, <1>3
  <2> QED
    BY <1>3, <2>1, SequenceWithin
<1>5. CASE i = Len(s.msgs)
  BY <1>1, <1>3, <1>4, <1>5 DEF ChildrenAre, ChildSet, J, k
<1>6. CASE i # Len(s.msgs)
  <2>1. i + 1 \in 1..Len(s.msgs)
    BY <1>2, <1>6
  <2> DEFINE x == names[i + 1]
             f == <<x>>
  <2>2. x \in ToSet(names)
    BY <2>1, NamedShape DEF Naming
  <2> HIDE DEF x
  <2>3. x \in J
    BY <1>2, <2>2
  <2>4. f \in Seq(J) /\ ToSet(f) = {x} /\ IsInjective(f)
    <3>1. f \in Seq(J)
      BY <2>3
    <3>2. DOMAIN f = {1} /\ f[1] = x
      OBVIOUS
    <3> HIDE DEF f
    <3> QED
      BY <3>1, <3>2 DEF ToSet, IsInjective
  <2>5. ToSet(f) \cap ToSet(k) = {}
    BY <1>3, <2>2, <2>4
  <2>6. e.msgs[names[i]].children = f \o k
    BY <1>1, <1>6 DEF x
  <2> HIDE DEF f
  <2>7. f \o k \in Seq(J) /\ ToSet(f \o k) = ToSet(f) \cup ToSet(k)
    BY <1>4, <2>4, ConcatSet
  <2>8. IsInjective(f \o k)
    BY <1>3, <1>4, <2>4, <2>5, ConcatInjective
  <2> QED
    BY <1>6, <2>4, <2>6, <2>7, <2>8 DEF ChildrenAre, ChildSet, J, k, x
<1> QED
  BY <1>5, <1>6

-----------------------------------------------------------------------------
(* What fits is written *)

\* The messages of the source that the document has.
LEMMA InsideIsNamed ==
  ASSUME NEW s \in Sources, NEW d, NEW names, Naming(s, d, names)
  PROVE  {m \in Ids(d) : d.msgs[m].src \in SourceIds(s)} = Ids(d) \cap ToSet(names)
<1>1. SourceIds(s) = {s.msgs[i].id : i \in 1..Len(s.msgs)}
  BY SourceShape
<1>2. ToSet(names) = {names[i] : i \in 1..Len(s.msgs)}
  BY NamedShape DEF Naming, ToSet
<1>3. \A m \in Ids(d), i \in 1..Len(s.msgs) : d.msgs[m].src = s.msgs[i].id <=> m = names[i]
  BY DEF Naming
<1> QED
  BY <1>1, <1>2, <1>3

\* That a source fits, by the names of its messages.
LEMMA FitsByName ==
  ASSUME NEW s \in Sources, NEW d, IsTree(d), NEW names, Naming(s, d, names)
  PROVE  Fits(s, d) <=>
           /\ names[Len(s.msgs)] \in Ids(d) =>
                ChildSet(d, names[Len(s.msgs)]) \subseteq ToSet(names)
           /\ \A m \in Ids(d) \ ToSet(names) :
                d.msgs[m].parent # None /\ ChildSet(d, m) \cap ToSet(names) = {}
<1> DEFINE T == ToSet(names)
           L == Len(s.msgs)
           inside == {m \in Ids(d) : d.msgs[m].src \in SourceIds(s)}
<1>1. inside = Ids(d) \cap T
  BY InsideIsNamed
<1>2. L \in 1..L /\ names[L] \in T
  <2>1. L \in 1..L
    BY SourceShape
  <2> QED
    BY <2>1, NamedShape DEF Naming
<1>3. \A m \in Ids(d) : d.msgs[m].src = s.msgs[L].id <=> m = names[L]
  BY <1>2 DEF Naming
<1>4. \A m \in Ids(d) : ChildSet(d, m) \subseteq Ids(d)
  BY TreeShape
<1>5. Fits(s, d) <=>
        /\ \A m \in inside : d.msgs[m].src = s.msgs[L].id => ChildSet(d, m) \subseteq inside
        /\ \A m \in Ids(d) \ inside :
             d.msgs[m].parent # None /\ ChildSet(d, m) \cap inside = {}
  BY DEF Fits
<1> HIDE DEF inside, T, L
<1>6. (\A m \in inside : d.msgs[m].src = s.msgs[L].id => ChildSet(d, m) \subseteq inside)
        <=> (names[L] \in Ids(d) => ChildSet(d, names[L]) \subseteq T)
  BY <1>1, <1>2, <1>3, <1>4
<1>7. (\A m \in Ids(d) \ inside : d.msgs[m].parent # None /\ ChildSet(d, m) \cap inside = {})
        <=> (\A m \in Ids(d) \ T : d.msgs[m].parent # None /\ ChildSet(d, m) \cap T = {})
  BY <1>1, <1>4
<1> QED
  BY <1>5, <1>6, <1>7 DEF T, L

\* The message of a source, by its place.
LEMMA NamedPlaces ==
  ASSUME NEW s \in Sources, NEW d, NEW names, Naming(s, d, names)
  PROVE  /\ ToSet(names) = {names[i] : i \in 1..Len(s.msgs)}
         /\ Len(s.msgs) \in Nat \ {0} /\ None \notin ToSet(names)
         /\ \A i, j \in 1..Len(s.msgs) : names[i] = names[j] => i = j
         /\ \A i \in 2..Len(s.msgs) : i - 1 \in 1..Len(s.msgs)
         /\ \A i \in 1..Len(s.msgs) : i # Len(s.msgs) => i + 1 \in 1..Len(s.msgs)
<1>1. /\ DOMAIN names = 1..Len(s.msgs) /\ Len(s.msgs) \in Nat \ {0}
      /\ \A i, j \in 1..Len(s.msgs) : names[i] = names[j] => i = j
      /\ \A i \in 1..Len(s.msgs) : names[i] # None
  BY NamedShape DEF Naming
<1>2. ToSet(names) = {names[i] : i \in 1..Len(s.msgs)}
  BY <1>1 DEF ToSet
<1> DEFINE L == Len(s.msgs)
<1>3. L \in Nat
  BY <1>1
<1> HIDE DEF L
<1>4. /\ \A i \in 2..L : i - 1 \in 1..L
      /\ \A i \in 1..L : i # L => i + 1 \in 1..L
  BY ONLY <1>3
<1> QED
  BY <1>1, <1>2, <1>4 DEF L

\* Where the messages of the source hang.
LEMMA WrittenLinks ==
  ASSUME NEW s \in Sources, NEW d, NEW names, Naming(s, d, names), NEW e, e = Written(s, d)
  PROVE  /\ e.msgs[names[1]].parent = None
         /\ \A i \in 2..Len(s.msgs) : e.msgs[names[i]].parent = names[i - 1]
         /\ \A c \in ToSet(names) : e.msgs[c].parent \in ToSet(names) \cup {None}
<1>1. \A i \in 1..Len(s.msgs) : e.msgs[names[i]].parent = IF i = 1 THEN None ELSE names[i - 1]
  BY WrittenParent
<1>2. /\ ToSet(names) = {names[i] : i \in 1..Len(s.msgs)} /\ Len(s.msgs) \in Nat \ {0}
      /\ \A i \in 2..Len(s.msgs) : i - 1 \in 1..Len(s.msgs)
  BY NamedPlaces
<1>3. 1 \in 1..Len(s.msgs) /\ \A i \in 2..Len(s.msgs) : i \in 1..Len(s.msgs) /\ i # 1
  BY <1>2
<1>4. \A i \in 1..Len(s.msgs) : i = 1 \/ i \in 2..Len(s.msgs)
  BY <1>2
<1>5. e.msgs[names[1]].parent = None
  BY <1>1, <1>3
<1>6. \A i \in 2..Len(s.msgs) : e.msgs[names[i]].parent = names[i - 1]
  BY <1>1, <1>3
<1>7. ASSUME NEW c \in ToSet(names) PROVE e.msgs[c].parent \in ToSet(names) \cup {None}
  <2>1. PICK i \in 1..Len(s.msgs) : c = names[i]
    BY <1>2
  <2>2. CASE i = 1
    BY <1>5, <2>1, <2>2
  <2>3. CASE i \in 2..Len(s.msgs)
    BY <1>2, <1>6, <2>1, <2>3
  <2> QED
    BY <1>4, <2>2, <2>3
<1> QED
  BY <1>5, <1>6, <1>7

LEMMA WrittenLast ==
  ASSUME NEW s \in Sources, NEW d, NEW names, Naming(s, d, names), NEW e, e = Written(s, d)
  PROVE  e.msgs[names[Len(s.msgs)]].children = Below(d, names, names[Len(s.msgs)])
<1> DEFINE L == Len(s.msgs)
<1>1. L \in 1..L
  BY SourceShape
<1>2. \A i \in 1..L : e.msgs[names[i]].children = IF i = L THEN Below(d, names, names[i])
                                                ELSE <<names[i + 1]>> \o Below(d, names, names[i])
  BY WrittenChildren
<1> HIDE DEF L
<1>3. e.msgs[names[L]].children = Below(d, names, names[L])
  BY <1>1, <1>2
<1> QED
  BY <1>3 DEF L

\* Nothing is left below the last message, and none outside is the root or the parent of
\* one inside.
FitsAt(s, d, names) ==
  /\ names[Len(s.msgs)] \in Ids(d) => ChildSet(d, names[Len(s.msgs)]) \subseteq ToSet(names)
  /\ \A m \in Ids(d) \ ToSet(names) :
       d.msgs[m].parent # None /\ ChildSet(d, m) \cap ToSet(names) = {}

LEMMA WrittenDocument ==
  ASSUME NEW s \in Sources, NEW d, IsTree(d), NEW names, Naming(s, d, names),
         NEW e, e = Written(s, d)
  PROVE  IsDocument(e)
<1> DEFINE J == Ids(e)
           T == ToSet(names)
<1>1. J = Ids(d) \cup T /\ \A m \in Ids(d) \ T : e.msgs[m] = d.msgs[m]
  BY WrittenIds
<1>2. IsFiniteSet(J)
  <2>1. IsFiniteSet(T)
    <3>1. names \in Seq(GateNames) /\ IsInjective(names)
      BY NamedShape DEF Naming, Named, IsInjective
    <3> QED
      BY <3>1, InjectiveLength
  <2>2. IsFiniteSet(Ids(d))
    BY TreeShape
  <2> DEFINE I == Ids(d)
  <2> HIDE DEF T, I
  <2>3. IsFiniteSet(I \cup T)
    BY <2>1, <2>2, FS_Union DEF I
  <2> QED
    BY <1>1, <2>3 DEF I
<1>3. ASSUME NEW m \in J
      PROVE  IsMessage(e.msgs[m]) /\ e.msgs[m].children \in Seq(J)
  <2>1. CASE m \in T
    <3>1. PICK i \in 1..Len(s.msgs) : m = names[i]
      BY <2>1, NamedPlaces
    <3>2. IsMessage(e.msgs[names[i]])
      BY WrittenSays
    <3>3. e.msgs[names[i]].children \in Seq(J)
      <4>1. ChildrenAre(s, d, names, e, i)
        BY WrittenChildSet
      <4> QED
        BY <4>1 DEF ChildrenAre
    <3> QED
      BY <3>1, <3>2, <3>3
  <2>2. CASE m \in Ids(d) \ T
    <3>1. e.msgs[m] = d.msgs[m]
      BY <1>1, <2>2
    <3>2. IsMessage(d.msgs[m])
      BY <2>2, MessageParts DEF IsMessage, IsTree
    <3> DEFINE c == d.msgs[m].children
    <3>3. c \in Seq(Ids(d)) /\ ToSet(c) \subseteq J
      BY <1>1, <2>2, TreeShape DEF ChildSet
    <3> HIDE DEF c, J
    <3>4. c \in Seq(J)
      BY <3>3, SequenceWithin
    <3> QED
      BY <3>1, <3>2, <3>4 DEF c
  <2> QED
    BY <1>1, <2>1, <2>2
<1>4. e.msgs = [m \in J |-> e.msgs[m]]
  BY WrittenIsFunction
<1>5. AreMessages(e.msgs, J)
  BY <1>2, <1>3, <1>4 DEF AreMessages
<1>6. e = [title |-> e.title, current |-> e.current, active |-> e.active, msgs |-> e.msgs]
  <2>1. e = [title |-> TitleOf(s), current |-> Last(names), active |-> names,
             msgs |-> OverDocument(d, Branch(s, d, names))]
    BY WrittenRecord
  <2>2. /\ e.title = TitleOf(s) /\ e.active = names /\ e.current = Last(names)
        /\ e.msgs = OverDocument(d, Branch(s, d, names))
    BY WrittenShape
  <2> DEFINE msgs == OverDocument(d, Branch(s, d, names))
             last == Last(names)
  <2>3. /\ e = [title |-> TitleOf(s), current |-> last, active |-> names, msgs |-> msgs]
        /\ e.title = TitleOf(s) /\ e.active = names /\ e.current = last /\ e.msgs = msgs
    BY <2>1, <2>2
  <2> HIDE DEF msgs, last
  <2> QED
    BY <2>3
<1>7. IsMade(e, e.title, e.current, e.active, e.msgs)
  BY <1>6 DEF IsMade
<1> HIDE DEF J
<1> QED
  BY <1>5, <1>7, IsDocumentOf

LEMMA WrittenGrounded ==
  ASSUME NEW s \in Sources, NEW d, IsTree(d), NEW names, Naming(s, d, names),
         NEW e, e = Written(s, d)
  PROVE  Grounded(e)
<1> DEFINE T == ToSet(names)
           L == Len(s.msgs)
<1>1. Ids(e) = Ids(d) \cup T /\ \A m \in Ids(d) \ T : e.msgs[m] = d.msgs[m]
  BY WrittenIds
<1>2. /\ e.msgs[names[1]].parent = None
      /\ \A i \in 2..L : e.msgs[names[i]].parent = names[i - 1]
  BY WrittenLinks
<1>3. /\ L \in Nat \ {0} /\ T = {names[i] : i \in 1..L} /\ None \notin T
      /\ \A i \in 2..L : i - 1 \in 1..L
  BY NamedPlaces
<1>4. None \notin Ids(d)
  BY TreeShape
<1> HIDE DEF T, L
<1> SUFFICES ASSUME NEW S \in SUBSET Ids(e), S # {}
             PROVE  \E m \in S : e.msgs[m].parent \notin S
  BY DEF Grounded
<1>5. CASE S \cap T = {}
  <2>1. S \in SUBSET Ids(d)
    BY <1>1, <1>5
  <2>2. PICK m \in S : d.msgs[m].parent \notin S
    BY <2>1 DEF IsTree, Grounded
  <2> QED
    BY <1>1, <1>5, <2>1, <2>2
<1>6. CASE S \cap T # {}
  <2> DEFINE P == {i \in 1..L : names[i] \in S}
  <2>1. P \subseteq Nat /\ P # {}
    BY <1>3, <1>6
  <2>2. PICK i \in P : \A k \in P : i <= k
    BY <2>1, LeastNumber
  <2>3. CASE i = 1
    BY <1>1, <1>2, <1>3, <1>4, <2>2, <2>3
  <2>4. CASE i # 1
    <3>1. i \in 2..L /\ names[i] \in S
      BY <1>3, <2>2, <2>4
    <3>2. i - 1 \in 1..L /\ ~(i <= i - 1)
      BY <1>3, <3>1
    <3>3. names[i - 1] \notin S
      BY <2>2, <3>2
    <3> QED
      BY <1>2, <3>1, <3>3
  <2> QED
    BY <2>3, <2>4
<1> QED
  BY <1>5, <1>6

LEMMA WrittenLinksAgree ==
  ASSUME NEW s \in Sources, NEW d, IsTree(d), NEW names, Naming(s, d, names),
         FitsAt(s, d, names), NEW e, e = Written(s, d), NEW m \in Ids(e)
  PROVE  /\ IsInjective(e.msgs[m].children)
         /\ e.msgs[m].parent \in Ids(e) \cup {None}
         /\ ChildSet(e, m) = {c \in Ids(e) : e.msgs[c].parent = m}
<1> DEFINE T == ToSet(names)
           L == Len(s.msgs)
           I == Ids(d)
           J == Ids(e)
<1>1. J = I \cup T /\ \A k \in I \ T : e.msgs[k] = d.msgs[k]
  BY WrittenIds
<1>2. /\ e.msgs[names[1]].parent = None
      /\ \A i \in 2..L : e.msgs[names[i]].parent = names[i - 1]
      /\ \A c \in T : e.msgs[c].parent \in T \cup {None}
  BY WrittenLinks
<1>3. /\ L \in Nat \ {0} /\ T = {names[i] : i \in 1..L} /\ None \notin T
      /\ \A i, j \in 1..L : names[i] = names[j] => i = j
      /\ \A i \in 2..L : i - 1 \in 1..L
      /\ \A i \in 1..L : i # L => i + 1 \in 1..L
  BY NamedPlaces
<1>4. None \notin I /\ \A k \in I : /\ IsInjective(d.msgs[k].children)
                                    /\ d.msgs[k].parent \in I \cup {None}
                                    /\ ChildSet(d, k) = {c \in I : d.msgs[c].parent = k}
  BY TreeShape
<1>5. /\ names[L] \in I => ChildSet(d, names[L]) \subseteq T
      /\ \A k \in I \ T : d.msgs[k].parent # None /\ ChildSet(d, k) \cap T = {}
  BY DEF FitsAt
<1>6. \A i \in 1..L :
        /\ IsInjective(e.msgs[names[i]].children)
        /\ i = L => ChildSet(e, names[i]) = ToSet(Below(d, names, names[i]))
        /\ i # L => ChildSet(e, names[i]) = ToSet(Below(d, names, names[i])) \cup {names[i + 1]}
  <2>1. \A i \in 1..L : ChildrenAre(s, d, names, e, i)
    BY WrittenChildSet
  <2> QED
    BY <2>1 DEF ChildrenAre
<1>7. \A k : /\ k \in I => ToSet(Below(d, names, k)) = ChildSet(d, k) \ T
             /\ k \notin I => ToSet(Below(d, names, k)) = {}
  BY BelowShape
<1> HIDE DEF T, L, I, J
<1>8. m \in J
  BY DEF J
<1>9. CASE m \in T
  <2>1. PICK i \in 1..L : m = names[i]
    BY <1>3, <1>9
  <2>2. IsInjective(e.msgs[m].children) /\ e.msgs[m].parent \in J \cup {None}
    BY <1>1, <1>2, <1>6, <1>9, <2>1
  <2>3. \A c \in I \ T : e.msgs[c].parent = m <=> c \in ToSet(Below(d, names, m))
    <3>1. CASE m \in I
      BY <1>1, <1>4, <1>7, <3>1
    <3>2. CASE m \notin I
      BY <1>1, <1>4, <1>5, <1>7, <3>2
    <3> QED
      BY <3>1, <3>2
  <2>4. \A j \in 1..L : e.msgs[names[j]].parent = m <=> i # L /\ j = i + 1
    <3> SUFFICES ASSUME NEW j \in 1..L
                 PROVE  e.msgs[names[j]].parent = m <=> i # L /\ j = i + 1
      OBVIOUS
    <3>1. CASE j = 1
      <4>1. e.msgs[names[j]].parent # m
        BY <1>2, <1>3, <1>9, <3>1
      <4>2. j # i + 1
        BY <1>3, <3>1
      <4> QED
        BY <4>1, <4>2
    <3>2. CASE j # 1
      <4>1. j \in 2..L
        BY <1>3, <3>2
      <4>2. e.msgs[names[j]].parent = names[j - 1] /\ j - 1 \in 1..L
        BY <1>2, <1>3, <4>1
      <4>3. e.msgs[names[j]].parent = m <=> j - 1 = i
        BY <1>3, <2>1, <4>2
      <4>4. j - 1 = i <=> i # L /\ j = i + 1
        BY <1>3, <4>1
      <4> QED
        BY <4>3, <4>4
    <3> QED
      BY <3>1, <3>2
  <2>5. ToSet(Below(d, names, m)) \subseteq I \ T
    BY <1>4, <1>7
  <2>6. \A c \in T : e.msgs[c].parent = m <=> i # L /\ c = names[i + 1]
    <3>1. i # L => i + 1 \in 1..L
      BY <1>3
    <3> QED
      BY <1>3, <2>4, <3>1
  <2>7. ChildSet(e, m) = ToSet(Below(d, names, m)) \cup (IF i = L THEN {} ELSE {names[i + 1]})
    BY <1>6, <2>1
  <2>8. i # L => names[i + 1] \in T
    BY <1>3
  <2>9. {c \in J : e.msgs[c].parent = m}
          = ToSet(Below(d, names, m)) \cup (IF i = L THEN {} ELSE {names[i + 1]})
    BY <1>1, <2>3, <2>5, <2>6, <2>8
  <2> QED
    BY <2>2, <2>7, <2>9 DEF J
<1>10. CASE m \notin T
  <2>1. m \in I \ T /\ e.msgs[m] = d.msgs[m] /\ m # None
    BY <1>1, <1>4, <1>8, <1>10
  <2>2. /\ IsInjective(e.msgs[m].children) /\ e.msgs[m].parent \in I
        /\ ChildSet(e, m) = ChildSet(d, m) /\ ChildSet(d, m) \cap T = {}
    BY <1>4, <1>5, <2>1 DEF ChildSet
  <2>3. {c \in J : e.msgs[c].parent = m} = {c \in I : d.msgs[c].parent = m}
    <3>1. \A c \in T : e.msgs[c].parent # m
      BY <1>2, <2>1
    <3>2. \A c \in I : d.msgs[c].parent = m => c \notin T
      BY <1>4, <2>1, <2>2
    <3> QED
      BY <1>1, <3>1, <3>2
  <2> QED
    BY <1>1, <1>4, <2>1, <2>2, <2>3 DEF J
<1> QED
  BY <1>9, <1>10

LEMMA WrittenIsWhole ==
  ASSUME NEW s \in Sources, NEW d, IsTree(d), NEW names, Naming(s, d, names),
         FitsAt(s, d, names), NEW e, e = Written(s, d)
  PROVE  IsWhole(e) /\ IsTree(e)
<1> DEFINE T == ToSet(names)
           L == Len(s.msgs)
<1>1. Ids(e) = Ids(d) \cup T /\ \A k \in Ids(d) \ T : e.msgs[k] = d.msgs[k]
  BY WrittenIds
<1>2. /\ e.msgs[names[1]].parent = None
      /\ \A i \in 2..L : e.msgs[names[i]].parent = names[i - 1]
  BY WrittenLinks
<1>3. /\ L \in Nat \ {0} /\ T = {names[i] : i \in 1..L} /\ None \notin T
      /\ \A i, j \in 1..L : names[i] = names[j] => i = j
      /\ \A i \in 2..L : i - 1 \in 1..L
  BY NamedPlaces
<1>4. None \notin Ids(d)
  BY TreeShape
<1>5. /\ names[L] \in Ids(d) => ChildSet(d, names[L]) \subseteq T
      /\ \A k \in Ids(d) \ T : d.msgs[k].parent # None
  BY DEF FitsAt
<1>6. /\ e.active = names /\ e.current = Last(names) /\ e.current = names[L]
  BY WrittenShape
<1>7. \A m \in Ids(e) : /\ IsInjective(e.msgs[m].children)
                        /\ e.msgs[m].parent \in Ids(e) \cup {None}
                        /\ ChildSet(e, m) = {c \in Ids(e) : e.msgs[c].parent = m}
  BY WrittenLinksAgree
<1>8. IsDocument(e) /\ Grounded(e)
  BY WrittenDocument, WrittenGrounded
<1>9. 1 \in 1..L /\ L \in 1..L /\ \A i \in 1..L : i = 1 \/ i \in 2..L
  BY <1>3
<1>10. names[1] \in T /\ names[L] \in T
  BY <1>3, <1>9
<1>11. Roots(e) = {names[1]}
  <2>1. \A i \in 2..L : e.msgs[names[i]].parent # None
    BY <1>2, <1>3
  <2>2. \A c \in T : e.msgs[c].parent = None <=> c = names[1]
    BY <1>2, <1>3, <1>9, <2>1
  <2>3. \A c \in Ids(d) \ T : e.msgs[c].parent # None
    BY <1>1, <1>5
  <2> HIDE DEF T
  <2> QED
    BY <1>1, <1>10, <2>2, <2>3 DEF Roots
<1>12. IsTree(e)
  <2> DEFINE r == names[1]
  <2>1. None \notin Ids(e) /\ r \in Ids(e) /\ Roots(e) = {r}
    BY <1>1, <1>3, <1>4, <1>10, <1>11
  <2> HIDE DEF r
  <2> QED
    BY <1>7, <1>8, <2>1, TreeFrom
<1>13. IsBranch(e, names)
  <2>1. names \in Seq(Ids(e))
    <3>1. names \in Seq(GateNames) /\ ToSet(names) \subseteq Ids(e)
      BY <1>1 DEF Naming, Named
    <3> DEFINE J == Ids(e)
    <3>2. ToSet(names) \subseteq J
      BY <3>1
    <3> HIDE DEF J
    <3>3. names \in Seq(J)
      BY <3>1, <3>2, SequenceWithin
    <3> QED
      BY <3>3 DEF J
  <2>2. Len(names) = L /\ DOMAIN names = 1..L
    BY NamedShape DEF Naming
  <2>3. IsInjective(names)
    BY <1>3, <2>2 DEF IsInjective
  <2>4. L > 0
    BY <1>3
  <2> HIDE DEF L, T
  <2> QED
    BY <1>2, <2>1, <2>2, <2>3, <2>4 DEF IsBranch
<1>14. e.msgs[names[L]].children = <<>>
  <2>1. e.msgs[names[L]].children = Below(d, names, names[L])
    BY WrittenLast
  <2>2. CASE names[L] \notin Ids(d)
    BY <2>1, <2>2, BelowShape
  <2>3. CASE names[L] \in Ids(d)
    <3> DEFINE b == Below(d, names, names[L])
    <3>1. b \in Seq(Ids(d)) /\ ToSet(b) = {}
      BY <1>5, <2>3, BelowShape
    <3> HIDE DEF b
    <3>2. b = <<>>
      BY <3>1 DEF ToSet
    <3> QED
      BY <2>1, <3>2 DEF b
  <2> QED
    BY <2>2, <2>3
<1>15. IsBranch(e, e.active) /\ e.current = Last(e.active) /\ e.msgs[e.current].children = <<>>
  BY <1>6, <1>13, <1>14
<1>16. IsWhole(e)
  <2>1. IsBranch(e, e.active)
    BY <1>15
  <2>2. e.current = Last(e.active)
    BY <1>15
  <2>3. e.msgs[e.current].children = <<>>
    BY <1>15
  <2> QED
    BY <1>12, <2>1, <2>2, <2>3, TreeIsWhole
<1> QED
  BY <1>12, <1>16

\* What normalizeChat accepts of what was written fitted.
LEMMA WholeFits ==
  ASSUME NEW s \in Sources, NEW d, IsTree(d), NEW names, Naming(s, d, names),
         NEW e, e = Written(s, d), IsWhole(e)
  PROVE  FitsAt(s, d, names)
<1> DEFINE T == ToSet(names)
           L == Len(s.msgs)
<1>1. Ids(e) = Ids(d) \cup T /\ \A k \in Ids(d) \ T : e.msgs[k] = d.msgs[k]
  BY WrittenIds
<1>2. /\ e.msgs[names[1]].parent = None
      /\ \A c \in T : e.msgs[c].parent \in T \cup {None}
  BY WrittenLinks
<1>3. /\ L \in Nat \ {0} /\ T = {names[i] : i \in 1..L} /\ None \notin T
  BY NamedPlaces
<1>4. None \notin Ids(d)
  BY TreeShape
<1>5. 1 \in 1..L /\ L \in 1..L
  BY <1>3
<1>6. names[1] \in T /\ names[L] \in T
  BY <1>3, <1>5
<1>7. /\ Cardinality(Roots(e)) = 1 /\ LinksAgree(e) /\ e.msgs[e.current].children = <<>>
      /\ e.current = names[L]
  BY WrittenShape DEF IsWhole
<1> HIDE DEF T
<1>8. Roots(e) = {names[1]}
  <2>1. names[1] \in Roots(e)
    BY <1>1, <1>2, <1>6 DEF Roots
  <2>2. IsFiniteSet(Roots(e))
    <3>1. IsFiniteSet(Ids(e)) /\ Roots(e) \subseteq Ids(e)
      BY WrittenDocument DEF IsDocument, Roots
    <3> QED
      BY <3>1, FS_Subset
  <2>3. \E x : Roots(e) = {x}
    BY <1>7, <2>2, FS_Singleton
  <2> QED
    BY <2>1, <2>3
<1>9. ASSUME NEW m \in Ids(d) \ T
      PROVE  d.msgs[m].parent # None /\ ChildSet(d, m) \cap T = {}
  <2>1. m \in Ids(e) /\ e.msgs[m] = d.msgs[m] /\ m # names[1] /\ m # None
    BY <1>1, <1>4, <1>6
  <2>2. d.msgs[m].parent # None
    BY <1>8, <2>1 DEF Roots
  <2>3. \A c \in ChildSet(e, m) : e.msgs[c].parent = m
    BY <1>7, <2>1 DEF LinksAgree
  <2>4. ChildSet(d, m) = ChildSet(e, m)
    BY <2>1 DEF ChildSet
  <2> QED
    BY <1>2, <2>1, <2>2, <2>3, <2>4
<1>10. ASSUME names[L] \in Ids(d) PROVE ChildSet(d, names[L]) \subseteq T
  <2>1. Below(d, names, names[L]) = <<>>
    BY <1>7, WrittenLast
  <2>2. ToSet(Below(d, names, names[L])) = ChildSet(d, names[L]) \ T
    BY <1>10, BelowShape DEF T
  <2> QED
    BY <2>1, <2>2, EmptySet
<1> QED
  BY <1>9, <1>10 DEF FitsAt, T

LEMMA WrittenShows ==
  ASSUME NEW s \in Sources, NEW d, NEW names, Naming(s, d, names), NEW e, e = Written(s, d)
  PROVE  Shows(e, s)
<1>1. e.title = TitleOf(s) /\ e.active = names
  BY WrittenShape
<1>2. DOMAIN names = 1..Len(s.msgs) /\ Positions(s) = 1..Len(s.msgs)
  BY NamedShape, SourceShape DEF Naming
<1>3. \A i \in 1..Len(s.msgs) :
        /\ e.msgs[names[i]].src = s.msgs[i].id /\ e.msgs[names[i]].text = s.msgs[i].text
        /\ e.msgs[names[i]].node = s.msgs[i].node
        /\ s.msgs[i].time # None => e.msgs[names[i]].time = s.msgs[i].time
  BY WrittenSays DEF TimeOf
<1>4. [i \in 1..Len(s.msgs) |-> e.msgs[names[i]].src] = [i \in 1..Len(s.msgs) |-> s.msgs[i].id]
  BY <1>3
<1> QED
  BY <1>1, <1>2, <1>3, <1>4 DEF Shows

\* What is put before a sequence is not seen by who does not look for it.
LEMMA OnlyBehind ==
  ASSUME NEW E, NEW x \in E, NEW s \in Seq(E), NEW S, x \notin S
  PROVE  Only(<<x>> \o s, S) = Only(s, S)
<1> DEFINE f == <<x>>
<1>1. f \in Seq(E)
  OBVIOUS
<1>2. ToSet(f) = {x}
  <2>1. DOMAIN f = {1} /\ f[1] = x
    OBVIOUS
  <2> HIDE DEF f
  <2> QED
    BY <2>1 DEF ToSet
<1> HIDE DEF f
<1>3. Only(f, S) = <<>>
  <2>1. ToSet(f) \cap S = ToSet(f) \cap {}
    BY <1>2
  <2>2. Only(f, S) = Only(f, {})
    BY <1>1, <2>1, OnlyAgrees
  <2> QED
    BY <1>1, <2>2, OnlyNothing
<1>4. Only(f \o s, S) = Only(f, S) \o Only(s, S)
  BY <1>1, OnlyConcat
<1>5. Only(s, S) \in Seq(E)
  BY OnlyTakes
<1> DEFINE o == Only(s, S)
<1>6. o \in Seq(E)
  BY <1>5
<1> HIDE DEF o
<1>7. <<>> \o o = o
  BY <1>6
<1> QED
  BY <1>3, <1>4, <1>7 DEF f, o

\* Of the children of a message of the source, those outside of it are as they were.
LEMMA WrittenOthers ==
  ASSUME NEW s \in Sources, NEW d, IsTree(d), NEW names, Naming(s, d, names),
         NEW e, e = Written(s, d), NEW i \in 1..Len(s.msgs),
         NEW S, S \cap ToSet(names) = {}
  PROVE  Only(e.msgs[names[i]].children, S) = Only(Below(d, names, names[i]), S)
<1> DEFINE b == Below(d, names, names[i])
           J == Ids(e)
<1>1. e.msgs[names[i]].children = IF i = Len(s.msgs) THEN b ELSE <<names[i + 1]>> \o b
  BY WrittenChildren
<1>2. CASE i = Len(s.msgs)
  BY <1>1, <1>2
<1>3. CASE i # Len(s.msgs)
  <2> DEFINE x == names[i + 1]
  <2>1. x \in ToSet(names)
    BY <1>3, NamedPlaces
  <2>2. J = Ids(d) \cup ToSet(names)
    BY WrittenIds
  <2>3. b \in Seq(Ids(d))
    BY BelowShape
  <2>4. ToSet(b) \subseteq J
    <3>1. names[i] \in Ids(d) => ChildSet(d, names[i]) \subseteq Ids(d)
      BY TreeShape
    <3> QED
      BY <2>2, <3>1, BelowShape
  <2>5. e.msgs[names[i]].children = <<x>> \o b
    BY <1>1, <1>3
  <2> HIDE DEF x, b, J
  <2>6. b \in Seq(J)
    BY <2>3, <2>4, SequenceWithin
  <2>7. x \in J /\ x \notin S
    BY <2>1, <2>2
  <2>8. Only(<<x>> \o b, S) = Only(b, S)
    BY <2>6, <2>7, OnlyBehind
  <2> QED
    BY <2>5, <2>8 DEF b
<1> QED
  BY <1>2, <1>3

LEMMA WrittenKeepsOthers ==
  ASSUME NEW s \in Sources, NEW d, IsTree(d), NEW names, Naming(s, d, names),
         NEW e, e = Written(s, d)
  PROVE  KeepsOthers(d, e, s)
<1> DEFINE T == ToSet(names)
           I == Ids(d)
           others == {m \in Ids(d) : d.msgs[m].src \notin SourceIds(s)}
<1>1. Ids(e) = I \cup T /\ \A m \in I \ T : e.msgs[m] = d.msgs[m]
  BY WrittenIds
<1>2. others = I \ T
  <2>1. {m \in Ids(d) : d.msgs[m].src \in SourceIds(s)} = I \cap T
    BY InsideIsNamed
  <2> QED
    BY <2>1
<1>3. T = {names[i] : i \in 1..Len(s.msgs)}
  BY NamedPlaces
<1> HIDE DEF others
<1>4. ASSUME NEW n \in I
      PROVE  Only(e.msgs[n].children, others) = Only(d.msgs[n].children, others)
  <2>1. CASE n \notin T
    BY <1>1, <2>1
  <2>2. CASE n \in T
    <3>1. PICK i \in 1..Len(s.msgs) : n = names[i]
      BY <1>3, <2>2
    <3> DEFINE c == d.msgs[n].children
               K == ChildSet(d, n) \ T
    <3>2. others \cap T = {}
      BY <1>2
    <3>3. Only(e.msgs[n].children, others) = Only(Below(d, names, n), others)
      BY <3>1, <3>2, WrittenOthers
    <3>4. Below(d, names, n) = Only(c, K)
      BY DEF Below, PreservedUnmanagedChildren
    <3>5. c \in Seq(I) /\ ToSet(c) \cap (K \cap others) = ToSet(c) \cap others
      <4>1. c \in Seq(I) /\ ToSet(c) = ChildSet(d, n)
        BY TreeShape DEF ChildSet
      <4> QED
        BY <1>2, <4>1
    <3> DEFINE V == K \cap others
    <3>6. ToSet(c) \cap V = ToSet(c) \cap others
      BY <3>5
    <3>7. c \in Seq(I)
      BY <3>5
    <3> HIDE DEF c, K, I
    <3>8. Only(Only(c, K), others) = Only(c, V)
      BY <3>7, OnlyTwice
    <3> HIDE DEF V
    <3>9. Only(c, V) = Only(c, others)
      BY <3>6, <3>7, OnlyAgrees
    <3> QED
      BY <3>3, <3>4, <3>8, <3>9 DEF c
  <2> QED
    BY <2>1, <2>2
<1>5. others \subseteq Ids(e)
      /\ \A m \in others : e.msgs[m].text = d.msgs[m].text /\ e.msgs[m].parent = d.msgs[m].parent
  BY <1>1, <1>2
<1> QED
  BY <1>4, <1>5 DEF KeepsOthers, others

\* The names are found again in what was written under them, and no two messages say one.
LEMMA WrittenNaming ==
  ASSUME NEW s \in Sources, NEW d, NEW names, Naming(s, d, names), ~Duplicated(d),
         NEW e, e = Written(s, d)
  PROVE  Naming(s, e, names) /\ ~Duplicated(e)
<1> DEFINE T == ToSet(names)
           L == Len(s.msgs)
<1>1. Ids(e) = Ids(d) \cup T /\ \A m \in Ids(d) \ T : e.msgs[m] = d.msgs[m]
  BY WrittenIds
<1>2. \A i \in 1..L : e.msgs[names[i]].src = s.msgs[i].id
  BY WrittenSays
<1>3. /\ T = {names[i] : i \in 1..L}
      /\ \A i, j \in 1..L : names[i] = names[j] => i = j
  BY NamedPlaces
<1>4. /\ \A i, j \in 1..L : s.msgs[i].id = s.msgs[j].id => i = j
  BY SourceShape
<1>5. \A m \in Ids(d), i \in 1..L : d.msgs[m].src = s.msgs[i].id <=> m = names[i]
  BY DEF Naming
<1> HIDE DEF T
<1>6. ASSUME NEW m \in Ids(e), NEW i \in 1..L
      PROVE  e.msgs[m].src = s.msgs[i].id <=> m = names[i]
  <2>1. CASE m \in T
    BY <1>2, <1>3, <1>4, <2>1
  <2>2. CASE m \notin T
    BY <1>1, <1>2, <1>5, <2>2
  <2> QED
    BY <2>1, <2>2
<1>7. ASSUME NEW i \in 1..L PROVE TargetID(s, e, s.msgs[i].id) = names[i]
  <2> DEFINE existing == {m \in Ids(e) : e.msgs[m].src = s.msgs[i].id}
  <2>1. existing = {names[i]}
    BY <1>1, <1>3, <1>6
  <2>2. TargetID(s, e, s.msgs[i].id) = IF existing = {} THEN DeterministicMessageID(s, s.msgs[i].id)
                                       ELSE CHOOSE m \in existing : TRUE
    BY DEF TargetID
  <2> HIDE DEF existing
  <2> QED
    BY <2>1, <2>2
<1>8. Naming(s, e, names)
  BY <1>6, <1>7 DEF Naming
<1>9. ~Duplicated(e)
  <2> SUFFICES ASSUME NEW m \in Ids(e), NEW n \in Ids(e), m # n, e.msgs[m].src # None,
                      e.msgs[m].src = e.msgs[n].src
               PROVE  FALSE
    BY DEF Duplicated
  <2>1. CASE m \in T
    <3>1. PICK i \in 1..L : m = names[i]
      BY <1>3, <2>1
    <3> QED
      BY <1>2, <1>6, <3>1
  <2>2. CASE n \in T
    <3>1. PICK i \in 1..L : n = names[i]
      BY <1>3, <2>2
    <3> QED
      BY <1>2, <1>6, <3>1
  <2>3. CASE m \notin T /\ n \notin T
    BY <1>1, <2>3 DEF Duplicated
  <2> QED
    BY <2>1, <2>2, <2>3
<1> QED
  BY <1>8, <1>9

\* What is below the messages of the source is what was there.
LEMMA BelowAgain ==
  ASSUME NEW s \in Sources, NEW d, IsTree(d), NEW names, Naming(s, d, names),
         NEW e, e = Written(s, d), NEW i \in 1..Len(s.msgs)
  PROVE  Below(e, names, names[i]) = Below(d, names, names[i])
<1> DEFINE b == Below(d, names, names[i])
           K == ChildSet(e, names[i]) \ ToSet(names)
           x == e.msgs[names[i]].children
<1>1. names[i] \in Ids(e)
  <2>1. names[i] \in ToSet(names)
    BY NamedPlaces
  <2> QED
    BY <2>1, WrittenIds
<1>2. Below(e, names, names[i]) = Only(x, K)
  BY <1>1 DEF Below, PreservedUnmanagedChildren
<1>3. Only(x, K) = Only(b, K)
  <2>1. \A S : S \cap ToSet(names) = {} => Only(x, S) = Only(b, S)
    BY WrittenOthers
  <2>2. K \cap ToSet(names) = {}
    OBVIOUS
  <2> HIDE DEF K, x, b
  <2> QED
    BY <2>1, <2>2
<1>4. b \in Seq(Ids(d)) /\ ToSet(b) \cap ToSet(names) = {}
  BY BelowShape
<1>5. ToSet(b) \subseteq K
  <2>1. ChildrenAre(s, d, names, e, i)
    BY WrittenChildSet
  <2>2. ToSet(b) \subseteq ChildSet(e, names[i])
    BY <2>1 DEF ChildrenAre
  <2> QED
    BY <1>4, <2>2
<1> HIDE DEF b, K, x
<1>6. Only(b, K) = b
  BY <1>4, <1>5, OnlyAll
<1> QED
  BY <1>2, <1>3, <1>6 DEF b

\* Writing again changes nothing.
LEMMA WrittenTwice ==
  ASSUME NEW s \in Sources, NEW d, IsTree(d), NEW names, Naming(s, d, names), ~Duplicated(d),
         NEW e, e = Written(s, d)
  PROVE  Written(s, e) = e
<1> DEFINE f == Written(s, e)
           T == ToSet(names)
<1>1. Naming(s, e, names)
  BY WrittenNaming
<1>2. Ids(e) = Ids(d) \cup T
  BY WrittenIds
<1> HIDE DEF f
<1>3. Ids(f) = Ids(e) \cup T /\ \A m \in Ids(e) \ T : f.msgs[m] = e.msgs[m]
  BY <1>1, WrittenIds DEF f
<1>4. \A i \in 1..Len(s.msgs) : f.msgs[names[i]] = e.msgs[names[i]]
  <2> SUFFICES ASSUME NEW i \in 1..Len(s.msgs)
               PROVE  f.msgs[names[i]] = e.msgs[names[i]]
    OBVIOUS
  <2>1. f.msgs[names[i]] = BranchMessage(s, e, names, i)
    BY <1>1, WrittenEntry DEF f
  <2>2. e.msgs[names[i]] = BranchMessage(s, d, names, i)
    BY WrittenEntry
  <2>3. Below(e, names, names[i]) = Below(d, names, names[i])
    BY BelowAgain
  <2>4. TimeOf(s, e, names[i], i) = TimeOf(s, d, names[i], i)
    <3>1. names[i] \in Ids(e) /\ e.msgs[names[i]].time = TimeOf(s, d, names[i], i)
      BY <1>2, NamedPlaces, WrittenSays
    <3> QED
      BY <3>1 DEF TimeOf
  <2>5. BranchMessage(s, e, names, i) = BranchMessage(s, d, names, i)
    BY <2>3, <2>4 DEF BranchMessage
  <2> QED
    BY <2>1, <2>2, <2>5
<1>5. T = {names[i] : i \in 1..Len(s.msgs)}
  BY NamedPlaces
<1>6. \A m \in Ids(e) : f.msgs[m] = e.msgs[m]
  BY <1>3, <1>4, <1>5
<1>7. Ids(f) = Ids(e)
  BY <1>2, <1>3
<1>8. f.msgs = [m \in Ids(f) |-> f.msgs[m]]
  BY <1>1, WrittenIsFunction DEF f
<1>9. e.msgs = [m \in Ids(e) |-> e.msgs[m]]
  BY WrittenIsFunction
<1>10. f.msgs = e.msgs
  BY <1>6, <1>7, <1>8, <1>9
<1>11. /\ f.msgs = OverDocument(e, Branch(s, e, names))
       /\ e.msgs = OverDocument(d, Branch(s, d, names))
  BY <1>1, WrittenShape DEF f
<1>12. f = [title |-> TitleOf(s), current |-> Last(names), active |-> names,
            msgs |-> OverDocument(e, Branch(s, e, names))]
  BY <1>1, WrittenRecord DEF f
<1>13. e = [title |-> TitleOf(s), current |-> Last(names), active |-> names,
            msgs |-> OverDocument(d, Branch(s, d, names))]
  BY WrittenRecord
<1> QED
  BY <1>10, <1>11, <1>12, <1>13 DEF f

-----------------------------------------------------------------------------
(* The names in a chat *)

\* In what human edits left, a source message is said by the one message that the gate
\* once wrote for it, or by none.
LEMMA ChatNaming ==
  ASSUME SyncInv, NEW s \in Sources
  PROVE  \E names : Naming(s, chat, names) /\ ~Duplicated(chat)
<1> DEFINE L == Len(s.msgs)
           P == Len(prev.msgs)
           old == base.active
<1>1. /\ EditedFrom(base, chat) /\ prev \in Sources
      /\ Named(prev, old) /\ IsLine(base, prev, old)
  BY DEF SyncInv, ChatInv, BaseInv
<1>2. /\ Ids(chat) \subseteq Ids(base) \cup HumanIds
      /\ \A m \in Ids(chat) : chat.msgs[m].src = IF m \in Ids(base) THEN base.msgs[m].src ELSE None
  BY <1>1 DEF EditedFrom
<1>3. \A m \in Ids(base) : \E j \in 1..P : m = old[j]
  BY <1>1, LineShape
<1>4. \A j \in 1..P : base.msgs[old[j]].src = prev.msgs[j].id
  BY <1>1, LineSays
<1>5. /\ \A j \in 1..P : old[j] \in GateNames /\ old[j][2] = prev.msgs[j].id
  <2>1. Positions(prev) = 1..P
    BY <1>1, SourceShape
  <2> QED
    BY <1>1, <2>1, NamedShape DEF Named
<1>6. /\ \A i, j \in 1..P : prev.msgs[i].id = prev.msgs[j].id => i = j
  BY <1>1, SourceShape
<1>7. /\ \A i, j \in 1..L : s.msgs[i].id = s.msgs[j].id => i = j
      /\ \A i \in 1..L : s.msgs[i].id # None
      /\ Positions(s) = 1..L /\ L \in Nat \ {0}
  BY SourceShape
<1>8. GateNames \cap HumanIds = {}
  BY NamesAssumption
\* The messages that say one are the gate's, and their names say what they say.
<1>9. \A m \in Ids(chat) :
        chat.msgs[m].src # None => /\ m \in Ids(base) /\ m \in GateNames
                                   /\ m[2] = chat.msgs[m].src
                                   /\ \E j \in 1..P :
                                        m = old[j] /\ chat.msgs[m].src = prev.msgs[j].id
  BY <1>2, <1>3, <1>4, <1>5
<1>10. \A m \in Ids(chat) : m \in GateNames => m[2] = chat.msgs[m].src
  <2> SUFFICES ASSUME NEW m \in Ids(chat), m \in GateNames PROVE m[2] = chat.msgs[m].src
    OBVIOUS
  <2>1. m \in Ids(base)
    BY <1>2, <1>8
  <2>2. PICK j \in 1..P : m = old[j]
    BY <1>3, <2>1
  <2> QED
    BY <1>2, <1>4, <1>5, <2>1, <2>2
<1>11. ~Duplicated(chat)
  <2> SUFFICES ASSUME NEW m \in Ids(chat), NEW n \in Ids(chat), m # n, chat.msgs[m].src # None,
                      chat.msgs[m].src = chat.msgs[n].src
               PROVE  FALSE
    BY DEF Duplicated
  <2>1. PICK i \in 1..P : m = old[i] /\ chat.msgs[m].src = prev.msgs[i].id
    BY <1>9
  <2>2. PICK j \in 1..P : n = old[j] /\ chat.msgs[n].src = prev.msgs[j].id
    BY <1>9
  <2> QED
    BY <1>6, <2>1, <2>2
<1> DEFINE names == [i \in 1..L |-> TargetID(s, chat, s.msgs[i].id)]
           existing(i) == {m \in Ids(chat) : chat.msgs[m].src = s.msgs[i].id}
<1>12. ASSUME NEW i \in 1..L
       PROVE  /\ names[i] \in GateNames /\ names[i][2] = s.msgs[i].id
              /\ \A m \in Ids(chat) : chat.msgs[m].src = s.msgs[i].id <=> m = names[i]
  <2>1. names[i] = IF existing(i) = {} THEN <<s.basis, s.msgs[i].id>>
                   ELSE CHOOSE m \in existing(i) : TRUE
    BY DEF TargetID, DeterministicMessageID
  <2> DEFINE n == names[i]
             new == <<s.basis, s.msgs[i].id>>
  <2>2. new \in GateNames /\ new[2] = s.msgs[i].id
    BY <1>7 DEF GateNames, SourceIds
  <2>3. n = IF existing(i) = {} THEN new ELSE CHOOSE m \in existing(i) : TRUE
    BY <2>1
  <2> HIDE DEF n, new
  <2>4. CASE existing(i) = {}
    <3>1. n = new /\ \A m \in Ids(chat) : chat.msgs[m].src # s.msgs[i].id
      BY <2>3, <2>4
    <3>2. new \notin Ids(chat)
      BY <1>10, <2>2, <3>1
    <3> QED
      BY <2>2, <3>1, <3>2 DEF n
  <2>5. CASE existing(i) # {}
    <3>1. n \in Ids(chat) /\ chat.msgs[n].src = s.msgs[i].id
      <4>1. n = CHOOSE m \in existing(i) : TRUE
        BY <2>3, <2>5
      <4>2. n \in existing(i)
        BY <2>5, <4>1
      <4> QED
        BY <4>2
    <3>2. \A m \in Ids(chat) : chat.msgs[m].src = s.msgs[i].id => m = n
      BY <1>7, <1>11, <3>1 DEF Duplicated
    <3>3. n \in GateNames /\ n[2] = s.msgs[i].id
      BY <1>7, <1>9, <3>1
    <3> QED
      BY <3>1, <3>2, <3>3 DEF n
  <2> QED
    BY <2>4, <2>5
<1>13. \A i \in 1..L : TargetID(s, chat, s.msgs[i].id) = names[i]
  OBVIOUS
<1>14. names = [i \in 1..L |-> names[i]]
  OBVIOUS
<1> HIDE DEF names
<1>15. Named(s, names)
  <2>1. NamesEach(s, names)
    BY <1>12, <1>14 DEF NamesEach
  <2> QED
    BY <2>1, NamesOf
<1>16. Naming(s, chat, names)
  BY <1>12, <1>13, <1>15 DEF Naming
<1> QED
  BY <1>11, <1>16

LEMMA WritesWhatFitsNow ==
  ASSUME SyncInv
  PROVE  WritesWhatFits
<1> DEFINE s == share
           d == chat
           e == Written(share, chat)
<1>1. s \in Sources /\ IsTree(d)
  BY DEF SyncInv, BaseInv, ChatInv, EditedFrom
<1>2. PICK names : Naming(s, d, names) /\ ~Duplicated(d)
  BY <1>1, ChatNaming
<1>3. Buildable(s, d) <=> IsWhole(e)
  BY <1>2 DEF Buildable
<1>4. Fits(s, d) <=> FitsAt(s, d, names)
  BY <1>1, <1>2, FitsByName DEF FitsAt
<1>5. IsWhole(e) => FitsAt(s, d, names)
  BY <1>1, <1>2, WholeFits
<1>6. FitsAt(s, d, names) => IsWhole(e)
  BY <1>1, <1>2, WrittenIsWhole
<1>7. Shows(e, s)
  BY <1>1, <1>2, WrittenShows
<1>8. KeepsOthers(d, e, s)
  BY <1>1, <1>2, WrittenKeepsOthers
<1>9. Written(s, e) = e
  BY <1>1, <1>2, WrittenTwice
<1>10. ~Duplicated(e)
  BY <1>1, <1>2, WrittenNaming
<1> HIDE DEF e
<1>11. ASSUME Buildable(s, d)
       PROVE  BuildSnapshot(s, d) = e /\ BuildSnapshot(s, e) = e
  <2>1. BuildSnapshot(s, d) = e
    BY <1>11 DEF BuildSnapshot, e
  <2>2. Buildable(s, e)
    BY <1>3, <1>9, <1>10, <1>11 DEF Buildable
  <2> QED
    BY <1>9, <2>1, <2>2 DEF BuildSnapshot
<1> QED
  BY <1>3, <1>4, <1>5, <1>6, <1>7, <1>8, <1>11 DEF WritesWhatFits

\* BuildSnapshot fails on exactly the documents that cannot take the source without moving
\* somebody else's message; what it builds shows the source and leaves the others in place.
THEOREM AlwaysWritesWhatFits ==
  SyncSpec => []WritesWhatFits
BY AlwaysEditedFrom, WritesWhatFitsNow, PTL
=============================================================================
