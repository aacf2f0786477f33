----------------------------- MODULE SourceDiff -----------------------------
(***************************************************************************)
(* diff.Preview (internal/diff/preview.go): what a new source snapshot     *)
(* changes in relation to the previous one, what the target has become in  *)
(* relation to its baseline, and the status of the plan that follows.      *)
(*                                                                         *)
(* Sources are [title, candidate, parser, partial, msgs], msgs a sequence  *)
(* of [id, node, text, ...]: the parser numbers messages by their place    *)
(* and gives each the node of the one before it as parent; the rest of a   *)
(* message, its creation time, counts for the hash alone.  Targets are     *)
(* projections of documents, [title, current, msgs], msgs a sequence of    *)
(* [id, src, text, managed].  Lists of changes are sets.                   *)
(***************************************************************************)
EXTENDS Naturals, Sequences

\* The target of a preview that is given none.
NoTarget == [title |-> "", current |-> "", msgs |-> <<>>]

IdsOf(msgs) == {msgs[i].id : i \in DOMAIN msgs}
At(msgs, id) == CHOOSE i \in DOMAIN msgs : msgs[i].id = id
ParentNode(msgs, i) == IF i = 1 THEN "" ELSE msgs[i - 1].node
SameText(old, new, id) == old[At(old, id)].text = new[At(new, id)].text

\* validateSource and validateTarget: no id twice.
UniqueIds(msgs) == \A i, j \in DOMAIN msgs : msgs[i].id = msgs[j].id => i = j
ValidTarget(t) ==
  /\ UniqueIds(t.msgs)
  /\ \A i, j \in DOMAIN t.msgs :
       t.msgs[i].managed /\ t.msgs[j].managed /\ t.msgs[i].src = t.msgs[j].src => i = j
  /\ t.current \in IdsOf(t.msgs)

Kept(old, new) == IdsOf(old) \cap IdsOf(new)

\* Wrong: a message stays where it is as long as the messages keep their order.
NeverMoved(old, new, id) == FALSE

Moved(old, new, id) ==
  \/ At(old, id) # At(new, id)
  \/ ParentNode(old, At(old, id)) # ParentNode(new, At(new, id))

SameRelativeOrder(old, new) ==
  \A p, q \in Kept(old, new) : At(old, p) < At(old, q) => At(new, p) < At(new, q)

Added(old, new) == IdsOf(new) \ IdsOf(old)

\* Wrong: a source that is not shorter has lost nothing.
ReducedIfShorter(old, new) ==
  IF Len(new) < Len(old) THEN IdsOf(old) \ IdsOf(new) ELSE {}

Reduced(old, new) == IdsOf(old) \ IdsOf(new)

Modified(old, new) ==
  {id \in Kept(old, new) : ~Moved(old, new, id) /\ ~SameText(old, new, id)}

SourceConflicts(previous, current, stable) ==
  (IF {previous.candidate, current.candidate} \cap {""} = {}
        /\ previous.candidate # current.candidate
   THEN {"source_identity_changed"} ELSE {})
  \cup (IF previous.parser # current.parser THEN {"parser_version_changed"} ELSE {})
  \cup (IF \E id \in Kept(previous.msgs, current.msgs) :
             Moved(previous.msgs, current.msgs, id)
        THEN {"source_structure_changed"} ELSE {})
  \cup (IF ~SameRelativeOrder(previous.msgs, current.msgs)
        THEN {"source_order_changed"} ELSE {})
  \cup (IF ~stable /\ previous # current THEN {"source_identity_unverified"} ELSE {})

-----------------------------------------------------------------------------
\* Wrong: what the human made of a message that the source changed does not matter.
ConvergedAnyhow(previous, current, msg) ==
  /\ msg.src \in Kept(previous.msgs, current.msgs)
  /\ ~SameText(previous.msgs, current.msgs, msg.src)

\* The one change of a target message that is none of a conflict: it already says what
\* the source was changed to.
Converged(previous, current, msg) ==
  /\ msg.src \in Kept(previous.msgs, current.msgs)
  /\ ~SameText(previous.msgs, current.msgs, msg.src)
  /\ msg.managed /\ msg.text = current.msgs[At(current.msgs, msg.src)].text

\* compareTarget, for one message of the baseline and the target that should have it.
MessageConflict(previous, current, base, target, i) ==
  LET was == base.msgs[i] IN
  IF was.id \notin IdsOf(target.msgs) THEN "target_message_missing"
  ELSE LET j == At(target.msgs, was.id)
           is == target.msgs[j]
       IN  IF <<was.src, was.managed, i>> # <<is.src, is.managed, j>>
           THEN "target_structure_changed"
           ELSE IF was.text # is.text /\ ~Converged(previous, current, is)
           THEN "target_message_changed" ELSE ""

TargetConflicts(previous, current, base, target) ==
  (IF base.current # target.current THEN {"target_current_message_changed"} ELSE {})
  \cup ({MessageConflict(previous, current, base, target, i) : i \in DOMAIN base.msgs} \ {""})
  \cup {IF target.msgs[j].managed THEN "unexpected_managed_target_message"
        ELSE "target_native_message" :
        j \in {k \in DOMAIN target.msgs : target.msgs[k].id \notin IdsOf(base.msgs)}}

TitleChange(previous, current, base, target) ==
  IF base # NoTarget /\ target.title # base.title
  THEN IF target.title = current.title THEN "converged" ELSE "preserve_target_override"
  ELSE IF previous.title # current.title THEN "sync_source" ELSE "unchanged"

-----------------------------------------------------------------------------
\* Preview with a previous source.  The error is the status "invalid".
Conflicts(previous, current, base, target, stable) ==
  SourceConflicts(previous, current, stable)
  \cup IF base = NoTarget THEN {} ELSE TargetConflicts(previous, current, base, target)

Valid(previous, current, base, target) ==
  /\ UniqueIds(previous.msgs) /\ UniqueIds(current.msgs)
  /\ base # NoTarget => ValidTarget(base) /\ ValidTarget(target)

Preview(previous, current, base, target, stable) ==
  LET added == Added(previous.msgs, current.msgs)
      modified == Modified(previous.msgs, current.msgs)
      reduced == Reduced(previous.msgs, current.msgs)
      conflicts == Conflicts(previous, current, base, target, stable)
      title == TitleChange(previous, current, base, target)
      status ==
        IF ~Valid(previous, current, base, target) THEN "invalid"
        ELSE IF current.partial THEN "unsupported_content"
        ELSE IF reduced # {} \/ conflicts # {} THEN "conflict"
        ELSE IF added = {} /\ modified = {} /\ title # "sync_source" THEN "no_change"
        ELSE "ready"
  IN  [status |-> status, added |-> added, modified |-> modified, reduced |-> reduced,
       conflicts |-> conflicts, title |-> title]
=============================================================================
