----------------------------- MODULE MCSyncService -----------------------------
(* The sync engine on one share that grows once.  Sources, keys and payloads of
   the instance; the cfg files choose the callers and how many plans,
   operations and edits there are.                                            *)
EXTENDS SyncService

CONSTANTS h1, c1, m1, m2

Share(messages, text) ==
  [share |-> h1, conversation |-> c1, messages |-> messages, text |-> text,
   complete |-> TRUE, verified |-> FALSE]
short == Share({m1}, "t")
long == Share({m1, m2}, "t")
reworded == Share({m1}, "u")
MCSources == {short, reworded}
Growing == {short, long}

MCKeys ==
  {<<"create", v>> : v \in Conversations}
    \cup {<<"create", "snapshot", s>> : s \in Sources}
    \cup {<<"update", b, v, s>> : b \in Bindings, v \in 1 .. 3, s \in Sources}

MCPayloads ==
  [binding: Bindings \cup {None}, src: Sources, prev: Sources \cup {None},
   expected: Docs \cup {None}, desired: Docs]
===============================================================================
