----------------------------- MODULE MCChatSync -----------------------------
(***************************************************************************)
(* ChatSync on a small instance: a share of up to three messages that      *)
(* grows at its end, at its beginning and in the middle, loses messages,   *)
(* has two swapped or one reworded; and, for a growing share, one change   *)
(* of each other thing that a snapshot carries, and one of what the diff   *)
(* does not look at: creation times and the node id of the last message.   *)
(***************************************************************************)
EXTENDS ChatSync

Msg(id, text, node) == [id |-> id, node |-> node, text |-> text, time |-> "then"]

Snapshot(order, reworded) ==
  [title |-> "t", basis |-> "share", candidate |-> "", parser |-> 1, partial |-> FALSE,
   msgs |-> [i \in DOMAIN order |->
     Msg(order[i], IF order[i] = reworded THEN "new" ELSE "old", order[i])]]

Long == Snapshot(<<"a", "b", "c">>, "none")

MCSources ==
  {Snapshot(order, "none") :
     order \in {<<"a">>, <<"a", "b">>, <<"b", "a">>, <<"a", "b", "c">>, <<"a", "c">>,
                <<"a", "c", "b">>}}
  \cup {Snapshot(order, "b") : order \in {<<"a", "b">>, <<"a", "b", "c">>}}
  \cup {[Long EXCEPT !.title = "u"], [Long EXCEPT !.partial = TRUE],
        [Long EXCEPT !.parser = 2], [Long EXCEPT !.msgs[1].node = "other"],
        [Long EXCEPT !.msgs[1].time = "later", !.msgs[2].time = None, !.msgs[3].node = "other"],
        [Long EXCEPT !.candidate = "k1", !.basis = "k1"],
        [Long EXCEPT !.candidate = "k2", !.basis = "k2", !.title = ""]}
=============================================================================
