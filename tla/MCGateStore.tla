------------------------------ MODULE MCGateStore ------------------------------
(* Any client of the store on a small installation: one share that grows, a
   second share, plans for both creates and for updates of either version.    *)
EXTENDS GateStore, TLC

CONSTANTS o1, o2, o3, b1, b2, t1, t2, m1, m2, h1, h2, c1,
          p1, p2, k1, k2, k3

MCOperations == {o1, o2, o3}
MCPlans == {p1, p2}
MCKeys == {k1, k2, k3}
MCBindings == {b1, b2}
MCChats == {t1, t2}

Share(h, messages) ==
  [share |-> h, conversation |-> c1, messages |-> messages, text |-> "t",
   complete |-> TRUE, verified |-> FALSE]
short == Share(h1, {m1})
long == Share(h1, {m1, m2})
other == Share(h2, {m1})
MCSources == {short, long, other}

MCDocInputs == {BuildFresh(short), BuildFresh(long)}

\* Creates of both shares, an update of version 1 that names the baseline it
\* expects and one that expects nothing.
MCPlanInputs ==
  LET update == UpdatePlan(long, b1, 1, short, BuildFresh(short), BuildFresh(short))
  IN  {CreatePlan(short), CreatePlan(other), update,
       [update EXCEPT !.expected = None]}

MCPatchInputs ==
  {NoPatch} \cup {[NoPatch EXCEPT !.target = t, !.receipt = t] : t \in Chats}

Permuted == Permutations(MCOperations) \cup Permutations(MCChats)
            \cup Permutations(MCPlans) \cup Permutations(MCKeys)
===============================================================================
