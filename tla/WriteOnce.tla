------------------------------- MODULE WriteOnce -------------------------------
(* What the gate promises about the writes it makes to Open WebUI, without any
   of its machinery.  An intent is opened on a resource (a share to create a chat
   from, or a binding to update), sends at most one write, and ends ok or failed.
   While it is open nothing else is opened on the resource.  A write that was
   sent may take effect at any later time, but only while its intent is open: an
   intent that failed has not written and never will, one that ended ok has
   written or had nothing to write.  An intent whose outcome is never learned
   stays open: that is the promise, not a gap in it.                          *)
CONSTANTS Intents, Resources, None

VARIABLES
  intent,   \* "none", "open", "ok" or "failed"
  write,    \* "unsent", "out", "in" or "refused"
  holds     \* the resource an intent was opened on

writeVars == <<intent, write, holds>>

WriteTypeOK ==
  /\ intent \in [Intents -> {"none", "open", "ok", "failed"}]
  /\ write \in [Intents -> {"unsent", "out", "in", "refused"}]
  /\ holds \in [Intents -> Resources \cup {None}]

WriteInit ==
  /\ intent = [i \in Intents |-> "none"]
  /\ write = [i \in Intents |-> "unsent"]
  /\ holds = [i \in Intents |-> None]

Open(i) ==
  /\ intent[i] = "none"
  /\ intent' = [intent EXCEPT ![i] = "open"]
  /\ \E r \in Resources :
       /\ \A other \in Intents : intent[other] = "open" => holds[other] # r
       /\ holds' = [holds EXCEPT ![i] = r]
  /\ UNCHANGED write

Moves(i, from, to) ==
  /\ intent[i] = "open"
  /\ write[i] = from
  /\ write' = [write EXCEPT ![i] = to]
  /\ UNCHANGED <<intent, holds>>

Send(i) == Moves(i, "unsent", "out")
Land(i) == Moves(i, "out", "in")
Refuse(i) == Moves(i, "out", "refused")

Ends(i, how, when) ==
  /\ intent[i] = "open"
  /\ write[i] \in when
  /\ intent' = [intent EXCEPT ![i] = how]
  /\ UNCHANGED <<write, holds>>

Succeed(i) == Ends(i, "ok", {"in", "unsent"})
Fail(i) == Ends(i, "failed", {"unsent", "refused"})

WriteNext ==
  \E i \in Intents :
    \/ Open(i)
    \/ Send(i) \/ Land(i) \/ Refuse(i) \/ Succeed(i) \/ Fail(i)

WriteSpec == WriteInit /\ [][WriteNext]_writeVars
===============================================================================
