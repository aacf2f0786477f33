---------------------------- MODULE TokenFamily ----------------------------
(***************************************************************************)
(* What the OAuth server promises about one consent of the owner, said     *)
(* without rows, transactions or expiry times.  A family begins with an    *)
(* authorization code, is opened once by exchanging that code, and is then *)
(* carried by one token pair at a time.  A pair that has carried it never  *)
(* carries it again, and a family that is over is over for good.           *)
(***************************************************************************)
CONSTANTS Families, Pairs, NoPair

VARIABLES
  phase,      \* phase[f]: none, offered (a code exists), live, over
  current,    \* current[f]: the pair that carries a live family
  used        \* every pair that ever carried a family

familyVars == <<phase, current, used>>

FamilyInit ==
  /\ phase = [f \in Families |-> "none"]
  /\ current = [f \in Families |-> NoPair]
  /\ used = {}

Offer(f) ==
  /\ phase[f] = "none"
  /\ phase' = [phase EXCEPT ![f] = "offered"]
  /\ UNCHANGED <<current, used>>

\* Carry the family with a pair that never carried one.
Carry(f) ==
  \E p \in Pairs \ used :
    /\ used' = used \cup {p}
    /\ current' = [current EXCEPT ![f] = p]
    /\ phase' = [phase EXCEPT ![f] = "live"]

Open(f) == phase[f] = "offered" /\ Carry(f)

Rotate(f) == phase[f] = "live" /\ Carry(f)

\* Revocation, a replayed token, a failed exchange, or time: of any number of
\* families, since time passes for all of them at once.
End ==
  \E ended \in SUBSET {f \in Families : phase[f] \in {"offered", "live"}} :
    /\ ended # {}
    /\ phase' = [f \in Families |-> IF f \in ended THEN "over" ELSE phase[f]]
    /\ current' = [f \in Families |-> IF f \in ended THEN NoPair ELSE current[f]]
    /\ UNCHANGED used

FamilyNext ==
  \/ \E f \in Families : Offer(f) \/ Open(f) \/ Rotate(f)
  \/ End

FamilySpec == FamilyInit /\ [][FamilyNext]_familyVars
=============================================================================
