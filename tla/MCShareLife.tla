---------------------------- MODULE MCShareLife ----------------------------
(***************************************************************************)
(* ShareLife on small conversations of messages that are shown, passed     *)
(* over, or not understood.                                                *)
(***************************************************************************)
EXTENDS ShareLife

Content(role, type, parts) ==
  [role |-> role, hidden |-> FALSE, recipient |-> None, type |-> type,
   channel |-> None, parts |-> parts]

MCContents ==
  {Content("user", "text", "cited"), Content("tool", "text", "plain"),
   Content("assistant", "image", None)}
=============================================================================
