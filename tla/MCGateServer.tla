--------------------------- MODULE MCGateServer ----------------------------
(***************************************************************************)
(* GateServer with two calls at a time, each followed by others.           *)
(***************************************************************************)
EXTENDS GateServer

MCTools == {"preview", "apply", "status"}
=============================================================================
