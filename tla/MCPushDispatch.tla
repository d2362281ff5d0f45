--------------------------- MODULE MCPushDispatch ---------------------------
(* Small instances of PushDispatch. *)
EXTENDS PushDispatch
=============================================================================
