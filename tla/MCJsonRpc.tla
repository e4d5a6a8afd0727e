----------------------------- MODULE MCJsonRpc -----------------------------
(***************************************************************************)
(* Two tasks and the responder share a transport whose pipes and streams   *)
(* hold one message, so that every queue is full again and again.          *)
(***************************************************************************)
EXTENDS JsonRpc
=============================================================================
