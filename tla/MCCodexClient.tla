--------------------------- MODULE MCCodexClient ---------------------------
(***************************************************************************)
(* One connection of each caller.  The stream has one slot, so that the    *)
(* transport stops reading whenever the caller does not.                   *)
(***************************************************************************)
EXTENDS CodexClient
=============================================================================
