--------------------------- MODULE MCSipanaAgent ---------------------------
(* The instance of SipanaAgent for TLC: its constants are in the .cfg. *)
EXTENDS SipanaAgent
=============================================================================
