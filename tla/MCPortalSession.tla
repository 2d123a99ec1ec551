---------------------------- MODULE MCPortalSession ----------------------------
(* Instances of PortalSession: two visitors of one browser. *)
EXTENDS PortalSession
=============================================================================
