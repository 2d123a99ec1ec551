---------------------------- MODULE MCLoginGate ----------------------------
(* TLC instance of LoginGate: two keys share three in-flight sign-ins. *)
EXTENDS LoginGate
=============================================================================
