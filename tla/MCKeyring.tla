----------------------------- MODULE MCKeyring ------------------------------
(***************************************************************************)
(* TLC instances of Keyring.  Keys, APIs and secrets are interchangeable.  *)
(***************************************************************************)
EXTENDS Keyring, TLC

Symmetry == Permutations(Key) \cup Permutations(Api) \cup Permutations(Secret)
=============================================================================
