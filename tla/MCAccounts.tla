---------------------------- MODULE MCAccounts -----------------------------
(***************************************************************************)
(* TLC instances of Accounts: the field values clients send.               *)
(***************************************************************************)
EXTENDS Accounts, TLC

Flags(ad, ac, mu, pw) == [admin |-> ad, active |-> ac, must |-> mu, password |-> pw]

\* Every combination of the two rights, without a password.
SentRights == {Flags(ad, ac, FALSE, FALSE) : ad \in BOOLEAN, ac \in BOOLEAN}

\* The same, and a new password that must be changed.
SentSerial == SentRights \cup {Flags(FALSE, TRUE, TRUE, TRUE)}

\* New accounts, administrators or not, that must change their password.
SentNew == {Flags(ad, TRUE, TRUE, FALSE) : ad \in BOOLEAN}

\* Requests are interchangeable.
Symmetry == Permutations(Worker)
=============================================================================
