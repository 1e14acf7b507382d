------------------------- MODULE MCSecretLifecycle -------------------------
(* A small instance of SecretLifecycle for TLC. *)
EXTENDS SecretLifecycle, TLC

CONSTANTS pin, phrase

EnteredUsed == {pin, phrase}

\* Both minimums let the phrase pass; one of them asks for more than the pin and
\* more than what is generated.
LengthUsed == (pin :> 20) @@ (phrase :> 64)

\* Entries of imports are marked as high risk, whatever their material.
RatingsUsed == {<<"high", TRUE>>}

\* No definition tells the users apart.
Symmetry == Permutations(Users)
============================================================================
