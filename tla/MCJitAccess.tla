---------------------------- MODULE MCJitAccess ----------------------------
(***************************************************************************)
(* An instance of JitAccess: a security admin and an operator who are      *)
(* members of the vault, and an auditor who is not and asks for access.    *)
(***************************************************************************)
EXTENDS JitAccess, TLC

CONSTANTS ada, iris, morgan

MCUsers == {ada, iris, morgan}
MCInitialRole == (ada :> "SECURITY_ADMIN") @@ (iris :> "VAULT_OPERATOR")
                     @@ (morgan :> "AUDITOR")
MCInitialMembers == {ada, iris}

\* The calls differ in name only.
Symmetry == Permutations(Calls)
=============================================================================
