-------------------------- MODULE MCCredentialPool --------------------------
(* Instances of CredentialPool for TLC. *)
EXTENDS CredentialPool, TLC

CONSTANTS r1, r2, opus, haiku

MCReq == {r1, r2}
Symmetry == Permutations(MCReq)

\* one scope that every credential serves
OneScope == {opus}
TwoScopes == {opus, haiku}

Itself == [s \in Scope |-> s]
ServesAll == [c \in Cred |-> Scope]
MCPriority == [c \in Cred |-> IF c = 1 THEN 1 ELSE 0]
=============================================================================
