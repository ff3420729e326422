------------------------------- MODULE MCVault -------------------------------
(* Model checking of Vault.                                                *)
EXTENDS Vault

CONSTANTS p1, p2, p3, u1, u2

\* p1 and p2 belong to one user, p3 to another.
MCUid == [p \in Procs |-> IF p = p3 THEN u2 ELSE u1]

\* p1 uses a vault, p2 as well and administers it, p3 administers another of
\* the same number.
MCOps == [p \in Procs |->
  CASE p = p1 -> {"open", "read", "write"}
    [] p = p2 -> {"open", "write", "create", "delete", "erase", "change_key"}
    [] p = p3 -> {"create", "delete"}]

ReadWrite  == [mode |-> "rdwr", append |-> FALSE]
Truncating == [mode |-> "wronly", append |-> FALSE]
Appending  == [mode |-> "wronly", append |-> TRUE]
MCOpenFlags == [p \in Procs |-> IF p = p1 THEN {ReadWrite, Appending} ELSE {Truncating, Appending}]
=============================================================================
