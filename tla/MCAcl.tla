-------------------------------- MODULE MCAcl -------------------------------
(* Small instances of Acl for TLC. *)
EXTENDS Acl, TLC

CONSTANTS c1, c2, p1, p2, p3

Symmetry == Permutations(Clients)
=============================================================================
